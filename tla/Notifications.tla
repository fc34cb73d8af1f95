----------------------------- MODULE Notifications -----------------------------
(***************************************************************************)
(* What 'tool.executed' sets off (app/events/bus.py, app/notifications):   *)
(* call_tool's event_bus.publish is opened here into the calls of the      *)
(* subscribers, one of which sends failures to the notification channels.  *)
(* All of it happens in the thread of the call, before call_tool returns,  *)
(* while other threads subscribe, unsubscribe, and come and go as channels.*)
(*                                                                         *)
(* An operator named Bug... is a wrong version of the definition that      *)
(* follows it, to be put in its place to see which property notices.       *)
(***************************************************************************)
EXTENDS Executor, Sequences, Naturals

CONSTANTS Listeners,  \* the handlers other subsystems subscribe
          Channels,   \* the names of notification channels
          Notify      \* the handler _on_tool_executed

ASSUME ListenersAssumption == Notify \notin Listeners

VARIABLES subscribers,  \* _subscribers["tool.executed"], a list
          channels,     \* the registered channels
          at,           \* the place of each publish() in the list
          todo,         \* the channels its notify() has still to try
          notifying,    \* it is in notify()
          told,         \* history: what became of a send
          steady,       \* history: nobody was taken off the list during it
          present       \* history: the channels registered all through it

busVars     == <<subscribers, channels>>
publishVars == <<at, todo, notifying>>
history     == <<told, steady, present>>
allVars     == <<vars, busVars, publishVars, history>>

BusTypeOK == /\ TypeOK
             /\ subscribers \in Seq(Listeners \cup {Notify})
             /\ channels  \subseteq Channels
             /\ at        \in [Calls -> Nat \ {0}]
             /\ todo      \in [Calls -> SUBSET Channels]
             /\ notifying \in [Calls -> BOOLEAN]
             /\ told      \in [Calls -> [Channels -> {"none", "sent", "failed", "unknown"}]]
             /\ steady    \in [Calls -> BOOLEAN]
             /\ present   \in [Calls -> SUBSET Channels]

\* Startup has registered channels and wired the notifications, after or before
\* others subscribed.
BusInit == /\ Init
           /\ subscribers \in {<<Notify>>} \cup {<<l, Notify>> : l \in Listeners}
           /\ channels \in SUBSET Channels
           /\ at        = [c \in Calls |-> 1]
           /\ todo      = [c \in Calls |-> {}]
           /\ notifying = [c \in Calls |-> FALSE]
           /\ told      = [c \in Calls |-> [n \in Channels |-> "none"]]
           /\ steady    = [c \in Calls |-> TRUE]
           /\ present   = [c \in Calls |-> {}]

Subscribed(h) == \E i \in DOMAIN subscribers : subscribers[i] = h
Publishing(c) == pc[c] = "publish"
Without(i)    == SubSeq(subscribers, 1, i - 1) \o SubSeq(subscribers, i + 1, Len(subscribers))

-----------------------------------------------------------------------------
\* The bus and the channels, used by any thread at any time

\* bound: a handler is on the list once.
Subscribe(l) == /\ ~Subscribed(l)
                /\ subscribers' = Append(subscribers, l)
                /\ UNCHANGED <<vars, channels, publishVars, history>>

\* list.remove, under whoever iterates over the list.
Unsubscribe(l) == /\ \E i \in DOMAIN subscribers :
                       /\ subscribers[i] = l
                       /\ \A j \in 1 .. (i - 1) : subscribers[j] # l
                       /\ subscribers' = Without(i)
                  /\ steady' = [c \in Calls |-> steady[c] /\ ~Publishing(c)]
                  /\ UNCHANGED <<vars, channels, publishVars, told, present>>

RegisterChannel(n) == /\ channels' = channels \cup {n}
                      /\ UNCHANGED <<vars, subscribers, publishVars, history>>

UnregisterChannel(n) == /\ channels' = channels \ {n}
                        /\ present' = [c \in Calls |-> present[c] \ {n}]
                        /\ UNCHANGED <<vars, subscribers, publishVars, told, steady>>

-----------------------------------------------------------------------------
\* publish() in call c.  The log of call_tool comes before it.
LogAndEnter(c) ==
  /\ Log(c)
  /\ present' = [present EXCEPT ![c] = channels]
  /\ UNCHANGED <<busVars, publishVars, told, steady>>

Handling(c, h) == Publishing(c) /\ ~notifying[c] /\ at[c] <= Len(subscribers)
                    /\ subscribers[at[c]] = h
Advance(c)     == at' = [at EXCEPT ![c] = @ + 1]

\* A listener returns or raises, which publish() logs; the next one is called
\* (Bug: the exception leaves the loop).
BugListener(c, l) ==
  /\ Handling(c, l)
  /\ \/ Advance(c)
     \/ at' = [at EXCEPT ![c] = Len(subscribers) + 1]
  /\ UNCHANGED <<vars, busVars, todo, notifying, history>>
Listener(c, l) ==
  /\ Handling(c, l)
  /\ Advance(c)
  /\ UNCHANGED <<vars, busVars, todo, notifying, history>>

\* _on_tool_executed: failures only; notify() takes the names of the channels
\* there are now (Bug: successes too).
BugOnToolExecuted(c) ==
  /\ Handling(c, Notify)
  /\ notifying' = [notifying EXCEPT ![c] = TRUE]
  /\ todo' = [todo EXCEPT ![c] = channels]
  /\ UNCHANGED <<vars, busVars, at, history>>
OnToolExecuted(c) ==
  /\ Handling(c, Notify)
  /\ IF StatusOf(ended[c]) = "failure"
       THEN /\ notifying' = [notifying EXCEPT ![c] = TRUE]
            /\ todo' = [todo EXCEPT ![c] = channels]
            /\ UNCHANGED at
       ELSE /\ Advance(c)
            /\ UNCHANGED <<notifying, todo>>
  /\ UNCHANGED <<vars, busVars, history>>

\* The channels' send(): True, or False for any exception, which no channel lets
\* out and notify() would catch.
ConsoleSend  == {"sent", "failed"}
TelegramSend == {"sent", "failed"}

\* A channel that went meanwhile counts as failed.
Send(c, n) ==
  /\ Publishing(c) /\ notifying[c]
  /\ n \in todo[c]
  /\ todo' = [todo EXCEPT ![c] = @ \ {n}]
  /\ \E r \in IF n \in channels THEN ConsoleSend \cup TelegramSend ELSE {"unknown"} :
       told' = [told EXCEPT ![c][n] = r]
  /\ UNCHANGED <<vars, busVars, at, notifying, steady, present>>

NotifyReturns(c) ==
  /\ Publishing(c) /\ notifying[c]
  /\ todo[c] = {}
  /\ notifying' = [notifying EXCEPT ![c] = FALSE]
  /\ Advance(c)
  /\ UNCHANGED <<vars, busVars, todo, history>>

\* The list is at its end, and call_tool returns or raises.
PublishReturns(c) ==
  /\ ~notifying[c] /\ at[c] > Len(subscribers)
  /\ Publish(c)
  /\ UNCHANGED <<busVars, publishVars, history>>

\* The steps of call_tool before the log.
Before(c) == /\ \/ Begin(c) \/ PassGate(c) \/ RunTool(c)
                \/ \E r \in Reply : Answer(c, r)
             /\ UNCHANGED <<busVars, publishVars, history>>

BusNext ==
  \/ \E c \in Calls : \/ Before(c) \/ LogAndEnter(c) \/ OnToolExecuted(c)
                      \/ \E l \in Listeners : Listener(c, l)
                      \/ \E n \in Channels : Send(c, n)
                      \/ NotifyReturns(c) \/ PublishReturns(c)
  \/ \E l \in Listeners : Subscribe(l) \/ Unsubscribe(l)
  \/ \E n \in Channels : RegisterChannel(n) \/ UnregisterChannel(n)

BusSpec == BusInit /\ [][BusNext]_allVars

-----------------------------------------------------------------------------
\* Properties

\* A failed call is left only after every channel that was registered all the
\* while was tried, whatever the other subscribers and channels did, raise, come
\* or go; only a handler taken off the list during the call may cost the
\* notification, since it moves the others up under publish().
FailureReachesEveryChannel ==
  \A c \in Calls :
    pc[c] = "done" /\ event[c] = "failure" /\ steady[c] =>
      \A n \in present[c] : told[c][n] # "none"

\* No channel hears of a call that succeeds, or of one before its row was written
\* to the history or given up.
OnlyFailuresAreTold ==
  \A c \in Calls :
    (\E n \in Channels : told[c][n] # "none") =>
      /\ ended[c] \notin {"none", "returned", "handler_raised"}
      /\ row[c] = "failure" \/ rowLost[c]
=============================================================================
