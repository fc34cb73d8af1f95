---------------------------- MODULE ExecutorProofs ----------------------------
(***************************************************************************)
(* Proofs about call_tool: alone (Executor), with what its event sets off  *)
(* (Notifications), and as the bot calls it (BotCalls); for any sets of    *)
(* invocations, handlers, subscribers, channels and taps, and a pool of    *)
(* any size.                                                               *)
(***************************************************************************)
EXTENDS Notifications, BotCalls, SequenceTheorems, TLAPS

\* What is settled at each point of an invocation c.
Progress(c) ==
  /\ pc[c] \in {"idle", "approval", "tool"} =>
       ~ran[c] /\ ended[c] = "none" /\ row[c] = "none" /\ ~rowLost[c] /\ event[c] = "none"
  /\ pc[c] \in {"log", "publish"} =>
       /\ ended[c] \notin {"none", "handler_raised"}
       /\ ran[c] <=> ended[c] \in {"returned", "tool_raised"}
       /\ event[c] = "none"
  /\ pc[c] = "log" => row[c] = "none" /\ ~rowLost[c]
  /\ pc[c] = "publish" => row[c] = StatusOf(ended[c]) \/ (row[c] = "none" /\ rowLost[c])

\* A tool above READ is behind its gate as long as its handler has not said
\* yes, and the default handler never does.
Gate(c) ==
  /\ pc[c] = "idle" => approval[c] = "none"
  /\ approval[c] = "asked" => pc[c] = "approval"
  /\ approval[c] = "yes" => handler[c] # "default_safe"
  /\ pc[c] = "tool" /\ tool[c] \in Permission \ {"READ"} => approval[c] = "yes"

IInv == /\ TypeOK
        /\ \A c \in Calls : Progress(c) /\ Gate(c)
        /\ GatedEffect
        /\ AuditTellsTheTruth

LEMMA TypeInit == Init => TypeOK
  BY HandlersAssumption DEF Init, TypeOK, PC, Reply, Ending, Status

LEMMA TypeStep == TypeOK /\ [Next]_vars => TypeOK'
<1> SUFFICES ASSUME TypeOK, [Next]_vars PROVE TypeOK'
    OBVIOUS
<1> USE DEF TypeOK, PC, Reply, Ending, Status
<1>1. CASE UNCHANGED vars
  BY <1>1 DEF vars, callVars, auditVars
<1>2. ASSUME NEW c \in Calls, Begin(c) PROVE TypeOK'
  BY <1>2 DEF Begin, End, Goto, auditVars
<1>3. ASSUME NEW c \in Calls, PassGate(c) PROVE TypeOK'
  BY <1>3 DEF PassGate, End, Goto, auditVars
<1>4. ASSUME NEW c \in Calls, RunTool(c) PROVE TypeOK'
  BY <1>4 DEF RunTool, End, Goto, auditVars
<1>5. ASSUME NEW c \in Calls, Log(c) PROVE TypeOK'
  BY <1>5 DEF Log, LogFailsTo, StatusOf, Goto
<1>6. ASSUME NEW c \in Calls, Publish(c) PROVE TypeOK'
  BY <1>6 DEF Publish, StatusOf, Goto
<1>7. ASSUME NEW c \in Calls, NEW r \in Reply, Answer(c, r) PROVE TypeOK'
  BY <1>7 DEF Answer, callVars, auditVars
<1> QED BY <1>1, <1>2, <1>3, <1>4, <1>5, <1>6, <1>7 DEF Next, Step

\* Every invocation keeps the declared types.
THEOREM TypeCorrect == Spec => []TypeOK
  BY TypeInit, TypeStep, PTL DEF Spec

LEMMA InvInit == Init => IInv
  BY TypeInit DEF Init, IInv, Progress, Gate, GatedEffect, AuditTellsTheTruth

\* A step of one invocation leaves the others alone, so it is enough to look at
\* the invocation that moves.
LEMMA InvStep == IInv /\ [Next]_vars => IInv'
<1> SUFFICES ASSUME IInv, [Next]_vars PROVE IInv'
    OBVIOUS
<1>0. TypeOK' BY TypeStep DEF IInv
<1> USE DEF IInv, TypeOK, Progress, Gate, GatedEffect, AuditTellsTheTruth
<1>1. CASE UNCHANGED vars
  BY <1>0, <1>1 DEF vars, callVars, auditVars
<1>2. ASSUME NEW c \in Calls, Begin(c) PROVE IInv'
  BY <1>0, <1>2 DEF Begin, End, Goto, auditVars, RequiresApproval, Permission, Tool
<1>3. ASSUME NEW c \in Calls, PassGate(c) PROVE IInv'
  BY <1>0, <1>3 DEF PassGate, End, Goto, auditVars
<1>4. ASSUME NEW c \in Calls, RunTool(c) PROVE IInv'
  BY <1>0, <1>4 DEF RunTool, End, Goto, auditVars
<1>5. ASSUME NEW c \in Calls, Log(c) PROVE IInv'
  BY <1>0, <1>5 DEF Log, LogFailsTo, Goto
<1>6. ASSUME NEW c \in Calls, Publish(c) PROVE IInv'
  BY <1>0, <1>6 DEF Publish, Goto
<1>7. ASSUME NEW c \in Calls, NEW r \in Reply, Answer(c, r) PROVE IInv'
  BY <1>0, <1>7 DEF Answer, Answers, Handler, callVars, auditVars
<1> QED BY <1>1, <1>2, <1>3, <1>4, <1>5, <1>6, <1>7 DEF Next, Step

LEMMA Invariance == Spec => []IInv
  BY InvInit, InvStep, PTL DEF Spec

\* No tool above READ runs without a yes of its handler, and none at all behind
\* the default handler.
THEOREM EffectsAreGated == Spec => []GatedEffect
  BY Invariance, PTL DEF IInv

\* The row, the event and the effect agree with what the caller is told, unless
\* the handler itself raised.
THEOREM AuditIsTrue == Spec => []AuditTellsTheTruth
  BY Invariance, PTL DEF IInv

\* An answer is given once, and only to a call that waits at its gate: what is
\* left is left for good.
THEOREM CallsEndForGood == Spec => AnsweredOnce /\ LeftForGood
<1> DEFINE Once(c) == approval[c] \in {"yes", "no", "raised"} => approval'[c] = approval[c]
           Left(c) == pc[c] = "done" =>
             /\ pc'[c] = "done" /\ ran'[c] = ran[c] /\ ended'[c] = ended[c]
             /\ approval'[c] = approval[c] /\ row'[c] = row[c] /\ event'[c] = event[c]
<1>1. ASSUME IInv, Next, NEW c \in Calls PROVE Once(c) /\ Left(c)
  <2>1. TypeOK /\ Gate(c)
    BY <1>1 DEF IInv
  <2>2. ASSUME NEW d \in Calls, Step(d) PROVE Once(c) /\ Left(c)
    BY <2>1, <2>2 DEF TypeOK, Gate, Step, Begin, PassGate, RunTool, Log, Publish, Goto, End, auditVars
  <2>3. ASSUME NEW d \in Calls, NEW r \in Reply, Answer(d, r) PROVE Once(c) /\ Left(c)
    BY <2>1, <2>3 DEF TypeOK, Gate, Answer, callVars, auditVars
  <2> QED BY <1>1, <2>2, <2>3 DEF Next
<1> DEFINE AllOnce == \A c \in Calls : Once(c)
           AllLeft == \A c \in Calls : Left(c)
<1>2. IInv /\ [Next]_vars => [AllOnce]_vars /\ [AllLeft]_vars
  BY <1>1
<1> QED BY <1>2, Invariance, PTL DEF Spec, AnsweredOnce, LeftForGood

-----------------------------------------------------------------------------
\* The bus and the channels

\* Opening publish() adds nothing to call_tool: every step is one of Executor's
\* or leaves its variables alone.
LEMMA BusStepIsStep == [BusNext]_allVars => [Next]_vars
<1> SUFFICES ASSUME [BusNext]_allVars PROVE [Next]_vars
    OBVIOUS
<1>1. CASE UNCHANGED allVars
  BY <1>1 DEF allVars
<1>2. ASSUME NEW c \in Calls, Before(c) PROVE Next
  BY <1>2 DEF Before, Next, Step
<1>3. ASSUME NEW c \in Calls, LogAndEnter(c) PROVE Next
  BY <1>3 DEF LogAndEnter, Next, Step
<1>4. ASSUME NEW c \in Calls, PublishReturns(c) PROVE Next
  BY <1>4 DEF PublishReturns, Next, Step
<1>5. ASSUME NEW c \in Calls, OnToolExecuted(c) \/ NotifyReturns(c) PROVE UNCHANGED vars
  BY <1>5 DEF OnToolExecuted, NotifyReturns
<1>6. ASSUME NEW c \in Calls, NEW l \in Listeners, Listener(c, l) PROVE UNCHANGED vars
  BY <1>6 DEF Listener
<1>7. ASSUME NEW c \in Calls, NEW n \in Channels, Send(c, n) PROVE UNCHANGED vars
  BY <1>7 DEF Send
<1>8. ASSUME NEW l \in Listeners, Subscribe(l) \/ Unsubscribe(l) PROVE UNCHANGED vars
  BY <1>8 DEF Subscribe, Unsubscribe
<1>9. ASSUME NEW n \in Channels, RegisterChannel(n) \/ UnregisterChannel(n) PROVE UNCHANGED vars
  BY <1>9 DEF RegisterChannel, UnregisterChannel
<1> QED BY <1>1, <1>2, <1>3, <1>4, <1>5, <1>6, <1>7, <1>8, <1>9 DEF BusNext

\* Seen from call_tool, the bus with whatever its subscribers and channels do is
\* an Executor.
THEOREM BusImplementsExecutor == BusSpec => Spec
<1>1. BusInit => Init
  BY DEF BusInit
<1> QED BY <1>1, BusStepIsStep, PTL DEF BusSpec, Spec

\* Behind an open publish(), still no tool above READ runs without a yes.
THEOREM BusGated == BusSpec => []GatedEffect
  BY BusImplementsExecutor, EffectsAreGated

\* Whatever subscribers and channels do, row, event and caller agree.
THEOREM BusAudited == BusSpec => []AuditTellsTheTruth
  BY BusImplementsExecutor, AuditIsTrue

\* What is left of the list when another handler is taken off it.
LEMMA WithoutFacts ==
  ASSUME subscribers \in Seq(Listeners \cup {Notify}), NEW l \in Listeners,
         NEW k \in DOMAIN subscribers, subscribers[k] = l
  PROVE  /\ Without(k) \in Seq(Listeners \cup {Notify})
         /\ Subscribed(Notify) => \E i \in DOMAIN Without(k) : Without(k)[i] = Notify
<1> DEFINE N == Len(subscribers)
           L == SubSeq(subscribers, 1, k - 1)
           R == SubSeq(subscribers, k + 1, N)
<1>1. /\ N \in Nat /\ k \in 1 .. N
      /\ L \in Seq(Listeners \cup {Notify}) /\ R \in Seq(Listeners \cup {Notify})
      /\ Len(L) = k - 1 /\ Len(R) = N - k
      /\ \A i \in 1 .. (k - 1) : L[i] = subscribers[i]
      /\ \A i \in 1 .. (N - k) : R[i] = subscribers[i + k]
  <2>1. N \in Nat /\ k \in 1 .. N
    OBVIOUS
  <2>2. \A i \in 1 .. N : subscribers[i] \in Listeners \cup {Notify}
    OBVIOUS
  <2>3. /\ L \in Seq(Listeners \cup {Notify}) /\ Len(L) = k - 1
        /\ \A i \in 1 .. (k - 1) : L[i] = subscribers[i]
    BY <2>1, <2>2
  <2>4. R \in Seq(Listeners \cup {Notify}) /\ Len(R) = N - k
    BY <2>1, <2>2
  <2>5. ASSUME NEW i \in 1 .. (N - k) PROVE R[i] = subscribers[i + k]
    <3>1. R[i] = subscribers[(k + 1) + i - 1]
      BY <2>1
    <3> QED BY <2>1, <3>1
  <2> HIDE DEF L, R, N
  <2> QED BY <2>1, <2>3, <2>4, <2>5
<1>2. Without(k) = L \o R
  BY DEF Without
<1> HIDE DEF L, R
<1>3. /\ Without(k) \in Seq(Listeners \cup {Notify})
      /\ Len(Without(k)) = N - 1
      /\ \A i \in 1 .. (k - 1) : Without(k)[i] = subscribers[i]
      /\ \A i \in k .. (N - 1) : Without(k)[i] = R[i - (k - 1)]
  <2> DEFINE S == Listeners \cup {Notify}
  <2>0. L \in Seq(S) /\ R \in Seq(S)
    BY <1>1
  <2> HIDE DEF S
  <2>1. L \o R \in Seq(S) /\ Len(L \o R) = Len(L) + Len(R)
    BY <2>0, ConcatProperties
  <2>2. \A i \in 1 .. (Len(L) + Len(R)) :
          (L \o R)[i] = IF i <= Len(L) THEN L[i] ELSE R[i - Len(L)]
    BY <2>0, ConcatProperties
  <2> HIDE DEF N
  <2>3. ASSUME NEW i \in 1 .. (k - 1) PROVE (L \o R)[i] = subscribers[i]
    BY <1>1, <2>2
  <2>4. ASSUME NEW i \in k .. (N - 1) PROVE (L \o R)[i] = R[i - (k - 1)]
    BY <1>1, <2>2
  <2>5. Len(L \o R) = N - 1
    BY <1>1, <2>1
  <2> QED BY <1>2, <2>1, <2>3, <2>4, <2>5 DEF S
<1>4. ASSUME NEW p \in 1 .. N, subscribers[p] = Notify
      PROVE  \E i \in DOMAIN Without(k) : Without(k)[i] = Notify
  <2>1. p # k
    BY <1>4, ListenersAssumption
  <2>2. CASE p < k
    <3>1. p \in 1 .. (k - 1) /\ p \in DOMAIN Without(k)
      BY <1>1, <1>3, <2>2
    <3> QED BY <1>3, <1>4, <3>1
  <2>3. CASE p > k
    <3>1. p - 1 \in k .. (N - 1) /\ p - 1 \in DOMAIN Without(k)
      BY <1>1, <1>3, <2>3
    <3>2. p - k \in 1 .. (N - k) /\ (p - 1) - (k - 1) = p - k /\ (p - k) + k = p
      BY <1>1, <2>3
    <3>3. Without(k)[p - 1] = R[p - k]
      BY <1>3, <3>1, <3>2
    <3>4. R[p - k] = subscribers[p]
      BY <1>1, <3>2
    <3> QED BY <1>4, <3>1, <3>3, <3>4
  <2> QED BY <1>1, <2>1, <2>2, <2>3
<1> QED BY <1>1, <1>3, <1>4 DEF Subscribed

\* publish() of c has _on_tool_executed still before it.
Ahead(c) == \E i \in DOMAIN subscribers : i >= at[c] /\ subscribers[i] = Notify

Tried(c) == \A n \in present[c] : told[c][n] # "none"
Quiet(c) == \A n \in Channels : told[c][n] = "none"

\* How far a call is with its notifications.
Notified(c) ==
  /\ present[c] \subseteq channels
  /\ pc[c] \notin {"publish", "done"} => at[c] = 1 /\ ~notifying[c] /\ steady[c] /\ Quiet(c)
  /\ notifying[c] => pc[c] = "publish" /\ StatusOf(ended[c]) = "failure"
  /\ pc[c] = "publish" /\ StatusOf(ended[c]) = "failure" /\ steady[c] =>
       IF notifying[c] THEN \A n \in present[c] : n \in todo[c] \/ told[c][n] # "none"
                       ELSE Ahead(c) \/ Tried(c)
  /\ pc[c] = "done" /\ event[c] = "failure" /\ steady[c] => Tried(c)
  /\ ~Quiet(c) => /\ ended[c] \notin {"none", "returned", "handler_raised"}
                  /\ row[c] = "failure" \/ rowLost[c]

BusInv == /\ IInv
          /\ BusTypeOK
          /\ Subscribed(Notify)
          /\ \A c \in Calls : Notified(c)

LEMMA BusInvInit == BusInit => BusInv
<1> SUFFICES ASSUME BusInit PROVE BusInv
    OBVIOUS
<1>1. IInv /\ TypeOK
  BY InvInit DEF BusInit, IInv
<1>2. subscribers \in Seq(Listeners \cup {Notify}) /\ Subscribed(Notify)
  <2>1. CASE subscribers = <<Notify>>
    BY <2>1 DEF Subscribed
  <2>2. ASSUME NEW l \in Listeners, subscribers = <<l, Notify>>
        PROVE  subscribers \in Seq(Listeners \cup {Notify}) /\ Subscribed(Notify)
    <3>1. subscribers[2] = Notify /\ 2 \in DOMAIN subscribers
      BY <2>2
    <3> QED BY <2>2, <3>1 DEF Subscribed
  <2> QED BY <2>1, <2>2 DEF BusInit
<1>3. BusTypeOK
  BY <1>1, <1>2 DEF BusInit, BusTypeOK
<1>4. ASSUME NEW c \in Calls PROVE Notified(c)
  BY DEF BusInit, Init, Notified, Quiet, Tried
<1> QED BY <1>1, <1>2, <1>3, <1>4 DEF BusInv

\* A call moves on, and the others keep what they had; the bus stays as it is.
LEMMA NotifiedByCall ==
  ASSUME BusInv, NEW c \in Calls, NEW d \in Calls,
         \/ Before(c) \/ LogAndEnter(c) \/ OnToolExecuted(c) \/ NotifyReturns(c) \/ PublishReturns(c)
         \/ \E l \in Listeners : Listener(c, l)
         \/ \E n \in Channels : Send(c, n)
  PROVE  Notified(d)'
<1> USE DEF BusInv, IInv, TypeOK, BusTypeOK, Notified, Quiet, Tried
<1>1. CASE d # c
  <2>1. /\ UNCHANGED <<subscribers, channels>>
        /\ pc'[d] = pc[d] /\ ended'[d] = ended[d] /\ row'[d] = row[d] /\ rowLost'[d] = rowLost[d]
        /\ event'[d] = event[d] /\ at'[d] = at[d] /\ todo'[d] = todo[d]
        /\ notifying'[d] = notifying[d] /\ told'[d] = told[d] /\ steady'[d] = steady[d]
        /\ present'[d] = present[d]
    <3>1. CASE Before(c)
      BY <1>1, <3>1 DEF Before, Begin, PassGate, RunTool, Answer, Goto, End, callVars, auditVars,
                        busVars, publishVars, history
    <3>2. CASE LogAndEnter(c)
      BY <1>1, <3>2 DEF LogAndEnter, Log, Goto, busVars, publishVars
    <3>3. CASE OnToolExecuted(c) \/ NotifyReturns(c) \/ \E l \in Listeners : Listener(c, l)
      BY <1>1, <3>3 DEF OnToolExecuted, NotifyReturns, Listener, Advance, vars, callVars, auditVars,
                        busVars, history
    <3>4. CASE \E n \in Channels : Send(c, n)
      BY <1>1, <3>4 DEF Send, vars, callVars, auditVars, busVars
    <3>5. CASE PublishReturns(c)
      BY <1>1, <3>5 DEF PublishReturns, Publish, Goto, busVars, publishVars, history
    <3> QED BY <3>1, <3>2, <3>3, <3>4, <3>5
  <2>2. Notified(d)
    OBVIOUS
  <2> QED BY <2>1, <2>2 DEF Ahead, StatusOf
<1>2. CASE d = c
  <2>1. CASE Before(c)
    <3>1. /\ UNCHANGED <<channels, subscribers, at, todo, notifying, told, steady, present>>
          /\ UNCHANGED <<row, rowLost, event>>
      BY <2>1 DEF Before, Begin, PassGate, RunTool, Answer, callVars, auditVars, busVars,
                  publishVars, history
    <3>2. \/ pc[c] \notin {"publish", "done"} /\ pc'[c] \notin {"publish", "done"}
          \/ pc[c] = "approval" /\ pc'[c] = "done"
          \/ pc'[c] = pc[c] /\ ended'[c] = ended[c]
      BY <2>1 DEF Before, Begin, PassGate, RunTool, Answer, Goto, callVars
    <3>3. Notified(c) /\ (pc[c] = "approval" => event[c] = "none")
      BY DEF Progress
    <3> QED BY <1>2, <3>1, <3>2, <3>3 DEF StatusOf, Ahead
  <2>2. CASE LogAndEnter(c)
    <3>1. /\ UNCHANGED <<subscribers, channels, at, todo, notifying, told, steady, ended, event>>
          /\ pc[c] = "log" /\ pc'[c] = "publish" /\ present'[c] = channels
      BY <2>2 DEF LogAndEnter, Log, LogFailsTo, Goto, busVars, publishVars
    <3>2. Notified(c)
      OBVIOUS
    <3>3. Ahead(c)
      <4>1. PICK i \in DOMAIN subscribers : subscribers[i] = Notify
        BY DEF Subscribed
      <4>2. i >= 1 /\ at[c] = 1
        BY <3>1, <3>2
      <4> QED BY <4>1, <4>2 DEF Ahead
    <3> QED BY <1>2, <3>1, <3>2, <3>3 DEF Ahead, StatusOf
  <2>3. CASE OnToolExecuted(c)
    BY <1>2, <2>3 DEF OnToolExecuted, Handling, Publishing, Advance, vars, callVars, auditVars,
                      busVars, history, StatusOf
  <2>4. CASE NotifyReturns(c)
    BY <1>2, <2>4 DEF NotifyReturns, Publishing, Advance, vars, callVars, auditVars, busVars,
                      history, StatusOf
  <2>5. ASSUME NEW l \in Listeners, Listener(c, l) PROVE Notified(d)'
    <3>1. Ahead(c) => Ahead(c)'
      BY <2>5, ListenersAssumption DEF Listener, Handling, Advance, busVars, Ahead
    <3> QED BY <1>2, <2>5, <3>1 DEF Listener, Handling, Publishing, Advance, vars, callVars,
                                    auditVars, busVars, history, StatusOf
  <2>6. ASSUME NEW n \in Channels, Send(c, n) PROVE Notified(d)'
    <3>1. PICK r \in {"sent", "failed", "unknown"} : told' = [told EXCEPT ![c][n] = r]
      BY <2>6 DEF Send, ConsoleSend, TelegramSend
    <3>2. \A m \in Channels : told'[c][m] = IF m = n THEN r ELSE told[c][m]
      BY <3>1
    <3>3. Progress(c) /\ ended[c] \in Ending
      OBVIOUS
    <3> QED BY <1>2, <2>6, <3>2, <3>3 DEF Send, Publishing, vars, callVars, auditVars, busVars,
                                          StatusOf, Progress
  <2>7. CASE PublishReturns(c)
    <3>1. ~Ahead(c) /\ ~notifying[c]
      BY <2>7 DEF PublishReturns, Ahead
    <3> QED BY <1>2, <2>7, <3>1 DEF PublishReturns, Publish, Goto, busVars, publishVars, history,
                                    StatusOf
  <2> QED BY <2>1, <2>2, <2>3, <2>4, <2>5, <2>6, <2>7
<1> QED BY <1>1, <1>2

LEMMA BusInvStep == BusInv /\ [BusNext]_allVars => BusInv'
<1> SUFFICES ASSUME BusInv, [BusNext]_allVars PROVE BusInv'
    OBVIOUS
<1>1. IInv'
  BY BusStepIsStep, InvStep DEF BusInv
<1>2. TypeOK'
  BY <1>1 DEF IInv
<1> USE DEF BusInv, BusTypeOK
<1>3. CASE UNCHANGED allVars
  <2>1. BusTypeOK' /\ Subscribed(Notify)'
    BY <1>2, <1>3 DEF allVars, busVars, publishVars, history, Subscribed
  <2>2. ASSUME NEW c \in Calls PROVE Notified(c)'
    BY <1>3 DEF allVars, vars, callVars, auditVars, busVars, publishVars, history, Notified,
                Quiet, Tried, Ahead, StatusOf
  <2> QED BY <1>1, <2>1, <2>2
<1>4. ASSUME NEW c \in Calls,
             \/ Before(c) \/ LogAndEnter(c) \/ OnToolExecuted(c) \/ NotifyReturns(c) \/ PublishReturns(c)
             \/ \E l \in Listeners : Listener(c, l)
             \/ \E n \in Channels : Send(c, n)
      PROVE  BusInv'
  <2>1. UNCHANGED <<subscribers, channels>>
    BY <1>4 DEF Before, LogAndEnter, OnToolExecuted, NotifyReturns, PublishReturns, Listener, Send,
                busVars
  <2>2. BusTypeOK'
    <3>1. CASE Before(c)
      BY <1>2, <3>1 DEF Before, busVars, publishVars, history
    <3>2. CASE LogAndEnter(c)
      BY <1>2, <3>2 DEF LogAndEnter, busVars, publishVars
    <3>3. CASE OnToolExecuted(c)
      <4>1. /\ UNCHANGED <<subscribers, channels, told, steady, present>>
            /\ at' = at \/ at' = [at EXCEPT ![c] = @ + 1]
            /\ notifying' = notifying \/ notifying' = [notifying EXCEPT ![c] = TRUE]
            /\ todo' = todo \/ todo' = [todo EXCEPT ![c] = channels]
        BY <3>3 DEF OnToolExecuted, Advance, busVars, history
      <4>2. at' \in [Calls -> Nat \ {0}]
        <5>1. at[c] + 1 \in Nat \ {0}
          OBVIOUS
        <5> QED BY <4>1, <5>1
      <4>3. todo' \in [Calls -> SUBSET Channels]
        BY <4>1
      <4>4. notifying' \in [Calls -> BOOLEAN]
        BY <4>1
      <4> QED BY <1>2, <4>1, <4>2, <4>3, <4>4
    <3>4. CASE NotifyReturns(c)
      BY <1>2, <3>4 DEF NotifyReturns, Advance, busVars, history
    <3>5. CASE PublishReturns(c)
      BY <1>2, <3>5 DEF PublishReturns, busVars, publishVars, history
    <3>6. CASE \E l \in Listeners : Listener(c, l)
      BY <1>2, <3>6 DEF Listener, Advance, busVars, history
    <3>7. CASE \E n \in Channels : Send(c, n)
      <4>1. PICK n \in Channels, r \in {"sent", "failed", "unknown"} :
              told' = [told EXCEPT ![c][n] = r]
        BY <3>7 DEF Send, ConsoleSend, TelegramSend
      <4>2. told' \in [Calls -> [Channels -> {"none", "sent", "failed", "unknown"}]]
        <5>1. told' = [told EXCEPT ![c] = [told[c] EXCEPT ![n] = r]]
          BY <4>1
        <5>2. [told[c] EXCEPT ![n] = r] \in [Channels -> {"none", "sent", "failed", "unknown"}]
          OBVIOUS
        <5> QED BY <5>1, <5>2
      <4>3. todo' \in [Calls -> SUBSET Channels]
        BY <3>7 DEF Send
      <4>4. UNCHANGED <<subscribers, channels, at, notifying, steady, present>>
        BY <3>7 DEF Send, busVars
      <4> QED BY <1>2, <4>2, <4>3, <4>4
    <3> QED BY <1>4, <3>1, <3>2, <3>3, <3>4, <3>5, <3>6, <3>7
  <2>3. Subscribed(Notify)'
    BY <2>1 DEF Subscribed
  <2>4. \A d \in Calls : Notified(d)'
    BY <1>4, NotifiedByCall
  <2> QED BY <1>1, <2>2, <2>3, <2>4
<1>5. ASSUME NEW l \in Listeners, Subscribe(l) PROVE BusInv'
  <2>1. subscribers' = Append(subscribers, l) /\ UNCHANGED <<vars, channels, publishVars, history>>
    BY <1>5 DEF Subscribe
  <2>2. /\ subscribers' \in Seq(Listeners \cup {Notify})
        /\ DOMAIN subscribers \subseteq DOMAIN subscribers'
        /\ \A i \in DOMAIN subscribers : subscribers'[i] = subscribers[i]
    BY <2>1, AppendProperties
  <2>3. BusTypeOK' /\ Subscribed(Notify)'
    BY <1>2, <2>1, <2>2 DEF publishVars, history, Subscribed
  <2>4. ASSUME NEW c \in Calls PROVE Notified(c)'
    <3>1. Ahead(c) => Ahead(c)'
      BY <2>1, <2>2 DEF Ahead, publishVars
    <3> QED BY <2>1, <3>1 DEF vars, callVars, auditVars, publishVars, history, Notified, Quiet,
                              Tried, StatusOf
  <2> QED BY <1>1, <2>3, <2>4
<1>6. ASSUME NEW l \in Listeners, Unsubscribe(l) PROVE BusInv'
  <2>1. PICK k \in DOMAIN subscribers : subscribers[k] = l /\ subscribers' = Without(k)
    BY <1>6 DEF Unsubscribe
  <2>2. /\ steady' = [c \in Calls |-> steady[c] /\ ~Publishing(c)]
        /\ UNCHANGED <<vars, channels, publishVars, told, present>>
    BY <1>6 DEF Unsubscribe
  <2>3. subscribers' \in Seq(Listeners \cup {Notify}) /\ Subscribed(Notify)'
    BY <2>1, WithoutFacts DEF Subscribed
  <2>4. BusTypeOK'
    BY <1>2, <2>2, <2>3 DEF publishVars
  <2>5. ASSUME NEW c \in Calls PROVE Notified(c)'
    <3>1. /\ UNCHANGED <<channels, pc, ended, event, row, rowLost, at, todo, notifying, told, present>>
          /\ steady'[c] => steady[c] /\ pc[c] # "publish"
          /\ steady[c] /\ pc[c] # "publish" => steady'[c]
      BY <2>2 DEF vars, callVars, auditVars, publishVars, Publishing
    <3>2. Notified(c)
      OBVIOUS
    <3> QED BY <3>1, <3>2 DEF Notified, Quiet, Tried, StatusOf
  <2> QED BY <1>1, <2>3, <2>4, <2>5
<1>7. ASSUME NEW n \in Channels, RegisterChannel(n) \/ UnregisterChannel(n) PROVE BusInv'
  <2>1. BusTypeOK' /\ Subscribed(Notify)'
    BY <1>2, <1>7 DEF RegisterChannel, UnregisterChannel, publishVars, history, Subscribed
  <2>2. ASSUME NEW c \in Calls PROVE Notified(c)'
    <3>1. UNCHANGED <<subscribers, pc, ended, event, row, rowLost, at, todo, notifying, told, steady>>
      BY <1>7 DEF RegisterChannel, UnregisterChannel, vars, callVars, auditVars, publishVars, history
    <3>2. present'[c] \subseteq present[c] /\ present'[c] \subseteq channels'
      <4>1. Notified(c)
        OBVIOUS
      <4>2. CASE RegisterChannel(n)
        BY <4>1, <4>2 DEF RegisterChannel, history, Notified
      <4>3. CASE UnregisterChannel(n)
        <5>1. present'[c] = present[c] \ {n} /\ channels' = channels \ {n}
          BY <4>3 DEF UnregisterChannel
        <5> QED BY <4>1, <5>1 DEF Notified
      <4> QED BY <1>7, <4>2, <4>3
    <3>3. Notified(c) /\ (Ahead(c) <=> Ahead(c)') /\ (Quiet(c) <=> Quiet(c)') /\ (Tried(c) => Tried(c)')
      BY <3>1, <3>2 DEF Ahead, Quiet, Tried
    <3>4. notifying[c] /\ (\A m \in present[c] : m \in todo[c] \/ told[c][m] # "none")
            => \A m \in present'[c] : m \in todo'[c] \/ told'[c][m] # "none"
      BY <3>1, <3>2
    <3> QED BY <3>1, <3>2, <3>3, <3>4 DEF Notified, StatusOf
  <2> QED BY <1>1, <2>1, <2>2
<1> QED BY <1>3, <1>4, <1>5, <1>6, <1>7 DEF BusNext

LEMMA BusInvariance == BusSpec => []BusInv
  BY BusInvInit, BusInvStep, PTL DEF BusSpec

\* The list, the channels and the loops over them keep their types.
THEOREM BusTypeCorrect == BusSpec => []BusTypeOK
  BY BusInvariance, PTL DEF BusInv

\* A failure reaches every channel registered throughout, unless a subscriber was
\* taken off the list during it.
THEOREM FailuresReachChannels == BusSpec => []FailureReachesEveryChannel
<1>1. BusInv => FailureReachesEveryChannel
  BY DEF BusInv, Notified, Tried, FailureReachesEveryChannel
<1> QED BY <1>1, BusInvariance, PTL

\* Channels hear of failures only, and only after the history was written or lost.
THEOREM OnlyFailuresReachChannels == BusSpec => []OnlyFailuresAreTold
<1>1. BusInv => OnlyFailuresAreTold
  BY DEF BusInv, Notified, Quiet, OnlyFailuresAreTold
<1> QED BY <1>1, BusInvariance, PTL

-----------------------------------------------------------------------------
\* The bot

\* Where request_approval is tells whether its caller still waits.
Asking(c) ==
  /\ thread[c] = "idle" => approval[c] \in {"none", "asked"}
  /\ thread[c] \in {"sending", "waiting", "woken", "timed_out", "reading"} => approval[c] = "asked"
  /\ thread[c] = "gave_up" => approval[c] = "no"
  /\ thread[c] = "left" => approval[c] \in {"yes", "no", "raised"}

\* An answer in the table comes from a tap on this very request, and the event is
\* set behind an answer only.
TappedFor(c, a) == \E t \in Taps : T!On(t) = c /\ says[t] = a

Heard(c) ==
  /\ answer[c] # "none" => TappedFor(c, answer[c])
  /\ isSet[c] => answer[c] # "none"
  /\ thread[c] \in {"woken", "reading"} => isSet[c]

\* What was made of it: no answer of the handler, and no end of the call, without
\* its tap, but for the denial of the thread that gave up.
Judged(c) ==
  /\ approval[c] = "yes" => TappedFor(c, "yes")
  /\ approval[c] = "no" /\ thread[c] = "left" => TappedFor(c, "no")
  /\ ended[c] = "denied" => approval[c] = "no"

\* Whose request is in the table.
InTable(c) ==
  c \in pending => \/ thread[c] \in {"sending", "waiting", "woken", "timed_out"}
                  \/ approval[c] = "raised"

\* A callback knows its button, and past its write the answer is there.
Tapped(t) ==
  /\ tap[t] = "none" <=> says[t] = "none"
  /\ tap[t] = "answered" => answer[T!On(t)] # "none"

BotInv == /\ BotTypeOK
          /\ IInv
          /\ \A c \in Calls : /\ tool[c] = "DELETE" /\ handler[c] = "telegram"
                             /\ Asking(c) /\ Heard(c) /\ Judged(c) /\ InTable(c)
          /\ \A t \in Taps : Tapped(t)

LEMMA TapsAreOnCalls == ASSUME NEW t \in Taps PROVE T!On(t) \in Calls
  BY TapsAssumption DEF T!On

LEMMA BotInvInit == BotInit => BotInv
  BY InvInit, TapsAreOnCalls, TypeInit
  DEF BotInit, Init, T!InitOwn, BotInv, BotTypeOK, T!TypeOK, T!Reply, T!Thread, T!Say, T!Message,
      T!Text, T!TapState, Asking, Heard, Judged, InTable, Tapped

\* The handler answers a caller that waits, once, and with what a handler may
\* answer: its steps are Executor's Answer, or nothing that Executor sees.
LEMMA HandlerAnswers ==
  ASSUME BotInv, T!Next, InHandler
  PROVE  [Next]_vars
<1> USE DEF InHandler
<1>1. ASSUME NEW c \in Calls, NEW r \in {"yes", "no", "raised"},
             approval[c] = "asked", approval' = [approval EXCEPT ![c] = r]
      PROVE  Next
  <2>1. r \in Answers(handler[c]) /\ r \in Reply
    BY DEF BotInv, Answers, Reply
  <2>2. Answer(c, r)
    BY <1>1, <2>1 DEF Answer
  <2> QED BY <2>1, <2>2 DEF Next
<1>2. ASSUME NEW c \in Calls, T!SendRaises(c) \/ T!PopAndDeny(c) \/ T!ReadAnswer(c) PROVE Next
  <2>1. approval[c] = "asked"
    BY <1>2 DEF BotInv, Asking, T!SendRaises, T!PopAndDeny, T!ReadAnswer, T!ThreadAt
  <2>2. \E r \in {"yes", "no", "raised"} : approval' = [approval EXCEPT ![c] = r]
    BY <1>2 DEF T!SendRaises, T!PopAndDeny, T!ReadAnswer, T!Returns
  <2> QED BY <1>1, <2>1, <2>2
<1>3. ASSUME NEW c \in Calls,
             \/ T!Register(c) \/ T!Sent(c) \/ T!Woken(c) \/ T!Pop(c)
             \/ T!TimesOut(c) \/ T!Deliver(c)
      PROVE  UNCHANGED vars
  BY <1>3 DEF T!Register, T!Sent, T!Woken, T!Pop, T!TimesOut, T!Deliver, T!threadVars, vars
<1>4. ASSUME NEW t \in Taps, T!TapStep(t) \/ (\E a \in {"yes", "no"} : T!Tap(t, a))
      PROVE  UNCHANGED vars
  BY <1>4 DEF T!TapStep, T!Tap, T!Ack, T!LookUp, T!SetAnswer, T!SetEvent, T!Edit, T!threadVars, vars
<1> QED BY <1>2, <1>3, <1>4 DEF T!Next, T!ThreadStep

LEMMA BotStepIsStep == BotInv /\ [BotNext]_botVars => [Next]_vars
<1> SUFFICES ASSUME BotInv, [BotNext]_botVars PROVE [Next]_vars
    OBVIOUS
<1>1. CASE UNCHANGED botVars
  BY <1>1 DEF botVars
<1>2. ASSUME NEW c \in Calls, testdelete_command(c) PROVE UNCHANGED vars
  BY <1>2 DEF testdelete_command
<1>3. ASSUME NEW c \in Calls, Call(c) PROVE Next
  BY <1>3 DEF Call, Next
<1> QED BY <1>1, <1>2, <1>3, HandlerAnswers DEF BotNext

\* The call that moves is at its gate only after an answer, which its step reads.
LEMMA CallKeepsBot ==
  ASSUME BotInv, NEW c \in Calls, Call(c), IInv'
  PROVE  BotInv'
<1>1. UNCHANGED <<chatVars, sent, threads>> /\ Step(c)
  BY DEF Call, poolVars
<1>2. BotTypeOK'
  BY <1>1 DEF BotInv, BotTypeOK, IInv, chatVars, T!TypeOK, TypeOK, T!Reply, Reply
<1>3. ASSUME NEW d \in Calls
      PROVE  /\ \/ approval'[d] = approval[d]
                \/ approval[d] = "none" /\ approval'[d] = "asked"
             /\ tool'[d] = tool[d] /\ handler'[d] = handler[d]
             /\ ended'[d] = "denied" => ended[d] = "denied" \/ approval'[d] = "no"
  BY <1>1 DEF Step, Begin, PassGate, RunTool, Log, Publish, End, Goto, auditVars, BotInv, IInv, TypeOK, Gate
<1>4. ASSUME NEW d \in Calls
      PROVE  /\ tool'[d] = "DELETE" /\ handler'[d] = "telegram"
             /\ Asking(d)' /\ Heard(d)' /\ Judged(d)' /\ InTable(d)'
  <2>1. /\ tool[d] = "DELETE" /\ handler[d] = "telegram"
        /\ Asking(d) /\ Heard(d) /\ Judged(d) /\ InTable(d)
    BY DEF BotInv
  <2>2. answer' = answer /\ isSet' = isSet /\ thread' = thread /\ pending' = pending /\ says' = says
    BY <1>1 DEF chatVars
  <2>3. TappedFor(d, "yes")' = TappedFor(d, "yes") /\ TappedFor(d, "no")' = TappedFor(d, "no")
    BY <2>2 DEF TappedFor
  <2>4. TappedFor(d, answer[d])' = TappedFor(d, answer[d])
    BY <2>2 DEF TappedFor
  <2>5. thread[d] \in T!Thread
    BY DEF BotInv, BotTypeOK, T!TypeOK
  <2>6. Asking(d)' /\ InTable(d)'
    BY <1>3, <2>1, <2>2, <2>5 DEF Asking, InTable, T!Thread
  <2>7. Heard(d)'
    BY <2>1, <2>2, <2>4 DEF Heard
  <2>8. Judged(d)'
    BY <1>3, <2>1, <2>2, <2>3 DEF Judged
  <2> QED BY <1>3, <2>1, <2>6, <2>7, <2>8
<1>5. ASSUME NEW t \in Taps PROVE Tapped(t)'
  BY <1>1 DEF BotInv, chatVars, Tapped
<1> QED BY <1>2, <1>4, <1>5 DEF BotInv

LEMMA HandlerTypes ==
  ASSUME T!TypeOK, T!Next
  PROVE  T!TypeOK'
<1> USE DEF T!TypeOK, T!Reply, T!Thread, T!Say, T!Message, T!Text, T!TapState,
            T!threadVars, T!pendingVars, T!chatVars, T!tapVars
<1>1. ASSUME NEW c \in Calls, T!ThreadStep(c) PROVE T!TypeOK'
  BY <1>1 DEF T!ThreadStep, T!Register, T!Sent, T!SendRaises, T!Woken, T!PopAndDeny, T!Pop,
              T!ReadAnswer, T!ThreadAt, T!Returns
<1>2. ASSUME NEW c \in Calls, T!TimesOut(c) \/ T!Deliver(c) PROVE T!TypeOK'
  BY <1>2 DEF T!TimesOut, T!Deliver, T!ThreadAt
<1>3. ASSUME NEW t \in Taps, T!TapStep(t) PROVE T!TypeOK'
  <2>1. T!Verdict(t) \in {"ask", "approved", "denied", "expired"}
    BY DEF T!Verdict
  <2>2. T!On(t) \in Calls
    BY TapsAreOnCalls
  <2>3. CASE T!Edit(t)
    BY <2>1, <2>2, <2>3 DEF T!Edit
  <2>4. CASE T!Ack(t) \/ T!LookUp(t)
    BY <2>4 DEF T!Ack, T!LookUp, T!TapAt
  <2>5. CASE T!SetAnswer(t)
    BY <2>2, <2>5 DEF T!SetAnswer, T!TapAt
  <2>6. CASE T!SetEvent(t)
    BY <2>2, <2>6 DEF T!SetEvent, T!TapAt
  <2> QED BY <1>3, <2>3, <2>4, <2>5, <2>6 DEF T!TapStep
<1>4. ASSUME NEW t \in Taps, NEW a \in {"yes", "no"}, T!Tap(t, a) PROVE T!TypeOK'
  BY <1>4 DEF T!Tap
<1> QED BY <1>1, <1>2, <1>3, <1>4 DEF T!Next

\* The worker threads: what they read of an answer was tapped.
LEMMA ThreadsKeepBot ==
  ASSUME BotInv, NEW c \in Calls, T!ThreadStep(c) \/ T!TimesOut(c) \/ T!Deliver(c), InHandler,
         NEW d \in Calls
  PROVE  /\ tool'[d] = "DELETE" /\ handler'[d] = "telegram"
         /\ Asking(d)' /\ Heard(d)' /\ Judged(d)' /\ InTable(d)'
<1> USE DEF InHandler, callVars, auditVars, BotInv, BotTypeOK, T!TypeOK, T!threadVars, T!pendingVars,
            T!chatVars, T!tapVars
<1>1. tool'[d] = "DELETE" /\ handler'[d] = "telegram"
  OBVIOUS
<1>2. UNCHANGED <<answer, isSet, tap, says, ended>>
  BY DEF T!ThreadStep, T!Register, T!Sent, T!SendRaises, T!Woken, T!PopAndDeny, T!Pop, T!ReadAnswer,
         T!TimesOut, T!Deliver
<1>3. \A a : TappedFor(d, a)' <=> TappedFor(d, a)
  BY <1>2 DEF TappedFor
<1>4. Asking(d)'
  BY DEF T!ThreadStep, T!Register, T!Sent, T!SendRaises, T!Woken, T!PopAndDeny, T!Pop, T!ReadAnswer,
         T!TimesOut, T!Deliver, T!ThreadAt, T!Returns, Asking
<1>5. Heard(d)'
  BY <1>2, <1>3
  DEF T!ThreadStep, T!Register, T!Sent, T!SendRaises, T!Woken, T!PopAndDeny, T!Pop, T!ReadAnswer,
      T!TimesOut, T!Deliver, T!ThreadAt, Heard
<1>6. Judged(d)'
  <2>1. CASE T!ReadAnswer(c)
    <3>1. answer[c] \in {"yes", "no"} /\ approval[c] = "asked"
      BY <2>1 DEF T!ReadAnswer, T!ThreadAt, Heard, Asking, T!Say
    <3>2. approval'[c] = answer[c] /\ TappedFor(c, answer[c])
      BY <2>1, <3>1 DEF T!ReadAnswer, T!Returns, Heard
    <3> QED BY <2>1, <3>1, <3>2, <1>2, <1>3 DEF Judged, T!ReadAnswer, T!Returns, T!ThreadAt, TappedFor
  <2>2. CASE T!PopAndDeny(c)
    BY <2>2, <1>2, <1>3 DEF Judged, Asking, T!PopAndDeny, T!Returns, T!ThreadAt
  <2>3. CASE T!SendRaises(c)
    BY <2>3, <1>2, <1>3 DEF Judged, Asking, T!SendRaises, T!Returns, T!ThreadAt
  <2>4. CASE T!Register(c) \/ T!Sent(c) \/ T!Woken(c) \/ T!Pop(c) \/ T!TimesOut(c) \/ T!Deliver(c)
    BY <2>4, <1>2, <1>3
    DEF Judged, T!Register, T!Sent, T!Woken, T!Pop, T!TimesOut, T!Deliver, T!ThreadAt
  <2> QED BY <2>1, <2>2, <2>3, <2>4 DEF T!ThreadStep
<1>7. InTable(d)'
  BY DEF T!ThreadStep, T!Register, T!Sent, T!SendRaises, T!Woken, T!PopAndDeny, T!Pop, T!ReadAnswer,
         T!TimesOut, T!Deliver, T!ThreadAt, T!Returns, InTable, Asking
<1> QED BY <1>1, <1>4, <1>5, <1>6, <1>7

\* The callbacks: a tap stays what it was, and the answer written is its button.
LEMMA TapsStay ==
  ASSUME BotInv, NEW t \in Taps, T!TapStep(t) \/ (\E a \in {"yes", "no"} : T!Tap(t, a)), InHandler,
         NEW d \in Calls, NEW b \in {"yes", "no"}, TappedFor(d, b)
  PROVE  TappedFor(d, b)'
<1>1. PICK u \in Taps : T!On(u) = d /\ says[u] = b
  BY DEF TappedFor
<1>2. says'[u] = says[u]
  BY <1>1 DEF BotInv, BotTypeOK, T!TypeOK, Tapped, T!TapStep, T!Tap, T!Ack, T!LookUp, T!SetAnswer,
              T!SetEvent, T!Edit
<1> QED BY <1>1, <1>2 DEF TappedFor

LEMMA CallbacksKeepCall ==
  ASSUME BotInv, NEW t \in Taps, T!TapStep(t) \/ (\E a \in {"yes", "no"} : T!Tap(t, a)), InHandler,
         NEW d \in Calls
  PROVE  /\ tool'[d] = "DELETE" /\ handler'[d] = "telegram"
         /\ Asking(d)' /\ Heard(d)' /\ Judged(d)' /\ InTable(d)'
<1>1. /\ tool[d] = "DELETE" /\ handler[d] = "telegram"
      /\ Asking(d) /\ Heard(d) /\ Judged(d) /\ InTable(d) /\ Tapped(t)
  BY DEF BotInv
<1>2. UNCHANGED <<tool, handler, ended, approval, thread, pending>>
  BY DEF InHandler, callVars, T!TapStep, T!Tap, T!Ack, T!LookUp, T!SetAnswer, T!SetEvent, T!Edit,
         T!threadVars, T!pendingVars
<1>3. Asking(d)' /\ InTable(d)'
  BY <1>1, <1>2 DEF Asking, InTable
<1>4. Judged(d)'
  BY <1>1, <1>2, TapsStay DEF Judged
<1>5. answer[d] \in {"none", "yes", "no"} /\ answer \in [Calls -> T!Say] /\ isSet \in [Calls -> BOOLEAN]
  BY DEF BotInv, BotTypeOK, T!TypeOK, T!Say
<1>6. Heard(d)'
  <2>1. CASE T!SetAnswer(t) /\ T!On(t) = d
    <3>1. says[t] \in {"yes", "no"} /\ says' = says /\ isSet' = isSet
      BY <1>1, <2>1 DEF T!SetAnswer, T!TapAt, Tapped, BotInv, BotTypeOK, T!TypeOK, T!Say
    <3>2. answer'[d] = says[t] /\ TappedFor(d, says[t])'
      BY <1>5, <2>1, <3>1 DEF T!SetAnswer, TappedFor
    <3> QED BY <1>1, <1>2, <3>1, <3>2 DEF Heard
  <2>2. CASE ~(T!SetAnswer(t) /\ T!On(t) = d)
    <3>1. answer'[d] = answer[d]
      BY <1>5, <2>2 DEF T!TapStep, T!Tap, T!Ack, T!LookUp, T!SetAnswer, T!SetEvent, T!Edit, T!pendingVars
    <3>2. isSet'[d] = isSet[d] \/ (isSet'[d] /\ answer[d] # "none")
      BY <1>1, <1>5 DEF T!TapStep, T!Tap, T!Ack, T!LookUp, T!SetAnswer, T!SetEvent, T!Edit, T!pendingVars,
                        T!TapAt, Tapped
    <3> QED BY <1>1, <1>2, <1>5, <3>1, <3>2, TapsStay DEF Heard
  <2> QED BY <2>1, <2>2
<1> QED BY <1>1, <1>2, <1>3, <1>4, <1>6

LEMMA CallbacksKeepTaps ==
  ASSUME BotInv, NEW t \in Taps, T!TapStep(t) \/ (\E a \in {"yes", "no"} : T!Tap(t, a)), InHandler,
         NEW u \in Taps
  PROVE  Tapped(u)'
<1>1. Tapped(t) /\ Tapped(u) /\ T!On(t) \in Calls /\ T!On(u) \in Calls
  BY TapsAreOnCalls DEF BotInv
<1>2. answer \in [Calls -> T!Say] /\ tap \in [Taps -> T!TapState] /\ says \in [Taps -> T!Say]
  BY DEF BotInv, BotTypeOK, T!TypeOK
<1>3. CASE T!SetAnswer(t)
  BY <1>1, <1>2, <1>3 DEF T!SetAnswer, T!TapAt, Tapped
<1>4. CASE T!Ack(t) \/ T!LookUp(t) \/ T!SetEvent(t) \/ T!Edit(t)
  BY <1>1, <1>2, <1>4 DEF T!Ack, T!LookUp, T!SetEvent, T!Edit, T!TapAt, T!pendingVars, Tapped
<1>5. CASE \E a \in {"yes", "no"} : T!Tap(t, a)
  BY <1>1, <1>2, <1>5 DEF T!Tap, T!pendingVars, Tapped
<1> QED BY <1>3, <1>4, <1>5 DEF T!TapStep

LEMMA BotInvStep == BotInv /\ [BotNext]_botVars => BotInv'
<1> SUFFICES ASSUME BotInv, [BotNext]_botVars PROVE BotInv'
    OBVIOUS
<1>1. IInv'
  BY BotStepIsStep, InvStep DEF BotInv
<1>2. ASSUME UNCHANGED <<vars, chatVars>>, sent' \subseteq Calls, threads' = threads PROVE BotInv'
  BY <1>1, <1>2 DEF BotInv, BotTypeOK, vars, callVars, auditVars, chatVars, T!TypeOK, IInv, Asking, Heard,
                    TappedFor, Judged, InTable, Tapped
<1>3. CASE UNCHANGED botVars
  BY <1>2, <1>3 DEF botVars, poolVars, BotInv, BotTypeOK
<1>4. ASSUME NEW c \in Calls, testdelete_command(c) PROVE BotInv'
  BY <1>2, <1>4 DEF testdelete_command, BotInv, BotTypeOK
<1>5. ASSUME NEW c \in Calls, Call(c) PROVE BotInv'
  BY <1>1, <1>5, CallKeepsBot
<1>6. ASSUME T!Next, InHandler PROVE BotInv'
  <2>1. BotTypeOK'
    BY <1>1, <1>6, HandlerTypes DEF BotInv, BotTypeOK, InHandler, poolVars, IInv
  <2>2. ASSUME NEW c \in Calls, T!ThreadStep(c) \/ T!TimesOut(c) \/ T!Deliver(c) PROVE BotInv'
    <3>1. UNCHANGED <<answer, tap, says>>
      BY <2>2 DEF T!ThreadStep, T!Register, T!Sent, T!SendRaises, T!Woken, T!PopAndDeny, T!Pop,
                  T!ReadAnswer, T!TimesOut, T!Deliver, T!pendingVars, T!tapVars
    <3>2. \A t \in Taps : Tapped(t)'
      BY <3>1 DEF BotInv, Tapped
    <3> QED BY <1>1, <1>6, <2>1, <2>2, <3>2, ThreadsKeepBot DEF BotInv
  <2>3. ASSUME NEW t \in Taps, T!TapStep(t) \/ (\E a \in {"yes", "no"} : T!Tap(t, a)) PROVE BotInv'
    BY <1>1, <1>6, <2>1, <2>3, CallbacksKeepCall, CallbacksKeepTaps DEF BotInv
  <2> QED BY <1>6, <2>2, <2>3 DEF T!Next
<1> QED BY <1>3, <1>4, <1>5, <1>6 DEF BotNext

LEMMA BotInvariance == BotSpec => []BotInv
  BY BotInvInit, BotInvStep, PTL DEF BotSpec

\* The calls, the chat, the table and the callbacks keep their types.
THEOREM BotTypeCorrect == BotSpec => []BotTypeOK
  BY BotInvariance, PTL DEF BotInv

\* The handler of the bot is a handler as call_tool expects one: seen from
\* call_tool, the bot with its threads and callbacks is an Executor.
THEOREM BotImplementsExecutor == BotSpec => Spec
<1>1. BotInit => Init
  BY DEF BotInit
<1> QED BY <1>1, BotInvariance, BotStepIsStep, PTL DEF BotSpec, Spec

\* However a late tap, a timeout and the worker thread race, the row, the event
\* and what the command is told agree.
THEOREM BotAudited == BotSpec => []AuditTellsTheTruth
  BY BotImplementsExecutor, AuditIsTrue

\* No tap that comes late changes an answer, nor anything of a command that ended.
THEOREM BotLeavesForGood == BotSpec => AnsweredOnce /\ LeftForGood
  BY BotImplementsExecutor, CallsEndForGood

\* A tool runs only after a YES on the message of its own call, and a denial
\* before the time is up follows a NO on it.
THEOREM AnswersAreTaps == BotSpec => []AnswerIsATapOnIt
<1>1. BotInv => AnswerIsATapOnIt
  <2>1. ASSUME BotInv, NEW c \in Calls, ran[c] PROVE TappedFor(c, "yes")
    BY <2>1 DEF BotInv, IInv, GatedEffect, Judged, Permission
  <2>2. ASSUME BotInv, NEW c \in Calls, ended[c] = "denied", thread[c] = "left" PROVE TappedFor(c, "no")
    BY <2>2 DEF BotInv, Judged
  <2> QED BY <2>1, <2>2 DEF AnswerIsATapOnIt, TappedFor
<1> QED BY <1>1, BotInvariance, PTL

\* request_approval that returned an answer left nothing in the table.
THEOREM NothingPends == BotSpec => []NothingLeftPending
<1>1. BotInv => NothingLeftPending
  BY DEF BotInv, Asking, InTable, NothingLeftPending
<1> QED BY <1>1, BotInvariance, PTL
=============================================================================
