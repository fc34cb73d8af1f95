--------------------------- MODULE TelegramApproval ---------------------------
(***************************************************************************)
(* TelegramApprovalHandler (app/telegram_bot/approval_handler.py) on the   *)
(* bot of app/telegram_bot/bot.py: the worker thread inside                *)
(* request_approval() of each request, and the callback tasks that the     *)
(* taps on its YES and NO buttons start on the event loop.                 *)
(*                                                                         *)
(* The dictionary is locked, the fields of a _PendingApproval are not: the *)
(* worker thread runs between any two lines of handle_callback.  Two       *)
(* callbacks switch only where the coroutine awaits, so at most one is     *)
(* between its look-up and its edit_message_text (`onLoop`).               *)
(*                                                                         *)
(* A request is named after the tool call that makes it: request_id is     *)
(* fresh per call.  `approval` is the interface with the caller: "asked"   *)
(* when request_approval is entered, then what it returned or raised.      *)
(*                                                                         *)
(* An operator named Bug... is a wrong version of the definition that      *)
(* follows it, to be put in its place to see which property notices.       *)
(***************************************************************************)
EXTENDS Naturals

CONSTANTS Calls,       \* the calls that may ask for approval
          Taps,        \* bound: the taps there can be, <<call, number>>
          Unreliable,  \* bound: the taps whose ack or edit may fail
          NoTap        \* onLoop when no callback is between two awaits

On(t) == t[1]                     \* the request_id in the callback data of a tap

Reply    == {"none", "asked", "yes", "no", "raised"}
Say      == {"none", "yes", "no"}
Thread   == {"idle", "sending", "waiting", "woken", "timed_out", "reading", "left", "gave_up"}
Message  == {"none", "sending", "shown", "lost"}
Text     == {"ask", "approved", "denied", "expired"}
TapState == {"none", "received", "acked", "found", "answered", "edit_verdict",
             "edit_expired", "done"}

VARIABLES approval,   \* what became of request_approval()
          thread,     \* where the worker thread of a request is
          pending,    \* the keys of self._pending
          answer,     \* _PendingApproval.answer
          isSet,      \* _PendingApproval.event
          message,    \* the message with the buttons
          text,       \* what the message says in the chat
          tap,        \* the callback task of each tap
          says,       \* which button it was
          onLoop      \* the callback that runs on the event loop

threadVars  == <<approval, thread>>
pendingVars == <<pending, answer, isSet>>
chatVars    == <<message, text>>
tapVars     == <<tap, says, onLoop>>
ownVars     == <<thread, pendingVars, chatVars, tapVars>>
vars        == <<approval, ownVars>>

TypeOK == /\ approval \in [Calls -> Reply]
          /\ thread   \in [Calls -> Thread]
          /\ pending  \subseteq Calls
          /\ answer   \in [Calls -> Say]
          /\ isSet    \in [Calls -> BOOLEAN]
          /\ message  \in [Calls -> Message]
          /\ text     \in [Calls -> Text]
          /\ tap      \in [Taps -> TapState]
          /\ says     \in [Taps -> Say]
          /\ onLoop   \in Taps \cup {NoTap}

InitOwn == /\ thread  = [c \in Calls |-> "idle"]
           /\ pending = {}
           /\ answer  = [c \in Calls |-> "none"]
           /\ isSet   = [c \in Calls |-> FALSE]
           /\ message = [c \in Calls |-> "none"]
           /\ text    = [c \in Calls |-> "ask"]
           /\ tap     = [t \in Taps |-> "none"]
           /\ says    = [t \in Taps |-> "none"]
           /\ onLoop  = NoTap

-----------------------------------------------------------------------------
\* request_approval, in the worker thread of call c

ThreadAt(c, from, to) == thread[c] = from /\ thread' = [thread EXCEPT ![c] = to]
Returns(c, r) == approval' = [approval EXCEPT ![c] = r]

\* The entry goes into the table before the message is handed to the loop.
Register(c) ==
  /\ approval[c] = "asked"
  /\ ThreadAt(c, "idle", "sending")
  /\ pending' = pending \cup {c}
  /\ message' = [message EXCEPT ![c] = "sending"]
  /\ UNCHANGED <<approval, answer, isSet, text, tapVars>>

\* future.result(timeout=10) returns; the message may have been tapped already.
Sent(c) ==
  /\ message[c] = "shown"
  /\ ThreadAt(c, "sending", "waiting")
  /\ UNCHANGED <<approval, pendingVars, chatVars, tapVars>>

\* It raises: no loop was set, the network failed, or ten seconds went by with
\* the coroutine still on its way.  Nothing removes the entry.
SendRaises(c) ==
  /\ ThreadAt(c, "sending", "left")
  /\ Returns(c, "raised")
  /\ UNCHANGED <<pendingVars, chatVars, tapVars>>

\* pending.event.wait returns True
Woken(c) ==
  /\ isSet[c]
  /\ ThreadAt(c, "waiting", "woken")
  /\ UNCHANGED <<approval, pendingVars, chatVars, tapVars>>

\* pending.event.wait returns False (Bug: no timeout is given).
BugTimesOut(c) == FALSE /\ UNCHANGED vars

TimesOut(c) ==
  /\ ~isSet[c]
  /\ ThreadAt(c, "waiting", "timed_out")
  /\ UNCHANGED <<approval, pendingVars, chatVars, tapVars>>

\* After a timeout: pop, then return False (Bug: return before the pop).
BugPopAndDeny(c) ==
  /\ ThreadAt(c, "timed_out", "gave_up")
  /\ Returns(c, "no")
  /\ UNCHANGED <<pendingVars, chatVars, tapVars>>

PopAndDeny(c) ==
  /\ ThreadAt(c, "timed_out", "gave_up")
  /\ pending' = pending \ {c}
  /\ Returns(c, "no")
  /\ UNCHANGED <<answer, isSet, chatVars, tapVars>>

\* After a tap: pop, then read pending.answer outside the lock.
Pop(c) ==
  /\ ThreadAt(c, "woken", "reading")
  /\ pending' = pending \ {c}
  /\ UNCHANGED <<approval, answer, isSet, chatVars, tapVars>>

ReadAnswer(c) ==
  /\ ThreadAt(c, "reading", "left")
  /\ Returns(c, IF answer[c] = "yes" THEN "yes" ELSE "no")
  /\ UNCHANGED <<pendingVars, chatVars, tapVars>>

-----------------------------------------------------------------------------
\* Telegram and the human

\* The send completes on the loop, in time for the worker thread or not.
Deliver(c) ==
  /\ message[c] = "sending"
  /\ \E m \in {"shown", "lost"} : message' = [message EXCEPT ![c] = m]
  /\ UNCHANGED <<threadVars, pendingVars, text, tapVars>>

\* A tap on a button; an edited message has no buttons any more.
Tap(t, a) ==
  /\ tap[t] = "none"
  /\ message[On(t)] = "shown"
  /\ text[On(t)] = "ask"
  /\ tap'  = [tap EXCEPT ![t] = "received"]
  /\ says' = [says EXCEPT ![t] = a]
  /\ UNCHANGED <<threadVars, pendingVars, chatVars, onLoop>>

-----------------------------------------------------------------------------
\* handle_callback, one task per tap on the event loop

TapAt(t, from, to) == tap[t] = from /\ tap' = [tap EXCEPT ![t] = to]

\* concurrent_updates(True): a callback is started whatever else is going on
\* (Bug: updates one after the other, and the command that asked is not over).
BugMayStart == \A c \in Calls : thread[c] \in {"idle", "left", "gave_up"}
MayStart    == TRUE

\* await query.answer(), which ends the task if it raises
Ack(t) ==
  /\ MayStart
  /\ \/ TapAt(t, "received", "acked")
     \/ TapAt(t, "received", "done") /\ t \in Unreliable
  /\ UNCHANGED <<threadVars, pendingVars, chatVars, says, onLoop>>

\* The look-up under the lock.
LookUp(t) ==
  /\ onLoop = NoTap
  /\ \/ /\ On(t) \in pending
        /\ TapAt(t, "acked", "found")
        /\ onLoop' = t
     \/ /\ On(t) \notin pending
        /\ TapAt(t, "acked", "edit_expired")
        /\ UNCHANGED onLoop
  /\ UNCHANGED <<threadVars, pendingVars, chatVars, says>>

\* pending.answer = ..., whether or not it was answered or timed out meanwhile
\* (Bug: `pending` is a field of the handler that all requests share).
BugSetAnswer(t) ==
  /\ TapAt(t, "found", "answered")
  /\ \E c \in Calls : answer' = [answer EXCEPT ![c] = says[t]]
  /\ UNCHANGED <<threadVars, pending, isSet, chatVars, says, onLoop>>

SetAnswer(t) ==
  /\ TapAt(t, "found", "answered")
  /\ answer' = [answer EXCEPT ![On(t)] = says[t]]
  /\ UNCHANGED <<threadVars, pending, isSet, chatVars, says, onLoop>>

\* pending.event.set(); the text is chosen before the next await.
SetEvent(t) ==
  /\ TapAt(t, "answered", "edit_verdict")
  /\ isSet' = [isSet EXCEPT ![On(t)] = TRUE]
  /\ onLoop' = NoTap
  /\ UNCHANGED <<threadVars, pending, answer, chatVars, says>>

\* await query.edit_message_text(...), which may fail
\* (Bug: the data of the button is shown).
BugVerdict(t) == says[t]

Verdict(t) == CASE tap[t] = "edit_expired" -> "expired"
                [] says[t] = "yes"         -> "approved"
                [] OTHER                   -> "denied"

Edit(t) ==
  /\ tap[t] \in {"edit_verdict", "edit_expired"}
  /\ tap' = [tap EXCEPT ![t] = "done"]
  /\ \/ text' = [text EXCEPT ![On(t)] = Verdict(t)]
     \/ t \in Unreliable /\ UNCHANGED text
  /\ UNCHANGED <<threadVars, pendingVars, message, says, onLoop>>

-----------------------------------------------------------------------------
\* What the thread and the loop do without anybody's help: TimesOut is the
\* clock's, Tap the human's.
ThreadStep(c) == \/ Register(c) \/ Sent(c) \/ SendRaises(c) \/ Woken(c)
                 \/ PopAndDeny(c) \/ Pop(c) \/ ReadAnswer(c)

TapStep(t) == Ack(t) \/ LookUp(t) \/ SetAnswer(t) \/ SetEvent(t) \/ Edit(t)

Next == \/ \E c \in Calls : ThreadStep(c) \/ TimesOut(c) \/ Deliver(c)
        \/ \E t \in Taps : TapStep(t) \/ \E a \in {"yes", "no"} : Tap(t, a)
=============================================================================
