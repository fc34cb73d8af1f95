------------------------------- MODULE BotCalls -------------------------------
(***************************************************************************)
(* Tool calls made from the Telegram bot: testdelete_command runs          *)
(* call_tool("delete_demo", ...) in a worker thread (asyncio.to_thread)    *)
(* with the TelegramApprovalHandler all commands share.  The calls of      *)
(* Executor and the handler of TelegramApproval meet in `approval`: a call *)
(* that reaches the gate sets it to "asked", and the handler's answer      *)
(* takes the place of Executor's Answer.  What is left is an Executor      *)
(* again, with an Answer that several threads work out.                    *)
(*                                                                         *)
(* asyncio.to_thread takes a thread of the loop's default pool, and waits  *)
(* for one when all are taken.  How many there are depends on the machine. *)
(***************************************************************************)
EXTENDS Executor, Naturals, FiniteSets

CONSTANTS Taps,        \* bound: the taps there can be, <<call, number>>
          Unreliable,  \* bound: the taps whose ack or edit may fail
          NoTap,       \* no tap
          PoolSizes    \* the sizes the pool may have

ASSUME TapsAssumption == /\ Taps \subseteq Calls \X Nat
                         /\ Unreliable \subseteq Taps
                         /\ NoTap \notin Taps

ASSUME PoolAssumption == PoolSizes \subseteq Nat \ {0}

VARIABLES thread, pending, answer, isSet, message, text, tap, says, onLoop,
          sent,        \* the commands the bot has received
          threads      \* the size of the pool

T == INSTANCE TelegramApproval

chatVars == <<thread, pending, answer, isSet, message, text, tap, says, onLoop>>
poolVars == <<sent, threads>>
botVars  == <<vars, chatVars, poolVars>>

BotTypeOK == TypeOK /\ T!TypeOK /\ sent \subseteq Calls /\ threads \in PoolSizes

\* delete_demo needs the permission DELETE; the commands pass the bot's handler.
BotInit == /\ Init /\ T!InitOwn
           /\ tool    = [c \in Calls |-> "DELETE"]
           /\ handler = [c \in Calls |-> "telegram"]
           /\ sent = {}
           /\ threads \in PoolSizes

\* /testdelete arrives; its task on the event loop asks the pool for a thread.
testdelete_command(c) ==
  /\ c \notin sent
  /\ sent' = sent \cup {c}
  /\ UNCHANGED <<vars, chatVars, threads>>

\* The calls that hold a thread: until call_tool returns or raises.
InPool == {c \in Calls : pc[c] \notin {"idle", "done"}}

\* A step of a call, and a step of the handler, its callbacks and the chat.
Call(c) == /\ c \in sent
           /\ c \in InPool \/ Cardinality(InPool) < threads
           /\ Step(c)
           /\ UNCHANGED <<chatVars, poolVars>>

InHandler == UNCHANGED <<callVars, auditVars, poolVars>>

BotNext == \/ \E c \in Calls : testdelete_command(c) \/ Call(c)
           \/ T!Next /\ InHandler

Thread(c)    == T!ThreadStep(c) /\ InHandler
TimesOut(c)  == T!TimesOut(c) /\ InHandler
Callback(t)  == T!TapStep(t) /\ InHandler
HumanTaps(t) == \E a \in {"yes", "no"} : T!Tap(t, a) /\ InHandler

BotSpec == BotInit /\ [][BotNext]_botVars

\* Threads are scheduled and the event loop keeps running its tasks; an await
\* on Telegram ends, well or not.  The clock and the human are not in it.
BotFairSpec == /\ BotSpec
               /\ \A c \in Calls : WF_botVars(Call(c)) /\ WF_botVars(Thread(c))
               /\ \A t \in Taps : WF_botVars(Callback(t))

-----------------------------------------------------------------------------
\* Properties

\* A tool runs only after a YES on the message of that very call, and a call is
\* denied before its time is up only after a NO on it: no tap is ever taken for
\* an answer to another request, and no race with the pop invents an answer.
AnswerIsATapOnIt ==
  \A c \in Calls :
    /\ ran[c] => \E t \in Taps : T!On(t) = c /\ says[t] = "yes"
    /\ ended[c] = "denied" /\ thread[c] = "left"
         => \E t \in Taps : T!On(t) = c /\ says[t] = "no"

\* request_approval leaves nothing in the table of pending requests when it
\* returns, also when the tap races with the timeout (it does when it raises).
NothingLeftPending ==
  \A c \in Calls : approval[c] \in {"yes", "no"} => c \notin pending

Answered(c) == approval[c] \in {"yes", "no", "raised"}

\* Nobody has to answer: the timeouts alone end every command, also one that
\* has to wait until a request nobody taps on gives its thread back.
EveryCommandEnds ==
  (\A c \in Calls : WF_botVars(TimesOut(c)))
    => \A c \in Calls : c \in sent ~> pc[c] = "done"

\* No circular wait between the command that waits and the tap that it waits
\* for: a human who taps ends a request without any timeout, even when the
\* handling of an earlier tap fails and another command still waits.
TapsEndIt ==
  (\A t \in Taps : WF_botVars(HumanTaps(t)))
    => \A t \in Taps \ Unreliable : approval[T!On(t)] = "asked" ~> Answered(T!On(t))
=============================================================================
