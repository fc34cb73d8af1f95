------------------------------- MODULE Executor -------------------------------
(***************************************************************************)
(* call_tool() (app/core/executor.py), the one path by which every tool    *)
(* runs: look-up, validation, approval gate, the tool itself, the row in   *)
(* execution_history, the 'tool.executed' event.  Each element of Calls is *)
(* one invocation; invocations run in threads of their own.                *)
(*                                                                         *)
(* request_approval() of the handler is seen through `approval`: the call  *)
(* sets "asked", the handler answers.  What each handler may answer is     *)
(* Answers (app/core/approval.py); TelegramApproval opens the one that     *)
(* involves other threads.                                                 *)
(*                                                                         *)
(* An operator named Bug... is a wrong version of the definition that      *)
(* follows it, to be put in its place to see which property notices.       *)
(***************************************************************************)

CONSTANTS Calls,      \* the invocations of a behaviour
          Handlers    \* the approval handlers callers pass

Handler == {"auto", "default_safe", "cli", "telegram"}

ASSUME HandlersAssumption == Handlers \subseteq Handler

\* What get_tool() finds: nothing, or a tool with a PermissionLevel.
Permission == {"READ", "MODIFY", "DELETE", "ADMIN"}
Tool       == Permission \cup {"unregistered"}

Status    == {"none", "success", "failure"}
Reply     == {"none", "asked", "yes", "no", "raised"}
Ending    == {"none", "returned", "not_found", "invalid", "denied", "tool_raised",
              "handler_raised"}
PC        == {"idle", "approval", "tool", "log", "publish", "done"}

VARIABLES pc,         \* where each invocation is
          tool,       \* what tool_name names
          handler,    \* its approval_handler
          approval,   \* what became of request_approval()
          ran,        \* history: registered.func was called
          ended,      \* the ToolResult or the exception the caller gets
          row,        \* its row in execution_history
          rowLost,    \* history: _log_execution swallowed an exception
          event       \* the status of its 'tool.executed' event

callVars  == <<pc, tool, handler, ran, ended>>
auditVars == <<row, rowLost, event>>
vars      == <<callVars, approval, auditVars>>

TypeOK == /\ pc       \in [Calls -> PC]
          /\ tool     \in [Calls -> Tool]
          /\ handler  \in [Calls -> Handler]
          /\ approval \in [Calls -> Reply]
          /\ ran      \in [Calls -> BOOLEAN]
          /\ ended    \in [Calls -> Ending]
          /\ row      \in [Calls -> Status]
          /\ rowLost  \in [Calls -> BOOLEAN]
          /\ event    \in [Calls -> Status]

Init == /\ pc       = [c \in Calls |-> "idle"]
        /\ tool     \in [Calls -> Tool]
        /\ handler  \in [Calls -> Handlers]
        /\ approval = [c \in Calls |-> "none"]
        /\ ran      = [c \in Calls |-> FALSE]
        /\ ended    = [c \in Calls |-> "none"]
        /\ row      = [c \in Calls |-> "none"]
        /\ rowLost  = [c \in Calls |-> FALSE]
        /\ event    = [c \in Calls |-> "none"]

-----------------------------------------------------------------------------
\* Policies

\* _REQUIRES_APPROVAL (Bug: the level between READ and DELETE is forgotten).
BugRequiresApproval(level) == level \in {"DELETE", "ADMIN"}
RequiresApproval(level)    == level \in {"MODIFY", "DELETE", "ADMIN"}

\* What request_approval() of a handler can do for a level above READ: input()
\* of the CLI raises at end of file, Telegram when the message cannot be sent.
Answers(h) == CASE h = "auto"         -> {"yes"}
                [] h = "default_safe" -> {"raised"}
                [] h = "cli"          -> {"yes", "no", "raised"}
                [] h = "telegram"     -> {"yes", "no", "raised"}

\* The status column, and the status of the event, for an ending
\* (Bug: the words of the jobs table).
BugStatusOf(e) == IF e = "returned" THEN "succeeded" ELSE "failed"
StatusOf(e)    == IF e = "returned" THEN "success" ELSE "failure"

Goto(c, label) == pc' = [pc EXCEPT ![c] = label]
End(c, e)      == ended' = [ended EXCEPT ![c] = e]

-----------------------------------------------------------------------------
\* Look-up and validation end in a failure that is logged and published, or
\* lead to the approval gate.
Begin(c) ==
  /\ pc[c] = "idle"
  /\ \/ /\ tool[c] = "unregistered"
        /\ End(c, "not_found")
        /\ Goto(c, "log")
        /\ UNCHANGED approval
     \/ /\ tool[c] # "unregistered"         \* input_schema refuses the kwargs
        /\ End(c, "invalid")
        /\ Goto(c, "log")
        /\ UNCHANGED approval
     \/ /\ tool[c] # "unregistered"
        /\ RequiresApproval(tool[c])
        /\ approval' = [approval EXCEPT ![c] = "asked"]
        /\ Goto(c, "approval")
        /\ UNCHANGED ended
     \/ /\ tool[c] # "unregistered"
        /\ ~RequiresApproval(tool[c])
        /\ Goto(c, "tool")
        /\ UNCHANGED <<approval, ended>>
  /\ UNCHANGED <<tool, handler, ran, auditVars>>

\* The handler answers, or raises.
Answer(c, r) ==
  /\ approval[c] = "asked"
  /\ r \in Answers(handler[c])
  /\ approval' = [approval EXCEPT ![c] = r]
  /\ UNCHANGED <<callVars, auditVars>>

\* Behind the gate.  An exception of the handler is caught nowhere in
\* call_tool: it reaches the caller past the row and the event.
PassGate(c) ==
  /\ pc[c] = "approval"
  /\ approval[c] \notin {"none", "asked"}
  /\ \/ /\ approval[c] = "yes"
        /\ Goto(c, "tool")
        /\ UNCHANGED ended
     \/ /\ approval[c] = "no"
        /\ End(c, "denied")
        /\ Goto(c, "log")
     \/ /\ approval[c] = "raised"
        /\ End(c, "handler_raised")
        /\ Goto(c, "done")
  /\ UNCHANGED <<tool, handler, approval, ran, auditVars>>

\* registered.func(**validated_kwargs)
RunTool(c) ==
  /\ pc[c] = "tool"
  /\ ran' = [ran EXCEPT ![c] = TRUE]
  /\ \E e \in {"returned", "tool_raised"} : End(c, e)
  /\ Goto(c, "log")
  /\ UNCHANGED <<tool, handler, approval, auditVars>>

\* _log_execution: one INSERT, whose failure is swallowed
\* (Bug: a failed INSERT leaves call_tool before the event).
BugLogFailsTo == "done"
LogFailsTo    == "publish"

Log(c) ==
  /\ pc[c] = "log"
  /\ \/ /\ row' = [row EXCEPT ![c] = StatusOf(ended[c])]
        /\ Goto(c, "publish")
        /\ UNCHANGED rowLost
     \/ /\ rowLost' = [rowLost EXCEPT ![c] = TRUE]
        /\ Goto(c, LogFailsTo)
        /\ UNCHANGED row
  /\ UNCHANGED <<tool, handler, approval, ran, ended, event>>

\* event_bus.publish; then the return or the raise.
Publish(c) ==
  /\ pc[c] = "publish"
  /\ event' = [event EXCEPT ![c] = StatusOf(ended[c])]
  /\ Goto(c, "done")
  /\ UNCHANGED <<tool, handler, approval, ran, ended, row, rowLost>>

Step(c) == Begin(c) \/ PassGate(c) \/ RunTool(c) \/ Log(c) \/ Publish(c)

Next == \E c \in Calls : Step(c) \/ \E r \in Reply : Answer(c, r)

Spec == Init /\ [][Next]_vars

-----------------------------------------------------------------------------
\* Properties

\* A tool above READ is run only behind a True of its handler, whatever the
\* handler, and never by the default one; a refusal leaves no effect.
GatedEffect ==
  \A c \in Calls :
    ran[c] /\ tool[c] \in Permission \ {"READ"}
      => approval[c] = "yes" /\ handler[c] # "default_safe"

\* When call_tool is left, history and event bus tell the same story, and the
\* one the caller was told: the row may be missing after a failed INSERT only,
\* both are missing when the handler raised, and the tool ran or did not run as
\* the status says.
AuditTellsTheTruth ==
  \A c \in Calls :
    pc[c] = "done" /\ ended[c] # "handler_raised" =>
      /\ event[c] = StatusOf(ended[c])
      /\ row[c] = event[c] \/ (row[c] = "none" /\ rowLost[c])
      /\ ran[c] <=> ended[c] \in {"returned", "tool_raised"}

\* What request_approval() returned or raised is not taken back.
AnsweredOnce ==
  [][\A c \in Calls : approval[c] \in {"yes", "no", "raised"}
       => approval'[c] = approval[c]]_vars

\* Once call_tool is left nothing of the call happens any more: its tool is not
\* run late, and neither an answer nor a row nor an event comes after it.
LeftForGood ==
  [][\A c \in Calls : pc[c] = "done" =>
       /\ pc'[c] = "done" /\ ran'[c] = ran[c] /\ ended'[c] = ended[c]
       /\ approval'[c] = approval[c] /\ row'[c] = row[c] /\ event'[c] = event[c]]_vars
=============================================================================
