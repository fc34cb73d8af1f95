------------------------------- MODULE Workflow -------------------------------
(***************************************************************************)
(* Everything that runs several tools in a row: run_workflow of a template *)
(* (app/workflows/templates.py), run_pipeline of a registered pipeline     *)
(* (app/router/pipeline.py), run_dynamic_plan of the steps a language      *)
(* model thought out (app/router/tier4_planner.py).  Each element of Runs  *)
(* is one call of one of them, in a thread of its own; the tables of       *)
(* templates and of pipelines are dictionaries that all threads share.     *)
(*                                                                         *)
(* A tool is named after what get_tool() finds for it (see Executor), and  *)
(* a step has one argument: the placeholder of a parameter, a reference to *)
(* the result of an earlier step, or a value.  How deep in the arguments   *)
(* they stand, and what a value is, is left out.                           *)
(*                                                                         *)
(* An operator named Bug... is a wrong version of the definition that      *)
(* follows it, to be put in its place to see which property notices.       *)
(***************************************************************************)
EXTENDS Naturals, Sequences

CONSTANTS Runs,         \* the calls of a behaviour
          Templates,    \* the names of the workflow templates
          Declared,     \* the names of pipelines declared by hand
          Definitions,  \* the lists of steps templates are defined by
          StepLists,    \* the lists of steps pipelines and plans are made of
          Inputs,       \* what callers pass for the parameter
          Values,       \* the values that are not references
          None          \* no entry, no parameter

Tool == {"READ", "MODIFY", "unregistered"}

Param        == [kind |-> "param"]                           \* {{param}}
Value(v)     == [kind |-> "value", value |-> v]
Ref(k)       == [kind |-> "ref", step |-> k]                 \* $step<k>
Result(r, k) == [kind |-> "result", run |-> r, step |-> k]   \* what step k of r returned

Plain  == [kind : {"value"}, value : Values]
Arg    == Plain \cup [kind : {"ref"}, step : Nat]
Actual == Plain \cup [kind : {"result"}, run : Runs, step : Nat]

StepList == Seq([tool : Tool, arg : Arg])                    \* list[PipelineStep]

ASSUME ListsAssumption == /\ Definitions \subseteq Seq([tool : Tool, arg : Arg \cup {Param}])
                          /\ StepLists \subseteq StepList
                          /\ Inputs \subseteq Arg
                          /\ None \notin StepList \cup Definitions \cup Arg
                          /\ Templates \cap Declared = {}

Names == Templates \cup Declared
PC    == {"idle", "register", "lookup", "step", "plan", "done"}

VARIABLES templates,   \* _TEMPLATES
          pipelines,   \* _PIPELINES
          pc,          \* where each run is; "plan" is the loop of the planner
          target,      \* the template or pipeline it is to run
          given,       \* whether its caller passed an approval handler
          own,         \* the steps it made of its template and its parameter
          steps,       \* the steps it executes
          completed,   \* how many of them returned: the keys of step_results
          ended,       \* whether it returned or raised
          calls,       \* history: its calls of call_tool
          effects,     \* history: which of these called the tool's function
          overlapped   \* history: another run of the template registered its
                       \* steps between the registration and the look-up

tables    == <<templates, pipelines>>
progress  == <<completed, calls, effects>>
constants == <<target, given, own, steps>>
vars == <<tables, pc, constants, progress, ended, overlapped>>

Init == /\ templates = [t \in Templates |-> None]
        /\ pipelines = [n \in Names |-> None]
        /\ pc = [r \in Runs |-> "idle"]
        /\ target = [r \in Runs |-> None]
        /\ given \in [Runs -> BOOLEAN]
        /\ own = [r \in Runs |-> None]
        /\ steps = [r \in Runs |-> None]
        /\ completed = [r \in Runs |-> 0]
        /\ ended = [r \in Runs |-> "no"]
        /\ calls = [r \in Runs |-> <<>>]
        /\ effects = [r \in Runs |-> {}]
        /\ overlapped = [r \in Runs |-> FALSE]

Goto(r, label) == pc' = [pc EXCEPT ![r] = label]
Raise(r)       == Goto(r, "done") /\ ended' = [ended EXCEPT ![r] = "raised"]

-----------------------------------------------------------------------------
\* The tables

register_template(t, d) ==
  /\ templates' = [templates EXCEPT ![t] = d]
  /\ UNCHANGED <<pipelines, pc, constants, progress, ended, overlapped>>

register_pipeline(n, s) ==
  /\ pipelines' = [pipelines EXCEPT ![n] = s]
  /\ UNCHANGED <<templates, pc, constants, progress, ended, overlapped>>

\* f"__workflow__{template_name}" (Bug: one name for all templates).
BugPipelineName(n) == CHOOSE m \in Templates : TRUE
PipelineName(n)    == n

-----------------------------------------------------------------------------
\* run_workflow

\* A required parameter, or one that a placeholder names, was not passed
\* (Bug: what was not passed is taken to be None).
BugMissing(d, input) == FALSE
Missing(d, input) == input = None /\ \E i \in DOMAIN d : d[i].arg = Param

\* _substitute_params; what is put in is not scanned again here, but a value
\* that reads like a reference is one to the loop of run_pipeline.
Substitute(arg, input) == IF arg = Param THEN input ELSE arg
Instantiate(d, input) ==
  [i \in DOMAIN d |-> [tool |-> d[i].tool, arg |-> Substitute(d[i].arg, input)]]

run_workflow(r, t, input) ==
  /\ pc[r] = "idle"
  /\ target' = [target EXCEPT ![r] = t]
  /\ LET d == templates[t] IN
     \/ /\ d = None
        /\ Raise(r)
        /\ UNCHANGED own
     \/ /\ d # None
        /\ Missing(d, input)
        /\ Raise(r)
        /\ UNCHANGED own
     \/ /\ d # None
        /\ ~Missing(d, input)
        /\ own' = [own EXCEPT ![r] = Instantiate(d, input)]
        /\ Goto(r, "register")
        /\ UNCHANGED ended
  /\ UNCHANGED <<tables, given, steps, progress, overlapped>>

\* The pipeline of the run goes into the table all runs share.
RegisterOwn(r) ==
  /\ pc[r] = "register"
  /\ pipelines' = [pipelines EXCEPT ![PipelineName(target[r])] = own[r]]
  /\ overlapped' = [s \in Runs |-> \/ overlapped[s]
                                   \/ s # r /\ pc[s] = "lookup" /\ target[s] = target[r]]
  /\ Goto(r, "lookup")
  /\ UNCHANGED <<templates, constants, progress, ended>>

-----------------------------------------------------------------------------
\* run_pipeline and run_dynamic_plan

run_pipeline(r, n) ==
  /\ pc[r] = "idle"
  /\ target' = [target EXCEPT ![r] = n]
  /\ Goto(r, "lookup")
  /\ UNCHANGED <<tables, given, own, steps, progress, ended, overlapped>>

LookUp(r) ==
  /\ pc[r] = "lookup"
  /\ LET s == pipelines[PipelineName(target[r])] IN
     \/ /\ s = None
        /\ Raise(r)
        /\ UNCHANGED steps
     \/ /\ s # None
        /\ steps' = [steps EXCEPT ![r] = s]
        /\ Goto(r, "step")
        /\ UNCHANGED ended
  /\ UNCHANGED <<tables, target, given, own, progress, overlapped>>

\* Neither model made a plan, or it has no steps.
run_dynamic_plan(r, s) ==
  /\ pc[r] = "idle"
  /\ \/ /\ Raise(r)
        /\ UNCHANGED steps
     \/ /\ s # <<>>
        /\ steps' = [steps EXCEPT ![r] = s]
        /\ Goto(r, "plan")
        /\ UNCHANGED ended
  /\ UNCHANGED <<tables, target, given, own, progress, overlapped>>

\* The step whose turn it is, taken from what the run looked up at its start
\* (Bug: looked up again at every step).
BugCurrent(r) ==
  LET k == completed[r] + 1
  IN  IF pc[r] = "step" /\ k \in DOMAIN pipelines[target[r]] THEN pipelines[target[r]][k]
                                                            ELSE steps[r][k]
Current(r) == steps[r][completed[r] + 1]

InLoop(r) == pc[r] \in {"step", "plan"} /\ completed[r] < Len(steps[r])

\* The planner looks at a step only now: a tool that does not exist, or
\* arguments that are not JSON, after the steps before have had their effects.
PlanRefuses(r) ==
  /\ InLoop(r) /\ pc[r] = "plan"
  /\ Raise(r)
  /\ UNCHANGED <<tables, constants, progress, overlapped>>

Admitted(r) == pc[r] = "plan" => Current(r).tool # "unregistered"

\* resolve_reference: the step must have a result (Bug: not looked at) ...
BugResolvable(r, arg) == TRUE
Resolvable(r, arg)    == arg.kind = "ref" => arg.step < completed[r]

Resolve(r, arg) == IF arg.kind = "ref" THEN Result(r, arg.step) ELSE arg

\* ... and the path must lead somewhere in it.
ResolveFails(r) ==
  /\ InLoop(r) /\ Admitted(r)
  /\ Current(r).arg.kind = "ref"
  /\ Raise(r)
  /\ UNCHANGED <<tables, constants, progress, overlapped>>

\* `approval_handler or DefaultSafeApprovalHandler()`, which raises for every
\* tool above READ (Bug: or AutoApprovalHandler).
BugMayRun(r, tool) == tool # "unregistered"
MayRun(r, tool)    == tool = "READ" \/ (tool = "MODIFY" /\ given[r])

\* call_tool returns, or raises before or after the tool's function was called.
Call(r) ==
  /\ InLoop(r) /\ Admitted(r)
  /\ Resolvable(r, Current(r).arg)
  /\ calls' = [calls EXCEPT ![r] =
       Append(@, [tool |-> Current(r).tool, arg |-> Resolve(r, Current(r).arg)])]
  /\ \/ /\ MayRun(r, Current(r).tool)
        /\ effects' = [effects EXCEPT ![r] = @ \cup {completed[r] + 1}]
        /\ completed' = [completed EXCEPT ![r] = @ + 1]
        /\ UNCHANGED <<pc, ended>>
     \/ /\ MayRun(r, Current(r).tool)
        /\ effects' = [effects EXCEPT ![r] = @ \cup {completed[r] + 1}]
        /\ Raise(r)
        /\ UNCHANGED completed
     \/ /\ Raise(r)
        /\ UNCHANGED <<effects, completed>>
  /\ UNCHANGED <<tables, constants, overlapped>>

Finish(r) ==
  /\ pc[r] \in {"step", "plan"}
  /\ completed[r] = Len(steps[r])
  /\ Goto(r, "done")
  /\ ended' = [ended EXCEPT ![r] = "returned"]
  /\ UNCHANGED <<tables, constants, progress, overlapped>>

-----------------------------------------------------------------------------
Start(r) == \/ \E t \in Templates, input \in Inputs \cup {None} : run_workflow(r, t, input)
            \/ \E n \in Declared : run_pipeline(r, n)
            \/ \E s \in StepLists : run_dynamic_plan(r, s)

Step(r) == \/ RegisterOwn(r) \/ LookUp(r) \/ PlanRefuses(r) \/ ResolveFails(r)
           \/ Call(r) \/ Finish(r)

Next == \/ \E t \in Templates, d \in Definitions : register_template(t, d)
        \/ \E n \in Declared, s \in StepLists : register_pipeline(n, s)
        \/ \E r \in Runs : Start(r) \/ Step(r)

Spec == Init /\ [][Next]_vars

-----------------------------------------------------------------------------
\* Properties

TypeOK == /\ templates \in [Templates -> Definitions \cup {None}]
          /\ pipelines \in [Names -> StepList \cup {None}]
          /\ pc \in [Runs -> PC]
          /\ target \in [Runs -> Names \cup {None}]
          /\ given \in [Runs -> BOOLEAN]
          /\ own \in [Runs -> StepList \cup {None}]
          /\ steps \in [Runs -> StepList \cup {None}]
          /\ completed \in [Runs -> Nat]
          /\ ended \in [Runs -> {"no", "returned", "raised"}]
          /\ calls \in [Runs -> Seq([tool : Tool, arg : Actual])]
          /\ effects \in [Runs -> SUBSET Nat]
          /\ overlapped \in [Runs -> BOOLEAN]

\* A run calls the tools of one list of steps, in its order and without gaps,
\* whatever is registered under its name meanwhile; it stops at the first call
\* that raises, and returns only when all of them returned.
PrefixOfOnePipeline ==
  \A r \in Runs :
    /\ \A i \in DOMAIN calls[r] : i <= Len(steps[r]) /\ calls[r][i].tool = steps[r][i].tool
    /\ Len(calls[r]) \in {completed[r], completed[r] + 1}
    /\ Len(calls[r]) = completed[r] + 1 => ended[r] = "raised"
    /\ ended[r] = "returned" => completed[r] = Len(steps[r])

\* No reference ever reaches a tool: in its place stands what an earlier step
\* of the same run returned (the lesson the resolver's docstring tells of).
ReferencesResolved ==
  \A r \in Runs : \A i \in DOMAIN calls[r] :
    LET a == calls[r][i].arg IN
      \/ a.kind = "value"
      \/ a.kind = "result" /\ a.run = r /\ a.step + 1 < i

\* Without an approval handler no step above READ has an effect, in a workflow
\* that the workflow_run tool starts as in a plan.
NoHandlerNoEffect ==
  \A r \in Runs : \A i \in effects[r] :
    i \in DOMAIN calls[r] /\ (calls[r][i].tool # "READ" => given[r])

\* A run of a template executes its own steps, with its own parameter, unless
\* another run of the same template registered between its two steps.
AloneRunsOwn ==
  \A r \in Runs : own[r] # None /\ steps[r] # None /\ ~overlapped[r] => steps[r] = own[r]

\* "Register a uniquely-named ephemeral pipeline for this run" (templates.py):
\* a run executes its own steps.
EveryRunRunsItsOwn ==
  \A r \in Runs : own[r] # None /\ steps[r] # None => steps[r] = own[r]
=============================================================================
