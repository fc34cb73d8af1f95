---------------------------- MODULE WorkflowProofs ----------------------------
(***************************************************************************)
(* Proofs about Workflow for any runs, tables, lists of steps and          *)
(* parameters.                                                             *)
(***************************************************************************)
EXTENDS Workflow, SequenceTheorems, TLAPS

-----------------------------------------------------------------------------
\* The inductive invariant of a run r.

\* What is known before its loop: nothing was called, and the entry it wrote
\* is its own until another run of its template overwrites it.
BeforeLoop(r) ==
  /\ pc[r] \in {"idle", "register", "lookup"} =>
       /\ steps[r] = None /\ ended[r] = "no"
       /\ completed[r] = 0 /\ calls[r] = <<>> /\ effects[r] = {}
  /\ pc[r] = "idle" => own[r] = None
  /\ pc[r] = "register" => own[r] # None
  /\ own[r] # None => target[r] \in Templates
  /\ pc[r] = "lookup" => target[r] \in Names
  /\ pc[r] = "lookup" /\ own[r] # None /\ ~overlapped[r] => pipelines[target[r]] = own[r]

\* In its loop every call so far returned; one more may have raised at the end.
Calls(r) ==
  /\ pc[r] \in {"step", "plan"} =>
       /\ steps[r] # None /\ ended[r] = "no"
       /\ Len(calls[r]) = completed[r]
  /\ calls[r] # <<>> => steps[r] # None /\ Len(calls[r]) <= Len(steps[r])

IInv == /\ TypeOK
        /\ \A r \in Runs : BeforeLoop(r) /\ Calls(r)
        /\ PrefixOfOnePipeline
        /\ ReferencesResolved
        /\ NoHandlerNoEffect
        /\ AloneRunsOwn

-----------------------------------------------------------------------------
\* What a parameter is put into is again a list of steps.
LEMMA InstantiateType ==
  ASSUME NEW d \in Definitions, NEW input \in Inputs \cup {None}, ~Missing(d, input)
  PROVE  Instantiate(d, input) \in StepList
<1>1. d \in Seq([tool : Tool, arg : Arg \cup {Param}])
  BY ListsAssumption
<1>2. DOMAIN d = 1 .. Len(d) /\ Len(d) \in Nat
  BY <1>1
<1>3. ASSUME NEW i \in DOMAIN d
      PROVE  [tool |-> d[i].tool, arg |-> Substitute(d[i].arg, input)] \in [tool : Tool, arg : Arg]
  <2>1. d[i] \in [tool : Tool, arg : Arg \cup {Param}]
    BY <1>1, <1>2, ElementOfSeq
  <2>2. d[i].tool \in Tool /\ d[i].arg \in Arg \cup {Param}
    BY <2>1
  <2>3. d[i].arg = Param => input \in Arg
    BY ListsAssumption DEF Missing
  <2> QED BY <2>2, <2>3 DEF Substitute
<1> QED BY <1>2, <1>3 DEF Instantiate, StepList

\* In the loop of a run there is a step to do, and its argument is resolved to
\* something a tool can be given.
LEMMA CurrentType ==
  ASSUME TypeOK, NEW r \in Runs, Calls(r), InLoop(r)
  PROVE  /\ steps[r] \in StepList
         /\ completed[r] + 1 \in 1 .. Len(steps[r])
         /\ Current(r) = steps[r][completed[r] + 1]
         /\ Current(r).tool \in Tool
         /\ Current(r).arg \in Arg
<1>1. steps[r] \in StepList
  BY DEF TypeOK, Calls, InLoop
<1>2. completed[r] + 1 \in 1 .. Len(steps[r])
  BY <1>1 DEF TypeOK, InLoop, StepList
<1>3. Current(r) \in [tool : Tool, arg : Arg]
  BY <1>1, <1>2, ElementOfSeq DEF Current, StepList
<1> QED BY <1>1, <1>2, <1>3 DEF Current

LEMMA ResolveType ==
  ASSUME NEW r \in Runs, NEW arg \in Arg
  PROVE  Resolve(r, arg) \in Actual
  BY DEF Resolve, Result, Arg, Plain, Actual

LEMMA TypeInit == Init => TypeOK
  BY ListsAssumption DEF Init, TypeOK, PC, Names, StepList

LEMMA TypeStep == IInv /\ [Next]_vars => TypeOK'
<1> SUFFICES ASSUME IInv, [Next]_vars PROVE TypeOK'
    OBVIOUS
<1>0. TypeOK BY DEF IInv
<1> USE <1>0 DEF TypeOK, PC, Names, Goto, Raise, tables, constants, progress
<1>1. CASE UNCHANGED vars
  BY <1>1 DEF vars
<1>2. ASSUME NEW t \in Templates, NEW d \in Definitions, register_template(t, d) PROVE TypeOK'
  BY <1>2 DEF register_template
<1>3. ASSUME NEW n \in Declared, NEW s \in StepLists, register_pipeline(n, s) PROVE TypeOK'
  BY <1>3, ListsAssumption DEF register_pipeline
<1>4. ASSUME NEW r \in Runs, NEW t \in Templates, NEW input \in Inputs \cup {None},
             run_workflow(r, t, input)
      PROVE  TypeOK'
  <2>1. CASE Raise(r) /\ UNCHANGED own
    BY <1>4, <2>1 DEF run_workflow
  <2>2. CASE /\ templates[t] # None /\ ~Missing(templates[t], input)
             /\ own' = [own EXCEPT ![r] = Instantiate(templates[t], input)]
             /\ Goto(r, "register") /\ UNCHANGED ended
    <3>1. Instantiate(templates[t], input) \in StepList
      BY <2>2, InstantiateType
    <3> QED BY <1>4, <2>2, <3>1 DEF run_workflow
  <2> QED BY <1>4, <2>1, <2>2 DEF run_workflow
<1>5. ASSUME NEW r \in Runs, NEW n \in Declared, run_pipeline(r, n) PROVE TypeOK'
  BY <1>5 DEF run_pipeline
<1>6. ASSUME NEW r \in Runs, NEW s \in StepLists, run_dynamic_plan(r, s) PROVE TypeOK'
  <2>1. s \in StepList
    BY ListsAssumption
  <2>2. CASE Raise(r) /\ UNCHANGED steps
    BY <1>6, <2>2 DEF run_dynamic_plan
  <2>3. CASE steps' = [steps EXCEPT ![r] = s] /\ Goto(r, "plan") /\ UNCHANGED ended
    BY <1>6, <2>1, <2>3 DEF run_dynamic_plan
  <2> QED BY <1>6, <2>2, <2>3 DEF run_dynamic_plan
<1>7. ASSUME NEW r \in Runs, RegisterOwn(r) PROVE TypeOK'
  BY <1>7 DEF RegisterOwn, PipelineName
<1>8. ASSUME NEW r \in Runs, LookUp(r) PROVE TypeOK'
  <2>0. target[r] \in Names
    BY <1>8 DEF LookUp, IInv, BeforeLoop
  <2>1. CASE Raise(r) /\ UNCHANGED steps
    BY <1>8, <2>1 DEF LookUp
  <2>2. CASE /\ pipelines[target[r]] # None
             /\ steps' = [steps EXCEPT ![r] = pipelines[target[r]]]
             /\ Goto(r, "step") /\ UNCHANGED ended
    BY <1>8, <2>0, <2>2 DEF LookUp
  <2> QED BY <1>8, <2>1, <2>2 DEF LookUp, PipelineName
<1>9. ASSUME NEW r \in Runs, PlanRefuses(r) \/ ResolveFails(r) \/ Finish(r) PROVE TypeOK'
  BY <1>9 DEF PlanRefuses, ResolveFails, Finish
<1>10. ASSUME NEW r \in Runs, Call(r) PROVE TypeOK'
  <2>1. [tool |-> Current(r).tool, arg |-> Resolve(r, Current(r).arg)] \in [tool : Tool, arg : Actual]
    BY <1>10, CurrentType, ResolveType DEF Call, IInv
  <2>2. calls' \in [Runs -> Seq([tool : Tool, arg : Actual])]
    BY <1>10, <2>1, AppendProperties DEF Call
  <2>3. \/ completed' = completed
        \/ completed' = [completed EXCEPT ![r] = completed[r] + 1]
    BY <1>10 DEF Call
  <2>4. completed' \in [Runs -> Nat]
    BY <2>3
  <2>6. \/ effects' = effects
        \/ effects' = [effects EXCEPT ![r] = effects[r] \cup {completed[r] + 1}]
    BY <1>10 DEF Call
  <2>7. effects[r] \cup {completed[r] + 1} \in SUBSET Nat
    OBVIOUS
  <2>8. effects' \in [Runs -> SUBSET Nat]
    BY <2>6, <2>7
  <2>5. pc' \in [Runs -> PC] /\ ended' \in [Runs -> {"no", "returned", "raised"}]
    BY <1>10 DEF Call
  <2> QED BY <1>10, <2>2, <2>4, <2>5, <2>8 DEF Call
<1> QED BY <1>1, <1>2, <1>3, <1>4, <1>5, <1>6, <1>7, <1>8, <1>9, <1>10 DEF Next, Start, Step

-----------------------------------------------------------------------------
LEMMA InvInit == Init => IInv
  BY TypeInit DEF Init, IInv, BeforeLoop, Calls, PrefixOfOnePipeline, ReferencesResolved,
                  NoHandlerNoEffect, AloneRunsOwn

\* The parts of the invariant that speak of one run.
Safe(r) ==
  /\ BeforeLoop(r) /\ Calls(r)
  /\ /\ \A i \in DOMAIN calls[r] : i <= Len(steps[r]) /\ calls[r][i].tool = steps[r][i].tool
     /\ Len(calls[r]) \in {completed[r], completed[r] + 1}
     /\ Len(calls[r]) = completed[r] + 1 => ended[r] = "raised"
     /\ ended[r] = "returned" => completed[r] = Len(steps[r])
  /\ \A i \in DOMAIN calls[r] :
       \/ calls[r][i].arg.kind = "value"
       \/ /\ calls[r][i].arg.kind = "result" /\ calls[r][i].arg.run = r
          /\ calls[r][i].arg.step + 1 < i
  /\ \A i \in effects[r] : i \in DOMAIN calls[r] /\ (calls[r][i].tool # "READ" => given[r])
  /\ own[r] # None /\ steps[r] # None /\ ~overlapped[r] => steps[r] = own[r]

LEMMA InvIsSafe == IInv <=> TypeOK /\ \A r \in Runs : Safe(r)
  BY DEF IInv, Safe, PrefixOfOnePipeline, ReferencesResolved, NoHandlerNoEffect, AloneRunsOwn

\* A run is safe as long as nothing of it changes but the two tables, and the
\* entry it registered only under its eyes.
LEMMA OthersKeep ==
  ASSUME NEW r \in Runs, Safe(r),
         pc'[r] = pc[r], target'[r] = target[r], given'[r] = given[r], own'[r] = own[r],
         steps'[r] = steps[r], completed'[r] = completed[r], ended'[r] = ended[r],
         calls'[r] = calls[r], effects'[r] = effects[r],
         overlapped[r] => overlapped'[r],
         pc[r] = "lookup" /\ own[r] # None /\ ~overlapped'[r]
           => pipelines'[target[r]] = pipelines[target[r]]
  PROVE  Safe(r)'
  BY DEF Safe, BeforeLoop, Calls

\* The run that makes a call stays safe: the step is the next of its list, its
\* reference leads back, and an effect needs leave.
LEMMA CallKeeps ==
  ASSUME TypeOK, NEW r \in Runs, Safe(r), Call(r)
  PROVE  Safe(r)'
<1> DEFINE c == [tool |-> Current(r).tool, arg |-> Resolve(r, Current(r).arg)]
           k == completed[r] + 1
<1>1. /\ steps[r] \in StepList /\ k \in 1 .. Len(steps[r]) /\ Current(r) = steps[r][k]
      /\ Current(r).tool \in Tool /\ Current(r).arg \in Arg
  BY CurrentType DEF Call, Safe
<1>2. /\ pc[r] \in {"step", "plan"} /\ steps[r] # None /\ ended[r] = "no"
      /\ Len(calls[r]) = completed[r] /\ completed[r] \in Nat
  BY DEF Call, InLoop, Safe, Calls, TypeOK
<1>3. /\ calls[r] \in Seq([tool : Tool, arg : Actual]) /\ c \in [tool : Tool, arg : Actual]
      /\ calls'[r] = Append(calls[r], c)
  BY <1>1, ResolveType DEF Call, TypeOK
<1>4. /\ Len(calls'[r]) = k /\ DOMAIN calls'[r] = 1 .. k /\ DOMAIN calls[r] = 1 .. completed[r]
      /\ calls'[r][k] = c
      /\ \A i \in 1 .. completed[r] : calls'[r][i] = calls[r][i]
  BY <1>2, <1>3, AppendProperties
<1>last. ASSUME NEW i \in DOMAIN calls'[r]
         PROVE  i \in 1 .. completed[r] \/ i = k
  BY <1>2, <1>4
<1>5. \/ c.arg.kind = "value"
      \/ c.arg.kind = "result" /\ c.arg.run = r /\ c.arg.step + 1 < k
  BY <1>1, <1>2 DEF Call, Resolvable, Resolve, Result, Arg, Plain
<1>6. /\ steps' = steps /\ own' = own /\ target' = target /\ given' = given
      /\ pipelines' = pipelines /\ overlapped' = overlapped
  BY DEF Call, tables, constants
<1>7. \/ /\ MayRun(r, c.tool) /\ effects'[r] = effects[r] \cup {k}
         /\ completed'[r] = k /\ pc'[r] = pc[r] /\ ended'[r] = ended[r]
      \/ /\ MayRun(r, c.tool) /\ effects'[r] = effects[r] \cup {k}
         /\ completed'[r] = completed[r] /\ pc'[r] = "done" /\ ended'[r] = "raised"
      \/ /\ effects'[r] = effects[r] /\ completed'[r] = completed[r]
         /\ pc'[r] = "done" /\ ended'[r] = "raised"
  BY DEF Call, Raise, Goto, TypeOK
<1>8. \A i \in effects'[r] : i \in DOMAIN calls'[r] /\ (calls'[r][i].tool # "READ" => given'[r])
  <2>1. ASSUME NEW i \in effects[r]
        PROVE  i \in DOMAIN calls'[r] /\ (calls'[r][i].tool # "READ" => given'[r])
    <3>1. i \in 1 .. completed[r] /\ (calls[r][i].tool # "READ" => given[r])
      BY <1>4 DEF Safe
    <3> QED BY <3>1, <1>2, <1>4, <1>6
  <2>2. MayRun(r, c.tool) => k \in DOMAIN calls'[r] /\ (calls'[r][k].tool # "READ" => given'[r])
    BY <1>2, <1>4, <1>6 DEF MayRun
  <2>3. effects'[r] = effects[r] \/ (MayRun(r, c.tool) /\ effects'[r] = effects[r] \cup {k})
    BY <1>7
  <2> QED BY <2>1, <2>2, <2>3
<1>9. \A i \in DOMAIN calls'[r] : i <= Len(steps'[r]) /\ calls'[r][i].tool = steps'[r][i].tool
  <2>1. ASSUME NEW i \in 1 .. completed[r]
        PROVE  i <= Len(steps[r]) /\ calls'[r][i].tool = steps[r][i].tool
    BY <1>4 DEF Safe
  <2>2. k <= Len(steps[r]) /\ calls'[r][k].tool = steps[r][k].tool
    BY <1>1, <1>4, SMT DEF StepList
  <2> HIDE DEF c, k
  <2> QED BY <2>1, <2>2, <1>last, <1>6
<1>10. \A i \in DOMAIN calls'[r] :
         \/ calls'[r][i].arg.kind = "value"
         \/ /\ calls'[r][i].arg.kind = "result" /\ calls'[r][i].arg.run = r
            /\ calls'[r][i].arg.step + 1 < i
  <2>1. ASSUME NEW i \in 1 .. completed[r]
        PROVE  \/ calls'[r][i].arg.kind = "value"
               \/ /\ calls'[r][i].arg.kind = "result" /\ calls'[r][i].arg.run = r
                  /\ calls'[r][i].arg.step + 1 < i
    BY <1>4 DEF Safe
  <2>2. \/ calls'[r][k].arg.kind = "value"
        \/ /\ calls'[r][k].arg.kind = "result" /\ calls'[r][k].arg.run = r
           /\ calls'[r][k].arg.step + 1 < k
    BY <1>4, <1>5
  <2> HIDE DEF c, k
  <2> QED BY <2>1, <2>2, <1>last
<1>11. BeforeLoop(r)'
  BY <1>2, <1>6, <1>7 DEF Safe, BeforeLoop
<1>12. Calls(r)'
  BY <1>1, <1>2, <1>4, <1>6, <1>7 DEF Calls
<1>13. /\ Len(calls'[r]) \in {completed'[r], completed'[r] + 1}
       /\ Len(calls'[r]) = completed'[r] + 1 => ended'[r] = "raised"
       /\ ended'[r] = "returned" => completed'[r] = Len(steps'[r])
  BY <1>2, <1>4, <1>7
<1> QED BY <1>6, <1>8, <1>9, <1>10, <1>11, <1>12, <1>13 DEF Safe

LEMMA InvStep == IInv /\ [Next]_vars => IInv'
<1> SUFFICES ASSUME IInv, [Next]_vars PROVE \A q \in Runs : Safe(q)'
    BY TypeStep, InvIsSafe DEF IInv, Safe, PrefixOfOnePipeline, ReferencesResolved,
                               NoHandlerNoEffect, AloneRunsOwn
<1>0. TypeOK /\ TypeOK' /\ \A q \in Runs : Safe(q)
  BY TypeStep, InvIsSafe
<1> USE DEF tables, constants, progress, Goto, Raise
<1>1. CASE UNCHANGED vars
  BY <1>0, <1>1, OthersKeep DEF vars
<1>2. ASSUME NEW t \in Templates, NEW d \in Definitions, register_template(t, d)
      PROVE  \A q \in Runs : Safe(q)'
  BY <1>0, <1>2, OthersKeep DEF register_template
<1>3. ASSUME NEW n \in Declared, NEW s \in StepLists, register_pipeline(n, s)
      PROVE  \A q \in Runs : Safe(q)'
  <2>1. ASSUME NEW q \in Runs, own[q] # None PROVE pipelines'[target[q]] = pipelines[target[q]]
    <3>1. target[q] \in Templates /\ target[q] # n
      BY <1>0, <2>1, ListsAssumption DEF Safe, BeforeLoop
    <3> QED BY <1>0, <1>3, <3>1 DEF register_pipeline, TypeOK, Names
  <2> QED BY <1>0, <1>3, <2>1, OthersKeep DEF register_pipeline
<1>7. ASSUME NEW r \in Runs, RegisterOwn(r) PROVE \A q \in Runs : Safe(q)'
  <2>1. Safe(r)'
    BY <1>0, <1>7 DEF RegisterOwn, PipelineName, Safe, BeforeLoop, Calls, TypeOK, Names, PC
  <2>2. ASSUME NEW q \in Runs, q # r PROVE Safe(q)'
    <3>1. pc[q] = "lookup" /\ own[q] # None /\ ~overlapped'[q] => target[q] # target[r]
      BY <1>0, <1>7, <2>2 DEF RegisterOwn
    <3>2. pc[q] = "lookup" /\ own[q] # None /\ ~overlapped'[q]
            => pipelines'[target[q]] = pipelines[target[q]]
      BY <1>0, <1>7, <3>1 DEF RegisterOwn, PipelineName, TypeOK, Names, Safe, BeforeLoop
    <3>3. overlapped[q] => overlapped'[q]
      BY <1>7 DEF RegisterOwn
    <3>4. pc'[q] = pc[q]
      BY <1>0, <1>7, <2>2 DEF RegisterOwn, TypeOK
    <3> QED BY <1>0, <1>7, <3>2, <3>3, <3>4, OthersKeep DEF RegisterOwn
  <2> QED BY <2>1, <2>2
<1>11. ASSUME NEW r \in Runs, Start(r) \/ (Step(r) /\ ~RegisterOwn(r))
       PROVE  \A q \in Runs : Safe(q)'
  <2>1. Safe(r)'
    <3>1. CASE \E t \in Templates, input \in Inputs \cup {None} : run_workflow(r, t, input)
      <4>1. PICK t \in Templates, input \in Inputs \cup {None} : run_workflow(r, t, input)
        BY <3>1
      <4>2. CASE Raise(r) /\ UNCHANGED own
        BY <1>0, <4>1, <4>2 DEF run_workflow, Safe, BeforeLoop, Calls, TypeOK, Names, PC
      <4>3. CASE /\ templates[t] # None /\ ~Missing(templates[t], input)
                 /\ own' = [own EXCEPT ![r] = Instantiate(templates[t], input)]
                 /\ Goto(r, "register") /\ UNCHANGED ended
        <5>1. Instantiate(templates[t], input) # None
          BY <1>0, <4>3, InstantiateType, ListsAssumption DEF TypeOK
        <5>2. /\ pc[r] = "idle" /\ pc'[r] = "register"
              /\ own'[r] # None /\ target'[r] = t
              /\ UNCHANGED <<tables, given, steps, progress, ended, overlapped>>
          BY <1>0, <4>1, <4>3, <5>1 DEF run_workflow, TypeOK
        <5> QED BY <1>0, <5>2 DEF Safe, BeforeLoop, Calls
      <4>4. \/ Raise(r) /\ UNCHANGED own
            \/ /\ templates[t] # None /\ ~Missing(templates[t], input)
               /\ own' = [own EXCEPT ![r] = Instantiate(templates[t], input)]
               /\ Goto(r, "register") /\ UNCHANGED ended
        BY <4>1 DEF run_workflow
      <4> QED BY <4>2, <4>3, <4>4
    <3>2. CASE \E n \in Declared : run_pipeline(r, n)
      BY <1>0, <3>2 DEF run_pipeline, Safe, BeforeLoop, Calls, TypeOK, Names, PC
    <3>3. CASE \E s \in StepLists : run_dynamic_plan(r, s)
      <4>1. PICK s \in StepLists : run_dynamic_plan(r, s)
        BY <3>3
      <4>2. s \in StepList /\ s # None
        BY ListsAssumption
      <4> QED BY <1>0, <4>1, <4>2 DEF run_dynamic_plan, Safe, BeforeLoop, Calls, TypeOK, PC
    <3>4. CASE LookUp(r)
      BY <1>0, <3>4 DEF LookUp, PipelineName, Safe, BeforeLoop, Calls, TypeOK, PC
    <3>5. CASE PlanRefuses(r) \/ ResolveFails(r)
      BY <1>0, <3>5 DEF PlanRefuses, ResolveFails, InLoop, Safe, BeforeLoop, Calls, TypeOK, PC
    <3>6. CASE Call(r)
      BY <1>0, <3>6, CallKeeps
    <3>7. CASE Finish(r)
      BY <1>0, <3>7 DEF Finish, Safe, BeforeLoop, Calls, TypeOK, PC
    <3> QED BY <1>11, <3>1, <3>2, <3>3, <3>4, <3>5, <3>6, <3>7 DEF Start, Step
  <2>2. ASSUME NEW q \in Runs, q # r PROVE Safe(q)'
    <3>1. pipelines' = pipelines /\ overlapped' = overlapped /\ given' = given
      BY <1>11 DEF Start, Step, run_workflow, run_pipeline, run_dynamic_plan, LookUp, PlanRefuses,
                   ResolveFails, Call, Finish
    <3>2. /\ pc'[q] = pc[q] /\ target'[q] = target[q] /\ own'[q] = own[q] /\ steps'[q] = steps[q]
          /\ ended'[q] = ended[q] /\ completed'[q] = completed[q] /\ calls'[q] = calls[q]
          /\ effects'[q] = effects[q]
      BY <1>0, <1>11, <2>2 DEF Start, Step, run_workflow, run_pipeline, run_dynamic_plan, LookUp,
                   PlanRefuses, ResolveFails, Call, Finish, TypeOK
    <3> QED BY <1>0, <3>1, <3>2, OthersKeep
  <2> QED BY <2>1, <2>2
<1> QED BY <1>1, <1>2, <1>3, <1>7, <1>11 DEF Next, Start, Step

LEMMA Invariance == Spec => []IInv
  BY InvInit, InvStep, PTL DEF Spec

-----------------------------------------------------------------------------
\* The two tables, the runs and their histories keep their types
\* (templates.py, pipeline.py, tier4_planner.py).
THEOREM TypeCorrect == Spec => []TypeOK
BY Invariance, PTL DEF IInv

\* The loops of run_pipeline and of run_dynamic_plan call the tools of one list
\* of steps, in order and without gaps, and stop at the first that raises.
THEOREM PrefixesOnly == Spec => []PrefixOfOnePipeline
BY Invariance, PTL DEF IInv

\* resolve_kwargs before each call lets no reference through to a tool, and a
\* result is one of an earlier step of the same run.
THEOREM NoReferenceGetsThrough == Spec => []ReferencesResolved
BY Invariance, PTL DEF IInv

\* Without an approval handler no step above READ has an effect, whether the
\* default comes from run_pipeline or from call_tool.
THEOREM EffectsNeedAHandler == Spec => []NoHandlerNoEffect
BY Invariance, PTL DEF IInv

\* run_workflow executes the steps it made itself, unless another run of the
\* same template registered its own under the shared name in between.
THEOREM AloneIsSafe == Spec => []AloneRunsOwn
BY Invariance, PTL DEF IInv
=============================================================================
