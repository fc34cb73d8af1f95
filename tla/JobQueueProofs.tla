---------------------------- MODULE JobQueueProofs ----------------------------
(***************************************************************************)
(* Proofs about JobQueue for any set of workers and any bounds: the type   *)
(* invariant, the safety invariants and the refinement of JobLedger.       *)
(***************************************************************************)
EXTENDS JobQueue, TLAPS

-----------------------------------------------------------------------------
\* The inductive invariant, by what each part is about.

\* Ids are handed out in order: exactly the rows below nextId exist.
IdsInOrder == \A j \in JobId : status[j] = "none" <=> j >= nextId

\* A worker past the SELECT has a job; a row it found is still the oldest that
\* can be queued, because later rows only get larger ids.
SelectionHolds ==
  \A w \in Workers :
    /\ pc[w] = "update" \/ Holds(w) => job[w] \in JobId
    /\ pc[w] = "update" => /\ job[w] < nextId
                           /\ \A i \in JobId : i < job[w] => status[i] # "queued"

\* A claim that is held protects its row: nobody else writes its status.
ClaimHolds == /\ \A w \in Workers : Holds(w) => status[job[w]] = "running"
              /\ ExclusiveClaim

\* What has happened to a job's tool, by where its row and its worker are.
ToolProgress ==
  /\ \A j \in JobId :
       status[j] \in {"none", "queued"} => toolRuns[j] = 0 /\ outcome[j] = "none"
  /\ \A w \in Workers :
       /\ pc[w] \in {"fetch", "call_tool"} => toolRuns[job[w]] = 0 /\ outcome[job[w]] = "none"
       /\ pc[w] = "mark_succeeded" => toolRuns[job[w]] = 1 /\ outcome[job[w]] = "returned"
       /\ pc[w] = "mark_failed" /\ outcome[job[w]] = "returned" => mishap[job[w]]

IInv == /\ TypeOK
        /\ IdsInOrder
        /\ SelectionHolds
        /\ ClaimHolds
        /\ ToolProgress
        /\ HonestStatus
        /\ OrphanOnlyByMishap

-----------------------------------------------------------------------------
\* Every state of the program has the declared types.
LEMMA TypeInit == Init => TypeOK
  BY BoundsAssumption DEF Init, TypeOK, JobId, JobStatus, JobType, PC, Control, Outcome, NoJob

LEMMA TypeStep == TypeOK /\ [Next]_vars => TypeOK'
<1> SUFFICES ASSUME TypeOK, [Next]_vars PROVE TypeOK'
    OBVIOUS
<1> USE BoundsAssumption DEF TypeOK, JobStatus, JobType, PC, Control, Outcome
<1>1. CASE UNCHANGED vars
  BY <1>1 DEF vars, tableVars, threadVars, controlVars, historyVars, boundVars
<1>2. ASSUME NEW type \in JobType, enqueue_job(type) PROVE TypeOK'
  BY <1>2 DEF enqueue_job, JobId, threadVars, controlVars, historyVars, boundVars
<1>3. ASSUME NEW w \in Workers, Advance(w) PROVE TypeOK'
  <2>1. CASE LoopTop(w) \/ Wake(w) \/ FetchClaimed(w)
    BY <2>1 DEF LoopTop, Wake, FetchClaimed, Goto, tableVars, controlVars, historyVars, boundVars
  <2>2. CASE ClaimSelect(w)
    BY <2>2 DEF ClaimSelect, Goto, tableVars, controlVars, historyVars, boundVars
  <2>3. CASE ClaimUpdate(w)
    BY <2>3 DEF ClaimUpdate, Goto, controlVars, historyVars, boundVars
  <2>4. CASE CallTool(w)
    <3>1. \A j \in JobId : toolRuns[j] + 1 \in Nat
      OBVIOUS
    <3>2. toolRuns' \in [JobId -> Nat]
      BY <2>4, <3>1 DEF CallTool
    <3>3. pc' \in [Workers -> PC] /\ outcome' \in [JobId -> Outcome]
      BY <2>4 DEF CallTool, Goto
    <3> QED BY <2>4, <3>2, <3>3 DEF CallTool, tableVars, controlVars, boundVars
  <2>5. CASE MarkSucceeded(w) \/ MarkFailed(w)
    BY <2>5 DEF MarkSucceeded, MarkFailed, mark_job_finished, Goto, controlVars, historyVars, boundVars
  <2> QED BY <1>3, <2>1, <2>2, <2>3, <2>4, <2>5 DEF Advance
<1>4. ASSUME NEW w \in Workers, DbFault(w) PROVE TypeOK'
  <2>1. faults' \in 0 .. MaxFaults /\ crashes' \in 0 .. MaxCrashes
    BY <1>4 DEF DbFault, ClaimFails, FetchFails, MarkSucceededFails, MarkFailedFails, Fault
  <2>2. CASE ClaimFails(w)
    BY <2>1, <2>2 DEF ClaimFails, Goto, tableVars, controlVars, historyVars
  <2>3. CASE FetchFails(w) \/ MarkFailedFails(w)
    BY <2>1, <2>3 DEF FetchFails, MarkFailedFails, Goto, tableVars, controlVars
  <2>4. CASE MarkSucceededFails(w)
    BY <2>1, <2>4 DEF MarkSucceededFails, Goto, tableVars, controlVars
  <2> QED BY <1>4, <2>2, <2>3, <2>4 DEF DbFault
<1>5. ASSUME NEW w \in Workers, Controls(w) PROVE TypeOK'
  BY <1>5 DEF Controls, start, stop, stop_returns, Goto, tableVars, threadVars, historyVars, boundVars
<1>6. ASSUME NEW ws \in SUBSET Workers, Crash(ws) PROVE TypeOK'
  BY <1>6 DEF Crash, tableVars
<1> QED BY <1>1, <1>2, <1>3, <1>4, <1>5, <1>6 DEF Next

\* The table, the workers and the histories keep their types in every
\* behaviour of the queue.
THEOREM TypeCorrect == Spec => []TypeOK
  BY TypeInit, TypeStep, PTL DEF Spec

-----------------------------------------------------------------------------
\* The inductive invariant.
LEMMA InvInit == Init => IInv
  BY TypeInit DEF Init, IInv, TypeOK, IdsInOrder, SelectionHolds, ClaimHolds, ExclusiveClaim,
     ToolProgress, HonestStatus, OrphanOnlyByMishap, Holds, JobId, NoJob

\* A step of a thread that holds no job, neither before nor after, and that
\* touches neither the table nor the histories, keeps the invariant.
LEMMA IdleKeeps ==
  ASSUME IInv, TypeOK', NEW w \in Workers,
         ~Holds(w),
         UNCHANGED <<status, nextId, toolRuns, outcome, mishap>>,
         NEW to \in PC \ {"update", "fetch", "call_tool", "mark_succeeded", "mark_failed"},
         pc' = [pc EXCEPT ![w] = to],
         \/ job' = [job EXCEPT ![w] = NoJob]
         \/ UNCHANGED job
  PROVE  IInv'
<1> USE DEF IInv, TypeOK, Holds
<1>1. /\ pc'[w] = to
      /\ \A v \in Workers : v # w => pc'[v] = pc[v] /\ job'[v] = job[v]
  OBVIOUS
<1>2. \A v \in Workers : Holds(v)' <=> Holds(v) BY <1>1
<1>3. \A v \in Workers : Holds(v) => job'[v] = job[v] BY <1>1
<1>4. IdsInOrder' BY DEF IdsInOrder
<1>5. SelectionHolds' BY <1>1 DEF SelectionHolds
<1>6. ClaimHolds' BY <1>2, <1>3 DEF ClaimHolds, ExclusiveClaim
<1>7. ToolProgress' BY <1>1 DEF ToolProgress
<1>8. HonestStatus' BY DEF HonestStatus
<1>9. OrphanOnlyByMishap' BY <1>2, <1>3 DEF OrphanOnlyByMishap
<1> QED BY <1>4, <1>5, <1>6, <1>7, <1>8, <1>9

\* An INSERT gives the new row an id above every other.
LEMMA EnqueueKeeps ==
  ASSUME IInv, NEW type \in JobType, enqueue_job(type) PROVE IInv'
<1>1. TypeOK' BY TypeStep DEF IInv, Next
<1> USE DEF IInv, TypeOK, enqueue_job, threadVars, controlVars, historyVars, boundVars, JobId, Holds
<1>2. IdsInOrder' BY DEF IdsInOrder
<1>3. SelectionHolds' BY DEF SelectionHolds, IdsInOrder
<1>4. ClaimHolds' BY DEF ClaimHolds, IdsInOrder, SelectionHolds, ExclusiveClaim
<1>5. ToolProgress' BY DEF ToolProgress, IdsInOrder
<1>6. HonestStatus' BY DEF HonestStatus
<1>7. OrphanOnlyByMishap' BY DEF OrphanOnlyByMishap, IdsInOrder
<1> QED BY <1>1, <1>2, <1>3, <1>4, <1>5, <1>6, <1>7

\* The claim: SELECT, conditional UPDATE, SELECT.
LEMMA ClaimKeeps ==
  ASSUME IInv, NEW w \in Workers, ClaimSelect(w) \/ ClaimUpdate(w) \/ FetchClaimed(w)
  PROVE  IInv'
<1>1. TypeOK' BY TypeStep DEF IInv, Next, Advance
<1> USE DEF IInv, TypeOK, controlVars, historyVars, boundVars, JobId, NoJob, Holds, Goto, PC
<1>2. CASE ClaimSelect(w)
  <2> USE <1>2 DEF ClaimSelect, tableVars
  <2>1. IdsInOrder' BY DEF IdsInOrder
  <2>2. SelectionHolds' BY DEF SelectionHolds, IdsInOrder, OldestQueued, Queued
  <2>3. ClaimHolds' BY DEF ClaimHolds, ExclusiveClaim
  <2>4. ToolProgress' BY DEF ToolProgress
  <2>5. HonestStatus' BY DEF HonestStatus
  <2>6. OrphanOnlyByMishap' BY DEF OrphanOnlyByMishap
  <2> QED BY <1>1, <2>1, <2>2, <2>3, <2>4, <2>5, <2>6
<1>3. CASE ClaimUpdate(w)
  <2>1. job[w] \in JobId /\ pc[w] = "update"
    BY <1>3 DEF ClaimUpdate, SelectionHolds
  <2>2. ASSUME status[job[w]] = "queued" PROVE IInv'
    <3> DEFINE j == job[w]
    <3>1. /\ status' = [status EXCEPT ![j] = "running"]
          /\ pc' = [pc EXCEPT ![w] = "fetch"]
          /\ UNCHANGED <<job, jobType, nextId, toolRuns, outcome, mishap>>
      BY <1>3, <2>2 DEF ClaimUpdate, Claimable
    <3>2. \A v \in Workers : Holds(v) => v # w /\ job[v] # j
      BY <2>1, <2>2 DEF ClaimHolds
    <3> USE <2>1, <2>2, <3>1, <3>2
    <3>3. IdsInOrder' BY DEF IdsInOrder
    <3>4. SelectionHolds' BY DEF SelectionHolds
    <3>5. ClaimHolds' BY DEF ClaimHolds, ExclusiveClaim
    <3>6. ToolProgress' BY DEF ToolProgress
    <3>7. HonestStatus' BY DEF HonestStatus
    <3>8. OrphanOnlyByMishap' BY DEF OrphanOnlyByMishap
    <3> QED BY <1>1, <3>3, <3>4, <3>5, <3>6, <3>7, <3>8
  <2>3. ASSUME status[job[w]] # "queued" PROVE IInv'
    BY <1>1, <1>3, <2>1, <2>3, IdleKeeps DEF ClaimUpdate, Claimable
  <2> QED BY <2>2, <2>3
<1>4. CASE FetchClaimed(w)
  <2> USE <1>4 DEF FetchClaimed, tableVars
  <2>1. IdsInOrder' BY DEF IdsInOrder
  <2>2. SelectionHolds' BY DEF SelectionHolds
  <2>3. ClaimHolds' BY DEF ClaimHolds, ExclusiveClaim
  <2>4. ToolProgress' BY DEF ToolProgress
  <2>5. HonestStatus' BY DEF HonestStatus
  <2>6. OrphanOnlyByMishap' BY DEF OrphanOnlyByMishap
  <2> QED BY <1>1, <2>1, <2>2, <2>3, <2>4, <2>5, <2>6
<1> QED BY <1>2, <1>3, <1>4

\* call_tool(): the only step that runs a tool.
LEMMA CallToolKeeps ==
  ASSUME IInv, NEW w \in Workers, CallTool(w) PROVE IInv'
<1>1. TypeOK' BY TypeStep DEF IInv, Next, Advance
<1> USE DEF IInv, TypeOK, CallTool, Holds, Goto, PC, tableVars
<1>2. /\ job[w] \in JobId /\ status[job[w]] = "running" /\ toolRuns[job[w]] = 0
      /\ pc'[w] \in {"mark_succeeded", "mark_failed"}
      /\ \A v \in Workers : v # w => pc'[v] = pc[v] /\ (Holds(v) => job[v] # job[w])
  BY DEF SelectionHolds, ClaimHolds, ToolProgress, ExclusiveClaim
<1>3. \A v \in Workers : Holds(v)' <=> Holds(v) BY <1>2
<1>4. IdsInOrder' BY DEF IdsInOrder
<1>5. SelectionHolds' BY <1>2 DEF SelectionHolds
<1>6. ClaimHolds' BY <1>3 DEF ClaimHolds, ExclusiveClaim
<1>7. ToolProgress'
  <2>1. /\ toolRuns'[job[w]] = 1
        /\ pc'[w] = "mark_succeeded" => outcome'[job[w]] = "returned"
        /\ pc'[w] = "mark_failed" => outcome'[job[w]] = "raised"
    BY <1>2
  <2>2. \A j \in JobId : j # job[w] => toolRuns'[j] = toolRuns[j] /\ outcome'[j] = outcome[j]
    BY <1>2
  <2> QED BY <1>2, <2>1, <2>2 DEF ToolProgress, SelectionHolds
<1>8. HonestStatus' BY <1>2 DEF HonestStatus
<1>9. OrphanOnlyByMishap' BY <1>3 DEF OrphanOnlyByMishap
<1> QED BY <1>1, <1>4, <1>5, <1>6, <1>7, <1>8, <1>9

\* The write that closes a job, and releases it.
LEMMA MarkKeeps ==
  ASSUME IInv, NEW w \in Workers, MarkSucceeded(w) \/ MarkFailed(w) PROVE IInv'
<1>1. TypeOK' BY TypeStep DEF IInv, Next, Advance
<1> USE DEF IInv, TypeOK, MarkSucceeded, MarkFailed, mark_job_finished, Holds, Goto, PC, historyVars
<1>2. /\ job[w] \in JobId /\ status[job[w]] = "running" /\ Holds(w)
      /\ pc'[w] = "loop"
      /\ \A v \in Workers : v # w => /\ pc'[v] = pc[v] /\ job'[v] = job[v]
                                     /\ Holds(v) => job[v] # job[w]
      /\ \A i \in JobId : i # job[w] => status'[i] = status[i]
      /\ status'[job[w]] \in {"succeeded", "failed"}
      /\ UNCHANGED <<toolRuns, outcome, mishap, nextId>>
  BY DEF SelectionHolds, ClaimHolds, ExclusiveClaim
<1>3. \A v \in Workers : Holds(v)' <=> Holds(v) /\ v # w BY <1>2
<1>4. IdsInOrder' BY <1>2 DEF IdsInOrder
<1>5. SelectionHolds' BY <1>2 DEF SelectionHolds
<1>6. ClaimHolds' BY <1>2, <1>3 DEF ClaimHolds, ExclusiveClaim, SelectionHolds
<1>7. ToolProgress' BY <1>2 DEF ToolProgress
<1>8. HonestStatus'
  <2>1. /\ status'[job[w]] = "succeeded" => outcome[job[w]] = "returned"
        /\ status'[job[w]] = "failed" /\ outcome[job[w]] = "returned" => mishap[job[w]]
    BY <1>2 DEF ToolProgress
  <2> QED BY <1>2, <2>1 DEF HonestStatus
<1>9. OrphanOnlyByMishap' BY <1>2, <1>3 DEF OrphanOnlyByMishap
<1> QED BY <1>1, <1>4, <1>5, <1>6, <1>7, <1>8, <1>9

\* Database errors: before, at and after the claim.
LEMMA FaultKeeps ==
  ASSUME IInv, NEW w \in Workers, DbFault(w) PROVE IInv'
<1>1. TypeOK' BY TypeStep DEF IInv, Next
<1>2. CASE ClaimFails(w)
  BY <1>1, <1>2, IdleKeeps DEF ClaimFails, Goto, Holds, PC, tableVars, historyVars
<1>3. CASE FetchFails(w) \/ MarkFailedFails(w)
  <2> USE DEF IInv, TypeOK, Holds
  <2>1. /\ pc'[w] = "asleep" /\ Holds(w) /\ job[w] \in JobId
        /\ \A v \in Workers : v # w => /\ pc'[v] = pc[v] /\ job'[v] = job[v]
                                       /\ Holds(v) => job[v] # job[w]
        /\ mishap'[job[w]]
        /\ \A i \in JobId : mishap[i] => mishap'[i]
        /\ UNCHANGED <<status, nextId, toolRuns, outcome>>
    BY <1>3 DEF FetchFails, MarkFailedFails, Goto, PC, tableVars, SelectionHolds, ClaimHolds, ExclusiveClaim
  <2>2. \A v \in Workers : Holds(v)' <=> Holds(v) /\ v # w BY <2>1
  <2>3. IdsInOrder' BY <2>1 DEF IdsInOrder
  <2>4. SelectionHolds' BY <2>1 DEF SelectionHolds
  <2>5. ClaimHolds' BY <2>1, <2>2 DEF ClaimHolds, ExclusiveClaim
  <2>6. ToolProgress' BY <2>1 DEF ToolProgress, SelectionHolds
  <2>7. HonestStatus' BY <2>1 DEF HonestStatus
  <2>8. OrphanOnlyByMishap' BY <2>1, <2>2 DEF OrphanOnlyByMishap
  <2> QED BY <1>1, <2>3, <2>4, <2>5, <2>6, <2>7, <2>8
<1>4. CASE MarkSucceededFails(w)
  <2> USE DEF IInv, TypeOK, Holds
  <2>1. /\ pc[w] = "mark_succeeded" /\ pc'[w] = "mark_failed" /\ job[w] \in JobId
        /\ \A v \in Workers : v # w => pc'[v] = pc[v]
        /\ mishap'[job[w]]
        /\ \A i \in JobId : mishap[i] => mishap'[i]
        /\ UNCHANGED <<job, status, nextId, toolRuns, outcome>>
    BY <1>4 DEF MarkSucceededFails, Goto, PC, tableVars, SelectionHolds
  <2>2. \A v \in Workers : Holds(v)' <=> Holds(v) BY <2>1
  <2>3. IdsInOrder' BY <2>1 DEF IdsInOrder
  <2>4. SelectionHolds' BY <2>1 DEF SelectionHolds
  <2>5. ClaimHolds' BY <2>1, <2>2 DEF ClaimHolds, ExclusiveClaim
  <2>6. ToolProgress' BY <2>1 DEF ToolProgress, SelectionHolds
  <2>7. HonestStatus' BY <2>1 DEF HonestStatus
  <2>8. OrphanOnlyByMishap' BY <2>1, <2>2 DEF OrphanOnlyByMishap
  <2> QED BY <1>1, <2>3, <2>4, <2>5, <2>6, <2>7, <2>8
<1> QED BY <1>2, <1>3, <1>4 DEF DbFault

\* A crash frees the jobs of the process, and marks them.
LEMMA CrashKeeps ==
  ASSUME IInv, NEW ws \in SUBSET Workers, ws # {}, Crash(ws) PROVE IInv'
<1>1. TypeOK' BY TypeStep DEF IInv, Next
<1> USE DEF IInv, TypeOK, Holds
<1>2. /\ \A v \in Workers : v \in ws => pc'[v] = "off"
      /\ \A v \in Workers : v \notin ws => pc'[v] = pc[v] /\ job'[v] = job[v]
      /\ \A i \in JobId : mishap[i] => mishap'[i]
      /\ \A v \in ws : Holds(v) => mishap'[job[v]]
      /\ UNCHANGED <<status, nextId, toolRuns, outcome>>
  BY DEF Crash, tableVars, SelectionHolds
<1>3. \A v \in Workers : Holds(v)' <=> Holds(v) /\ v \notin ws BY <1>2
<1>4. IdsInOrder' BY <1>2 DEF IdsInOrder
<1>5. SelectionHolds' BY <1>2 DEF SelectionHolds
<1>6. ClaimHolds' BY <1>2, <1>3 DEF ClaimHolds, ExclusiveClaim
<1>7. ToolProgress' BY <1>2 DEF ToolProgress, SelectionHolds
<1>8. HonestStatus' BY <1>2 DEF HonestStatus
<1>9. OrphanOnlyByMishap' BY <1>2, <1>3 DEF OrphanOnlyByMishap
<1> QED BY <1>1, <1>4, <1>5, <1>6, <1>7, <1>8, <1>9

LEMMA InvStep == IInv /\ [Next]_vars => IInv'
<1> SUFFICES ASSUME IInv, [Next]_vars PROVE IInv'
    OBVIOUS
<1>1. TypeOK' BY TypeStep DEF IInv
<1>2. CASE UNCHANGED vars
  BY <1>1, <1>2 DEF IInv, IdsInOrder, SelectionHolds, ClaimHolds, ExclusiveClaim, ToolProgress,
     HonestStatus, OrphanOnlyByMishap, Holds, vars, tableVars, threadVars, historyVars
<1>3. ASSUME NEW type \in JobType, enqueue_job(type) PROVE IInv'
  BY <1>3, EnqueueKeeps
<1>4. ASSUME NEW w \in Workers, Advance(w) PROVE IInv'
  <2>1. CASE LoopTop(w) \/ Wake(w)
    <3>1. PICK to \in {"off", "select", "loop"} : pc' = [pc EXCEPT ![w] = to]
      BY <2>1 DEF LoopTop, Wake, Goto
    <3> QED BY <1>1, <2>1, <3>1, IdleKeeps DEF LoopTop, Wake, Holds, PC, tableVars, historyVars
  <2> QED BY <1>4, <2>1, ClaimKeeps, CallToolKeeps, MarkKeeps DEF Advance
<1>5. ASSUME NEW w \in Workers, DbFault(w) PROVE IInv'
  BY <1>5, FaultKeeps
<1>6. ASSUME NEW w \in Workers, Controls(w) PROVE IInv'
  <2>1. CASE UNCHANGED <<tableVars, threadVars, historyVars>>
    BY <1>1, <2>1 DEF IInv, IdsInOrder, SelectionHolds, ClaimHolds, ExclusiveClaim, ToolProgress,
       HonestStatus, OrphanOnlyByMishap, Holds, tableVars, threadVars, historyVars
  <2>2. CASE start(w) /\ ~Alive(w)
    BY <1>1, <2>2, IdleKeeps DEF start, Alive, Goto, Holds, PC, tableVars, historyVars
  <2> QED BY <1>6, <2>1, <2>2 DEF Controls, start, stop, stop_returns, threadVars
<1>7. ASSUME NEW ws \in SUBSET Workers, ws # {}, Crash(ws) PROVE IInv'
  BY <1>7, CrashKeeps
<1> QED BY <1>2, <1>3, <1>4, <1>5, <1>6, <1>7 DEF Next

THEOREM Invariance == Spec => []IInv
  BY InvInit, InvStep, PTL DEF Spec

-----------------------------------------------------------------------------
\* However many workers run, a job is worked on by one of them at a time.
THEOREM ClaimsAreExclusive == Spec => []ExclusiveClaim
  BY Invariance, PTL DEF IInv, ClaimHolds

\* 'succeeded' and 'failed' tell how the tool ended, up to a lost write.
THEOREM StatusIsHonest == Spec => []HonestStatus
  BY Invariance, PTL DEF IInv

\* Only a database error or a crash leaves a row 'running' with no worker.
THEOREM OrphansComeFromMishaps == Spec => []OrphanOnlyByMishap
  BY Invariance, PTL DEF IInv

-----------------------------------------------------------------------------
\* The refinement: every step of the queue is a step of the ledger or leaves
\* its two variables alone.

LEMMA LedgerInit == Init => Ledger!Init
  BY DEF Init, Ledger!Init, JobId, Ledger!JobId

LEMMA LedgerStep == IInv /\ [Next]_vars => [Ledger!Next]_(Ledger!ledgerVars)
<1> SUFFICES ASSUME IInv, [Next]_vars PROVE [Ledger!Next]_(Ledger!ledgerVars)
    OBVIOUS
<1> USE DEF IInv, TypeOK, Ledger!ledgerVars, Ledger!JobId, JobId
<1>1. CASE UNCHANGED vars
  BY <1>1 DEF vars, tableVars, historyVars
<1>2. ASSUME NEW type \in JobType, enqueue_job(type) PROVE Ledger!Next
  <2>1. nextId \in JobId BY <1>2 DEF enqueue_job
  <2>2. Ledger!Submit(nextId)
    BY <1>2, <2>1 DEF enqueue_job, IdsInOrder, Ledger!Submit, historyVars
  <2> QED BY <2>1, <2>2 DEF Ledger!Next
<1>3. ASSUME NEW w \in Workers, Advance(w) PROVE [Ledger!Next]_(Ledger!ledgerVars)
  <2>1. CASE LoopTop(w) \/ Wake(w) \/ ClaimSelect(w) \/ FetchClaimed(w)
    BY <2>1 DEF LoopTop, Wake, ClaimSelect, FetchClaimed, tableVars, historyVars
  <2>2. CASE ClaimUpdate(w) /\ status[job[w]] = "queued"
    <3>1. job[w] \in JobId BY <2>2 DEF ClaimUpdate, SelectionHolds
    <3>2. Ledger!Take(job[w])
      BY <2>2, <3>1 DEF ClaimUpdate, Claimable, SelectionHolds, historyVars, Ledger!Take
    <3> QED BY <3>1, <3>2 DEF Ledger!Next
  <2>3. CASE ClaimUpdate(w) /\ status[job[w]] # "queued"
    BY <2>3 DEF ClaimUpdate, Claimable, historyVars
  <2>4. CASE CallTool(w)
    <3>1. job[w] \in JobId /\ status[job[w]] = "running" /\ toolRuns[job[w]] = 0
      BY <2>4 DEF CallTool, Holds, SelectionHolds, ClaimHolds, ToolProgress
    <3>2. Ledger!CallTool(job[w])
      BY <2>4, <3>1 DEF CallTool, tableVars, Ledger!CallTool
    <3> QED BY <3>1, <3>2 DEF Ledger!Next
  <2>5. CASE MarkSucceeded(w)
    <3>1. job[w] \in JobId /\ status[job[w]] = "running" /\ toolRuns[job[w]] = 1
      BY <2>5 DEF MarkSucceeded, Holds, SelectionHolds, ClaimHolds, ToolProgress
    <3>2. Ledger!Close(job[w], "succeeded")
      BY <2>5, <3>1 DEF MarkSucceeded, mark_job_finished, historyVars, Ledger!Close
    <3> QED BY <3>1, <3>2 DEF Ledger!Next
  <2>6. CASE MarkFailed(w)
    <3>1. job[w] \in JobId /\ status[job[w]] = "running"
      BY <2>6 DEF MarkFailed, Holds, SelectionHolds, ClaimHolds
    <3>2. Ledger!Close(job[w], "failed")
      BY <2>6, <3>1 DEF MarkFailed, mark_job_finished, historyVars, Ledger!Close
    <3> QED BY <3>1, <3>2 DEF Ledger!Next
  <2> QED BY <1>3, <2>1, <2>2, <2>3, <2>4, <2>5, <2>6 DEF Advance
<1>4. ASSUME NEW w \in Workers, DbFault(w) PROVE UNCHANGED Ledger!ledgerVars
  BY <1>4 DEF DbFault, ClaimFails, FetchFails, MarkSucceededFails, MarkFailedFails, tableVars, historyVars
<1>5. ASSUME NEW w \in Workers, Controls(w) PROVE UNCHANGED Ledger!ledgerVars
  BY <1>5 DEF Controls, start, stop, stop_returns, tableVars, historyVars
<1>6. ASSUME NEW ws \in SUBSET Workers, Crash(ws) PROVE UNCHANGED Ledger!ledgerVars
  BY <1>6 DEF Crash, tableVars
<1> QED BY <1>1, <1>2, <1>3, <1>4, <1>5, <1>6 DEF Next

\* The queue implements the ledger: whatever its workers, faults and crashes
\* do, jobs are taken oldest first, run at most once and closed once.
THEOREM QueueImplementsLedger == Spec => ImplementsLedger
  BY LedgerInit, LedgerStep, Invariance, PTL DEF Spec, ImplementsLedger, Ledger!Spec

\* What the ledger promises of its own accord holds of the queue.
LedgerTypeOK == toolRuns \in [JobId -> {0, 1}] /\ status \in [JobId -> JobStatus]

LEMMA LedgerTypes == Ledger!Spec => []LedgerTypeOK
<1> USE DEF LedgerTypeOK
<1>1. Ledger!Init => LedgerTypeOK
  BY DEF Ledger!Init, JobId, Ledger!JobId, JobStatus
<1>2. LedgerTypeOK /\ [Ledger!Next]_(Ledger!ledgerVars) => LedgerTypeOK'
  BY DEF Ledger!Next, Ledger!Submit, Ledger!Take, Ledger!CallTool, Ledger!Close, Ledger!ledgerVars,
         JobId, Ledger!JobId, JobStatus
<1> QED BY <1>1, <1>2, PTL DEF Ledger!Spec

\* However often a job is selected, and whatever crashes, no tool is called twice
\* for it.
THEOREM ToolsRunAtMostOnce == Spec => []Ledger!RunAtMostOnce
<1>1. LedgerTypeOK => Ledger!RunAtMostOnce
  BY DEF LedgerTypeOK, Ledger!RunAtMostOnce, JobId, Ledger!JobId
<1> QED BY <1>1, LedgerTypes, QueueImplementsLedger, PTL DEF ImplementsLedger

\* No worker, fault or crash reopens a job that was closed.
THEOREM JobsStayClosed == Spec => Ledger!ClosedForGood
<1> DEFINE Closed == \A j \in Ledger!JobId : status[j] \in {"succeeded", "failed"}
            => status'[j] = status[j] /\ toolRuns'[j] = toolRuns[j]
<1>1. LedgerTypeOK /\ Ledger!Next => Closed
  BY DEF LedgerTypeOK, Ledger!Next, Ledger!Submit, Ledger!Take, Ledger!CallTool, Ledger!Close, JobId, Ledger!JobId
<1>2. LedgerTypeOK /\ [Ledger!Next]_(Ledger!ledgerVars) => [Closed]_(Ledger!ledgerVars)
  BY <1>1
<1>3. Ledger!Spec => [][Closed]_(Ledger!ledgerVars)
  BY <1>2, LedgerTypes, PTL DEF Ledger!Spec
<1> QED BY <1>3, QueueImplementsLedger, PTL DEF ImplementsLedger, Ledger!ClosedForGood

\* Although SELECT and UPDATE are two statements, no job is claimed before one
\* that was enqueued earlier and still waits.
THEOREM JobsAreTakenInOrder == Spec => Ledger!OldestFirst
<1> DEFINE Waits == \A i, j \in Ledger!JobId : i < j /\ status[i] = "queued" /\ status[j] = "queued"
           => status'[j] = "queued"
<1>1. LedgerTypeOK /\ Ledger!Next => Waits
  BY DEF LedgerTypeOK, Ledger!Next, Ledger!Submit, Ledger!Take, Ledger!CallTool, Ledger!Close, JobId, Ledger!JobId
<1>2. LedgerTypeOK /\ [Ledger!Next]_(Ledger!ledgerVars) => [Waits]_(Ledger!ledgerVars)
  BY <1>1
<1>3. Ledger!Spec => [][Waits]_(Ledger!ledgerVars)
  BY <1>2, LedgerTypes, PTL DEF Ledger!Spec
<1> QED BY <1>3, QueueImplementsLedger, PTL DEF ImplementsLedger, Ledger!OldestFirst
=============================================================================
