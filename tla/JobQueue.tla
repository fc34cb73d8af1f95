------------------------------- MODULE JobQueue -------------------------------
(***************************************************************************)
(* The job queue: the jobs table (app/jobs/queue.py) and the JobWorker     *)
(* threads that poll it (app/jobs/worker.py).                              *)
(*                                                                         *)
(* Every db_cursor() block is one SQLite connection.  A SELECT runs        *)
(* outside any transaction, and an INSERT or UPDATE with the commit that   *)
(* ends the block is atomic for the other connections, so a step of this   *)
(* module is at most one statement that writes.  Threads and processes     *)
(* interleave between steps.                                               *)
(*                                                                         *)
(* call_tool() is one step here (CallTool): it runs with                   *)
(* AutoApprovalHandler, returns or raises, and Executor models its inside. *)
(*                                                                         *)
(* An operator named Bug... is a wrong version of the definition that      *)
(* follows it.  No specification uses it: it is there to be put in the     *)
(* place of that definition, to see which property notices.                *)
(***************************************************************************)
EXTENDS Naturals, FiniteSets

CONSTANTS Workers,     \* the JobWorker objects
          MaxJobs,     \* bound: how many jobs are enqueued
          MaxFaults,   \* bound: how many database calls of a worker raise
          MaxCrashes   \* bound: how often a process hosting workers dies

ASSUME BoundsAssumption == /\ MaxJobs \in Nat
                           /\ MaxFaults \in Nat
                           /\ MaxCrashes \in Nat

NoJob == 0             \* not an id: AUTOINCREMENT ids start at 1
JobId == 1 .. MaxJobs

JobStatus == {"none", "queued", "running", "succeeded", "failed"}
JobType   == {"tool_call", "other"}
Outcome   == {"none", "returned", "raised"}
Control   == {"none", "start", "stopping", "stop"}
PC        == {"off", "loop", "select", "update", "fetch", "call_tool",
              "mark_succeeded", "mark_failed", "asleep"}

VARIABLES status,     \* status column of each row ("none": not inserted)
          jobType,    \* job_type column of each row
          nextId,     \* the id the next INSERT gets
          pc,         \* where the thread of each worker is
          job,        \* the worker's local job_id
          stopEvent,  \* _stop_event of each worker
          lastCall,   \* the last call of start() or stop() on the worker
          toolRuns,   \* history: calls of call_tool() made for the job
          outcome,    \* history: how call_tool() ended for the job
          mishap,     \* history: a write was lost, or a crash hit its owner
          faults,     \* database faults so far
          crashes     \* crashes so far

tableVars   == <<status, jobType, nextId>>
threadVars  == <<pc, job>>
controlVars == <<stopEvent, lastCall>>
historyVars == <<toolRuns, outcome, mishap>>
boundVars   == <<faults, crashes>>
vars == <<tableVars, threadVars, controlVars, historyVars, boundVars>>

TypeOK == /\ status    \in [JobId -> JobStatus]
          /\ jobType   \in [JobId -> JobType]
          /\ nextId    \in 1 .. MaxJobs + 1
          /\ pc        \in [Workers -> PC]
          /\ job       \in [Workers -> JobId \cup {NoJob}]
          /\ stopEvent \in [Workers -> BOOLEAN]
          /\ lastCall  \in [Workers -> Control]
          /\ toolRuns  \in [JobId -> Nat]
          /\ outcome   \in [JobId -> Outcome]
          /\ mishap    \in [JobId -> BOOLEAN]
          /\ faults    \in 0 .. MaxFaults
          /\ crashes   \in 0 .. MaxCrashes

Init == /\ status    = [j \in JobId |-> "none"]
        /\ jobType   = [j \in JobId |-> "tool_call"]
        /\ nextId    = 1
        /\ pc        = [w \in Workers |-> "off"]
        /\ job       = [w \in Workers |-> NoJob]
        /\ stopEvent = [w \in Workers |-> FALSE]
        /\ lastCall  = [w \in Workers |-> "none"]
        /\ toolRuns  = [j \in JobId |-> 0]
        /\ outcome   = [j \in JobId |-> "none"]
        /\ mishap    = [j \in JobId |-> FALSE]
        /\ faults    = 0
        /\ crashes   = 0

-----------------------------------------------------------------------------
\* Helpers

Alive(w) == pc[w] # "off"                       \* Thread.is_alive()

\* The claim of w is committed and the job is not closed yet.
Holds(w) == pc[w] \in {"fetch", "call_tool", "mark_succeeded", "mark_failed"}

Queued == {j \in JobId : status[j] = "queued"}

\* ORDER BY id ASC LIMIT 1 among the queued rows.
BugOldestQueued(j) == j \in Queued /\ \A i \in Queued : j >= i
OldestQueued(j)    == j \in Queued /\ \A i \in Queued : j <= i

\* AND status = 'queued' in the WHERE of the claim.
BugClaimable(j) == TRUE
Claimable(j)    == status[j] = "queued"

Goto(w, label) == pc' = [pc EXCEPT ![w] = label]

\* One of the bounded faults: "database is locked" after sqlite3's five
\* seconds, a full disk, or, when a result is stored, json.dumps refusing it.
Fault == /\ faults < MaxFaults
         /\ faults' = faults + 1
         /\ UNCHANGED crashes

-----------------------------------------------------------------------------
\* app/jobs/queue.py

enqueue_job(type) ==
  /\ nextId <= MaxJobs
  /\ status'  = [status EXCEPT ![nextId] = "queued"]
  /\ jobType' = [jobType EXCEPT ![nextId] = type]
  /\ nextId'  = nextId + 1
  /\ UNCHANGED <<threadVars, controlVars, historyVars, boundVars>>

\* The SELECT of _claim_next_queued_job: no transaction is open yet.
ClaimSelect(w) ==
  /\ pc[w] = "select"
  /\ \/ \E j \in JobId : /\ OldestQueued(j)
                         /\ job' = [job EXCEPT ![w] = j]
                         /\ Goto(w, "update")
     \/ /\ Queued = {}
        /\ Goto(w, "asleep")
        /\ UNCHANGED job
  /\ UNCHANGED <<tableVars, controlVars, historyVars, boundVars>>

\* UPDATE ... WHERE id = ? AND status = 'queued', and the commit.
\* rowcount = 0 means that another worker was faster.
ClaimUpdate(w) ==
  /\ pc[w] = "update"
  /\ \/ /\ Claimable(job[w])
        /\ status' = [status EXCEPT ![job[w]] = "running"]
        /\ Goto(w, "fetch")
        /\ UNCHANGED job
     \/ /\ ~Claimable(job[w])
        /\ Goto(w, "asleep")
        /\ job' = [job EXCEPT ![w] = NoJob]
        /\ UNCHANGED status
  /\ UNCHANGED <<jobType, nextId, controlVars, historyVars, boundVars>>

\* What a reader of the row gets, of the columns modelled here.
get_job(j) == [id |-> j, job_type |-> jobType[j], status |-> status[j]]

\* get_job(job_id) in a connection of its own, then the test of the job's
\* type at the top of _execute_job (Bug: an unknown type is just skipped).
BugFetchClaimed(w) ==
  /\ pc[w] = "fetch"
  /\ Goto(w, IF get_job(job[w]).job_type = "tool_call" THEN "call_tool" ELSE "loop")
  /\ UNCHANGED <<job, tableVars, controlVars, historyVars, boundVars>>

FetchClaimed(w) ==
  /\ pc[w] = "fetch"
  /\ Goto(w, IF get_job(job[w]).job_type = "tool_call" THEN "call_tool" ELSE "mark_failed")
  /\ UNCHANGED <<job, tableVars, controlVars, historyVars, boundVars>>

\* The SELECT or the UPDATE raises: rolled back, nothing was claimed.
ClaimFails(w) ==
  /\ pc[w] \in {"select", "update"}
  /\ Fault
  /\ Goto(w, "asleep")
  /\ job' = [job EXCEPT ![w] = NoJob]
  /\ UNCHANGED <<tableVars, controlVars, historyVars>>

\* get_job raises after the claim was committed: the loop catches it and
\* nothing remembers that the row is 'running'.
FetchFails(w) ==
  /\ pc[w] = "fetch"
  /\ Fault
  /\ Goto(w, "asleep")
  /\ job' = [job EXCEPT ![w] = NoJob]
  /\ mishap' = [mishap EXCEPT ![job[w]] = TRUE]
  /\ UNCHANGED <<tableVars, controlVars, toolRuns, outcome>>

\* UPDATE jobs SET status = ? ... WHERE id = ?, whatever the status is.
mark_job_finished(w, s) ==
  /\ status' = [status EXCEPT ![job[w]] = s]
  /\ job'    = [job EXCEPT ![w] = NoJob]
  /\ Goto(w, "loop")
  /\ UNCHANGED <<jobType, nextId, controlVars, historyVars, boundVars>>

-----------------------------------------------------------------------------
\* app/jobs/worker.py

\* _run_loop tests the stop event only here, between two jobs.
BugLoopTop(w) ==
  /\ pc[w] = "loop"
  /\ Goto(w, "select")
  /\ UNCHANGED <<job, tableVars, controlVars, historyVars, boundVars>>

LoopTop(w) ==
  /\ pc[w] = "loop"
  /\ Goto(w, IF stopEvent[w] THEN "off" ELSE "select")
  /\ UNCHANGED <<job, tableVars, controlVars, historyVars, boundVars>>

\* The end of time.sleep(poll_interval) (Bug: of a wait for the stop event).
BugWake(w) ==
  /\ pc[w] = "asleep"
  /\ stopEvent[w]
  /\ Goto(w, "loop")
  /\ UNCHANGED <<job, tableVars, controlVars, historyVars, boundVars>>

Wake(w) ==
  /\ pc[w] = "asleep"
  /\ Goto(w, "loop")
  /\ UNCHANGED <<job, tableVars, controlVars, historyVars, boundVars>>

\* call_tool(): the tool is run for this job, and returns or raises.
CallTool(w) ==
  /\ pc[w] = "call_tool"
  /\ toolRuns' = [toolRuns EXCEPT ![job[w]] = @ + 1]
  /\ \/ /\ outcome' = [outcome EXCEPT ![job[w]] = "returned"]
        /\ Goto(w, "mark_succeeded")
     \/ /\ outcome' = [outcome EXCEPT ![job[w]] = "raised"]
        /\ Goto(w, "mark_failed")
  /\ UNCHANGED <<job, mishap, tableVars, controlVars, boundVars>>

BugMarkSucceeded(w) == pc[w] = "mark_succeeded" /\ mark_job_finished(w, "success")

MarkSucceeded(w) == pc[w] = "mark_succeeded" /\ mark_job_finished(w, "succeeded")

MarkFailed(w) == pc[w] = "mark_failed" /\ mark_job_finished(w, "failed")

\* The write of 'succeeded' stands inside the try that guards call_tool, so
\* its exception is taken for one of the tool and the job is marked failed.
MarkSucceededFails(w) ==
  /\ pc[w] = "mark_succeeded"
  /\ Fault
  /\ Goto(w, "mark_failed")
  /\ mishap' = [mishap EXCEPT ![job[w]] = TRUE]
  /\ UNCHANGED <<job, tableVars, controlVars, toolRuns, outcome>>

\* The write of 'failed' is guarded only by the loop: the row stays 'running'.
MarkFailedFails(w) ==
  /\ pc[w] = "mark_failed"
  /\ Fault
  /\ Goto(w, "asleep")
  /\ job' = [job EXCEPT ![w] = NoJob]
  /\ mishap' = [mishap EXCEPT ![job[w]] = TRUE]
  /\ UNCHANGED <<tableVars, controlVars, toolRuns, outcome>>

\* start(): refused, and the stop event left as it is, while a thread lives.
start(w) ==
  /\ lastCall[w] # "stopping"
  /\ lastCall' = [lastCall EXCEPT ![w] = "start"]
  /\ \/ /\ Alive(w)
        /\ UNCHANGED <<pc, stopEvent>>
     \/ /\ ~Alive(w)
        /\ stopEvent' = [stopEvent EXCEPT ![w] = FALSE]
        /\ Goto(w, "loop")
  /\ UNCHANGED <<job, tableVars, historyVars, boundVars>>

\* stop() sets the event, then waits in join().
stop(w) ==
  /\ lastCall[w] # "stopping"
  /\ stopEvent' = [stopEvent EXCEPT ![w] = TRUE]
  /\ lastCall'  = [lastCall EXCEPT ![w] = "stopping"]
  /\ UNCHANGED <<tableVars, threadVars, historyVars, boundVars>>

\* join() returns when the thread is gone, or gives up after five seconds while
\* the thread is somewhere it can spend them: a tool, a statement on a locked
\* database, a sleep of poll_interval.
stop_returns(w) ==
  /\ lastCall[w] = "stopping"
  /\ pc[w] # "loop"
  /\ lastCall' = [lastCall EXCEPT ![w] = "stop"]
  /\ UNCHANGED <<tableVars, threadVars, stopEvent, historyVars, boundVars>>

\* The process that hosts the workers ws dies: daemon threads, JobWorker
\* objects and open transactions are gone, committed rows stay.
Crash(ws) ==
  /\ crashes < MaxCrashes
  /\ crashes' = crashes + 1
  /\ pc' = [w \in Workers |-> IF w \in ws THEN "off" ELSE pc[w]]
  /\ job' = [w \in Workers |-> IF w \in ws THEN NoJob ELSE job[w]]
  /\ stopEvent' = [w \in Workers |-> stopEvent[w] /\ w \notin ws]
  /\ lastCall' = [w \in Workers |-> IF w \in ws THEN "none" ELSE lastCall[w]]
  /\ mishap' = [j \in JobId |-> mishap[j] \/ \E w \in ws : Holds(w) /\ job[w] = j]
  /\ UNCHANGED <<tableVars, toolRuns, outcome, faults>>

-----------------------------------------------------------------------------
\* The steps a live thread takes by itself.
Advance(w) == \/ LoopTop(w) \/ Wake(w)
              \/ ClaimSelect(w) \/ ClaimUpdate(w) \/ FetchClaimed(w)
              \/ CallTool(w) \/ MarkSucceeded(w) \/ MarkFailed(w)

DbFault(w) == \/ ClaimFails(w) \/ FetchFails(w)
              \/ MarkSucceededFails(w) \/ MarkFailedFails(w)

\* The thread that owns the worker calls one of start() and stop() at a time.
Controls(w) == start(w) \/ stop(w) \/ stop_returns(w)

Next == \/ \E type \in JobType : enqueue_job(type)
        \/ \E w \in Workers : Advance(w) \/ DbFault(w) \/ Controls(w)
        \/ \E ws \in SUBSET Workers : ws # {} /\ Crash(ws)

Spec == Init /\ [][Next]_vars

\* A thread that is alive is scheduled, a sleep ends, and every tool returns or
\* raises.  Nothing makes anybody call start(), stop() or enqueue_job().
FairSpec == Spec /\ \A w \in Workers : WF_vars(Advance(w))

-----------------------------------------------------------------------------
\* Properties

\* However many workers poll the table, no two of them hold the same job
\* between the claim and the write that closes it.
ExclusiveClaim ==
  \A v, w \in Workers : v # w /\ Holds(v) /\ Holds(w) => job[v] # job[w]

\* The status a job ends with is how its tool ended: 'succeeded' only when
\* call_tool() returned, 'failed' although it returned only when the write of
\* 'succeeded' was lost.
HonestStatus ==
  \A j \in JobId :
    /\ status[j] = "succeeded" => outcome[j] = "returned"
    /\ status[j] = "failed" /\ outcome[j] = "returned" => mishap[j]

\* A row that says 'running' is being worked on, unless a database error or a
\* crash hit its worker after the claim: nothing ever picks it up again.
OrphanOnlyByMishap ==
  \A j \in JobId :
    status[j] = "running" => mishap[j] \/ \E w \in Workers : Holds(w) /\ job[w] = j

\* The queue with its workers, races, faults and crashes implements the
\* ledger: jobs taken oldest first, tools run once, jobs closed for good.
Ledger == INSTANCE JobLedger
ImplementsLedger == Ledger!Spec

\* A claimed job is closed whatever start() and stop() do meanwhile, unless a
\* database error or a crash hits its worker.
ClaimedIsClosed ==
  \A j \in JobId :
    status[j] = "running" ~> mishap[j] \/ status[j] \in {"succeeded", "failed"}

\* While some worker stays up and is not asked to stop, every queued job is
\* taken: losing the race for a job, or a poll that fails, delays it only.
QueuedIsTaken ==
  (\E w \in Workers : <>[](Alive(w) /\ ~stopEvent[w]))
    => \A j \in JobId : status[j] = "queued" ~> status[j] # "queued"

\* stop() ends the thread even when its join() timed out and start() was
\* called before the thread was gone.
StopTakesEffect ==
  \A w \in Workers : stopEvent[w] ~> ~Alive(w)

\* What start() reports when it finds a thread alive ("worker is already
\* running"): after start(), and until stop(), the worker has a thread.
StartedIsRunning ==
  \A w \in Workers : lastCall[w] = "start" => Alive(w)
=============================================================================
