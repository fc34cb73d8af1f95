------------------------------ MODULE JobLedger ------------------------------
(***************************************************************************)
(* What the jobs table promises to whoever calls enqueue_job(): a job is   *)
(* taken in order of its id, its tool is run at most once and only while   *)
(* the job is 'running', and the job is then closed once and for all.      *)
(* There are no workers here, no threads and no transactions; JobQueue     *)
(* implements this module.                                                 *)
(***************************************************************************)
EXTENDS Naturals

CONSTANT MaxJobs      \* the ids handed out in a behaviour are 1 .. MaxJobs

VARIABLES status,     \* the status column of every row, "none" before INSERT
          toolRuns    \* how often call_tool() was called for the job

ledgerVars == <<status, toolRuns>>

JobId     == 1 .. MaxJobs
JobStatus == {"none", "queued", "running", "succeeded", "failed"}

Init == /\ status   = [j \in JobId |-> "none"]
        /\ toolRuns = [j \in JobId |-> 0]

\* Ids are given out in increasing order and never given out again.
Submit(j) == /\ status[j] = "none"
             /\ \A i \in JobId : i < j => status[i] # "none"
             /\ status' = [status EXCEPT ![j] = "queued"]
             /\ UNCHANGED toolRuns

\* Only the oldest queued job can be taken.
Take(j) == /\ status[j] = "queued"
           /\ \A i \in JobId : i < j => status[i] # "queued"
           /\ status' = [status EXCEPT ![j] = "running"]
           /\ UNCHANGED toolRuns

CallTool(j) == /\ status[j] = "running"
               /\ toolRuns[j] = 0
               /\ toolRuns' = [toolRuns EXCEPT ![j] = 1]
               /\ UNCHANGED status

\* A job can fail without its tool ever being called, and cannot succeed so.
Close(j, s) == /\ status[j] = "running"
               /\ s = "succeeded" => toolRuns[j] = 1
               /\ status' = [status EXCEPT ![j] = s]
               /\ UNCHANGED toolRuns

Next == \E j \in JobId : \/ Submit(j)
                         \/ Take(j)
                         \/ CallTool(j)
                         \/ \E s \in {"succeeded", "failed"} : Close(j, s)

Spec == Init /\ [][Next]_ledgerVars

-----------------------------------------------------------------------------
\* Properties

\* No job's tool is called twice, whoever claims the job.
RunAtMostOnce == \A j \in JobId : toolRuns[j] <= 1

\* A closed job stays as it was closed: it is not queued, claimed or run again.
ClosedForGood ==
  [][\A j \in JobId : status[j] \in {"succeeded", "failed"}
       => status'[j] = status[j] /\ toolRuns'[j] = toolRuns[j]]_ledgerVars

\* No job is taken while one enqueued earlier still waits.
OldestFirst ==
  [][\A i, j \in JobId : i < j /\ status[i] = "queued" /\ status[j] = "queued"
       => status'[j] = "queued"]_ledgerVars
=============================================================================
