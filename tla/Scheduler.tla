------------------------------- MODULE Scheduler -------------------------------
(***************************************************************************)
(* The scheduler (app/scheduler/scheduler.py): the scheduled_jobs table,   *)
(* the operations on it, and the SchedulerLoop thread, which takes a       *)
(* snapshot of the rows that are due and then, row by row, enqueues a job  *)
(* in one transaction and moves next_run_at in another.  Whoever edits the *)
(* table does so between any two of these steps.                           *)
(*                                                                         *)
(* Time is the wall clock in some unit.  payload, job_type and name are    *)
(* left out: they are copied, never compared.  A create whose name is      *)
(* taken or whose schedule_expr does not parse raises and changes nothing. *)
(*                                                                         *)
(* An operator named Bug... is a wrong version of the definition that      *)
(* follows it, to be put in its place to see which property notices.       *)
(***************************************************************************)
EXTENDS Integers

CONSTANTS MaxIds,      \* bound: how many schedules are created
          Intervals,   \* the <seconds> of the 'every:<seconds>' in use
          MaxTime,     \* bound: the clock stops there
          MaxDate,     \* the last date datetime.fromtimestamp() can make
          MaxMishaps   \* bound: database calls of the loop that raise, and crashes

\* int() takes 0, negative numbers and numbers of any length.
ASSUME SchedulerAssumption == /\ MaxIds \in Nat
                              /\ Intervals \subseteq Int
                              /\ MaxTime \in Nat
                              /\ MaxDate \in Nat /\ MaxTime <= MaxDate
                              /\ MaxMishaps \in Nat

Id      == 1 .. MaxIds
Time    == 0 .. MaxTime
Never   == -1                   \* lastEnqueued of a row not triggered yet
PC      == {"off", "loop", "check", "trigger", "advance", "asleep"}

VARIABLES now,          \* the clock
          rows,         \* the ids in the table
          nextId,       \* the id the next INSERT gets
          enabled,      \* the columns of each row
          interval,
          nextRunAt,
          pc,           \* where the loop's thread is
          due,          \* the rows of the snapshot not yet triggered
          current,      \* the row being triggered, 0 if none
          stopEvent,    \* _stop_event
          lastEnqueued, \* history: when a job was last enqueued for the row
          unadvanced,   \* history: ... and next_run_at was not moved after it
          offRuns,      \* history: jobs enqueued since the row was switched off
          mishaps       \* database errors and crashes so far

tableVars   == <<rows, nextId, enabled, interval, nextRunAt>>
threadVars  == <<pc, due, current>>
historyVars == <<lastEnqueued, unadvanced, offRuns>>
vars == <<now, tableVars, threadVars, stopEvent, historyVars, mishaps>>

TypeOK == /\ now \in Time
          /\ rows \subseteq Id
          /\ nextId \in 1 .. MaxIds + 1
          /\ enabled \in [Id -> BOOLEAN]
          /\ interval \in [Id -> Intervals \cup {0}]
          /\ nextRunAt \in [Id -> Int]
          /\ \A s \in Id : nextRunAt[s] <= MaxDate
          /\ pc \in PC
          /\ due \subseteq Id
          /\ current \in Id \cup {0}
          /\ stopEvent \in BOOLEAN
          /\ lastEnqueued \in [Id -> Time \cup {Never}]
          /\ unadvanced \in [Id -> BOOLEAN]
          /\ offRuns \in [Id -> 0 .. 2]
          /\ mishaps \in 0 .. MaxMishaps

Init == /\ now = 0
        /\ rows = {}
        /\ nextId = 1
        /\ enabled = [s \in Id |-> FALSE]
        /\ interval = [s \in Id |-> 0]
        /\ nextRunAt = [s \in Id |-> 0]
        /\ pc = "off"
        /\ due = {}
        /\ current = 0
        /\ stopEvent = FALSE
        /\ lastEnqueued = [s \in Id |-> Never]
        /\ unadvanced = [s \in Id |-> FALSE]
        /\ offRuns = [s \in Id |-> 0]
        /\ mishaps = 0

-----------------------------------------------------------------------------
\* Operations on the table

On(s) == s \in rows /\ enabled[s]

\* A new row is due at once.
create_scheduled_job(seconds, isEnabled) ==
  /\ nextId <= MaxIds
  /\ rows' = rows \cup {nextId}
  /\ enabled' = [enabled EXCEPT ![nextId] = isEnabled]
  /\ interval' = [interval EXCEPT ![nextId] = seconds]
  /\ nextRunAt' = [nextRunAt EXCEPT ![nextId] = now]
  /\ nextId' = nextId + 1
  /\ UNCHANGED <<now, threadVars, stopEvent, historyVars, mishaps>>

\* next_run_at stays what it was: a row switched on late is due at once.
set_scheduled_job_enabled(s, isEnabled) ==
  /\ s \in rows
  /\ enabled' = [enabled EXCEPT ![s] = isEnabled]
  /\ offRuns' = [offRuns EXCEPT ![s] = 0]
  /\ UNCHANGED <<now, rows, nextId, interval, nextRunAt, threadVars, stopEvent,
                 lastEnqueued, unadvanced, mishaps>>

delete_scheduled_job(s) ==
  /\ s \in rows
  /\ rows' = rows \ {s}
  /\ enabled' = [enabled EXCEPT ![s] = FALSE]
  /\ nextRunAt' = [nextRunAt EXCEPT ![s] = 0]
  /\ UNCHANGED <<now, nextId, interval, threadVars, stopEvent,
                 historyVars, mishaps>>

-----------------------------------------------------------------------------
\* The loop

Mishap == mishaps < MaxMishaps /\ mishaps' = mishaps + 1

\* _run_loop tests the stop event only here, between two rounds.
LoopTop ==
  /\ pc = "loop"
  /\ pc' = IF stopEvent THEN "off" ELSE "check"
  /\ UNCHANGED <<now, due, current, tableVars, stopEvent, historyVars, mishaps>>

\* The WHERE of _due_scheduled_jobs (Bug: enabled is not looked at).
BugSelected(s) == s \in rows /\ nextRunAt[s] <= now
Selected(s)    == s \in rows /\ enabled[s] /\ nextRunAt[s] <= now

Check ==
  /\ pc = "check"
  /\ due' = {s \in Id : Selected(s)}
  /\ pc' = IF due' = {} THEN "asleep" ELSE "trigger"
  /\ UNCHANGED <<now, current, tableVars, stopEvent, historyVars, mishaps>>

\* The first half of _trigger: enqueue_job for the next row of the snapshot,
\* in the order of ids, whatever became of the row since the snapshot.
Enqueue(s) ==
  /\ pc = "trigger"
  /\ s \in due
  /\ \A r \in due : s <= r
  /\ current' = s
  /\ due' = due \ {s}
  /\ pc' = "advance"
  /\ lastEnqueued' = [lastEnqueued EXCEPT ![s] = now]
  /\ unadvanced' = [unadvanced EXCEPT ![s] = TRUE]
  /\ offRuns' = [offRuns EXCEPT ![s] = IF On(s) \/ @ = 2 THEN @ ELSE @ + 1]
  /\ UNCHANGED <<now, tableVars, stopEvent, mishaps>>

\* The next run, from the clock and not from the run that was due
\* (Bug: from the run that was due).
BugNextRun(s) == nextRunAt[s] + interval[s]
NextRun(s)    == now + interval[s]

\* datetime.fromtimestamp() fails beyond year 9999 (Bug: any date is stored).
BugOverflows(s) == FALSE
Overflows(s)    == NextRun(s) > MaxDate

\* On to the next row of the snapshot (Bug: to the sleep, after one row).
BugEndTrigger == pc' = "asleep" /\ due' = {} /\ current' = 0

EndTrigger == /\ current' = 0
              /\ pc' = IF due = {} THEN "asleep" ELSE "trigger"
              /\ UNCHANGED due

\* The second half of _trigger: an UPDATE, of no row if it was deleted.
Advance ==
  /\ pc = "advance"
  /\ ~Overflows(current)
  /\ nextRunAt' = IF current \in rows
                    THEN [nextRunAt EXCEPT ![current] = NextRun(current)]
                    ELSE nextRunAt
  /\ unadvanced' = [unadvanced EXCEPT ![current] = FALSE]
  /\ EndTrigger
  /\ UNCHANGED <<now, rows, nextId, enabled, interval, stopEvent, lastEnqueued,
                 offRuns, mishaps>>

\* An exception anywhere in a round ends the round: the rest of the snapshot
\* is dropped, and looked for again after the sleep.
EndRound == pc' = "asleep" /\ due' = {} /\ current' = 0

AdvanceOverflows ==
  /\ pc = "advance"
  /\ Overflows(current)
  /\ EndRound
  /\ UNCHANGED <<now, tableVars, stopEvent, historyVars, mishaps>>

DbFault ==
  /\ pc \in {"check", "trigger", "advance"}
  /\ Mishap
  /\ EndRound
  /\ UNCHANGED <<now, tableVars, stopEvent, historyVars>>

\* The end of time.sleep(check_interval)
Wake ==
  /\ pc = "asleep"
  /\ pc' = "loop"
  /\ UNCHANGED <<now, due, current, tableVars, stopEvent, historyVars, mishaps>>

-----------------------------------------------------------------------------
\* start(), stop(), the process and the clock

Alive == pc # "off"

\* start(): refused, and the stop event left as it is, while the thread lives.
start == /\ ~Alive
         /\ stopEvent' = FALSE
         /\ pc' = "loop"
         /\ UNCHANGED <<now, due, current, tableVars, historyVars, mishaps>>

\* stop() sets the event; its join() may time out, so nothing follows from its
\* return about the thread.
stop == /\ stopEvent' = TRUE
        /\ UNCHANGED <<now, tableVars, threadVars, historyVars, mishaps>>

\* The process dies: the thread and its snapshot are gone, the table stays.
Crash ==
  /\ Mishap
  /\ pc' = "off"
  /\ due' = {}
  /\ current' = 0
  /\ stopEvent' = FALSE
  /\ UNCHANGED <<now, tableVars, historyVars>>

Tick == /\ now < MaxTime
        /\ now' = now + 1
        /\ UNCHANGED <<tableVars, threadVars, stopEvent, historyVars, mishaps>>

-----------------------------------------------------------------------------
Edit == \/ \E i \in Intervals, b \in BOOLEAN : create_scheduled_job(i, b)
        \/ \E s \in Id, b \in BOOLEAN : set_scheduled_job_enabled(s, b)
        \/ \E s \in Id : delete_scheduled_job(s)

Loop == \/ LoopTop \/ Check \/ Advance \/ AdvanceOverflows \/ Wake
        \/ \E s \in Id : Enqueue(s)

Next == Edit \/ Loop \/ DbFault \/ start \/ stop \/ Crash \/ Tick

Spec == Init /\ [][Next]_vars

\* The thread is scheduled and its sleeps end.
FairSpec == Spec /\ WF_vars(Loop)

-----------------------------------------------------------------------------
\* Properties

\* A schedule is never run twice within its interval, neither after a late
\* round nor to catch up with a downtime, unless the move of next_run_at after
\* the run before was lost to an error or a crash: runs repeat, never pile up.
RunsAreSpaced ==
  [][\A s \in Id : Enqueue(s) => \/ lastEnqueued[s] = Never
                                 \/ now >= lastEnqueued[s] + interval[s]
                                 \/ unadvanced[s]]_vars

\* Once a schedule is switched off or deleted, the snapshot that still holds it
\* can run it one more time, and never twice.
OneLateRunAtMost == \A s \in Id : offRuns[s] <= 1

IsDue(s) == On(s) /\ nextRunAt[s] <= now

\* A schedule that is due is run, whatever the errors and crashes before and
\* whatever happens to the other schedules of its round, as long as no row has
\* an interval that leads out of the calendar: such a row ends every round.
Poisoned == \E s \in rows : enabled[s] /\ MaxTime + interval[s] > MaxDate

DueIsRun ==
  <>[](Alive /\ ~stopEvent /\ ~Poisoned)
    => \A s \in Id : IsDue(s) /\ interval[s] > 0 ~> ~IsDue(s)
=============================================================================
