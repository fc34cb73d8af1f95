---------------------------- MODULE SchedulerProofs ----------------------------
(***************************************************************************)
(* Proofs about Scheduler for any number of schedules, any intervals and   *)
(* any bounds on time and mishaps.                                         *)
(***************************************************************************)
EXTENDS Scheduler, TLAPS

\* An id that was not given yet has no past.
Unborn(s) == s >= nextId => /\ s \notin rows /\ s \notin due
                            /\ offRuns[s] = 0 /\ lastEnqueued[s] = Never

\* The late run of a schedule takes it out of the snapshot, and no other snapshot
\* takes it in while it is off.
LateRun(s) == offRuns[s] = 0 \/ (offRuns[s] = 1 /\ ~On(s) /\ s \notin due)

\* The interval since the last run is over, or the run was lost.
Apart(s, t) == lastEnqueued[s] # Never /\ ~unadvanced[s] => t >= lastEnqueued[s] + interval[s]

Spaced(s) == /\ s \in rows => Apart(s, nextRunAt[s])
             /\ s \in due => Apart(s, now)
             /\ lastEnqueued[s] <= now

Triggering == pc = "advance" => current \in Id /\ current \notin due

IInv == /\ TypeOK
        /\ Triggering
        /\ \A s \in Id : Unborn(s) /\ LateRun(s) /\ Spaced(s)

-----------------------------------------------------------------------------
\* Types

LEMMA TypeInit == Init => TypeOK
<1> SUFFICES ASSUME Init PROVE TypeOK
    OBVIOUS
<1>1. now \in Time /\ nextId \in 1 .. MaxIds + 1 /\ mishaps \in 0 .. MaxMishaps
  BY SchedulerAssumption DEF Init, Time
<1>2. nextRunAt \in [Id -> Int] /\ \A s \in Id : nextRunAt[s] <= MaxDate
  BY SchedulerAssumption DEF Init
<1>3. offRuns \in [Id -> 0 .. 2] /\ lastEnqueued \in [Id -> Time \cup {Never}]
  BY DEF Init
<1> QED BY <1>1, <1>2, <1>3 DEF Init, TypeOK, PC

LEMMA Numbers ==
  ASSUME TypeOK
  PROVE  /\ now \in Int
         /\ \A s \in Id : interval[s] \in Int /\ nextRunAt[s] \in Int /\ lastEnqueued[s] \in Int
<1>1. now \in Int
  BY DEF TypeOK, Time
<1>2. ASSUME NEW s \in Id PROVE interval[s] \in Int
  <2>1. interval[s] \in Intervals \cup {0}
    BY DEF TypeOK
  <2>2. \A i \in Intervals : i \in Int
    BY SchedulerAssumption
  <2>3. CASE interval[s] = 0
    BY <2>3
  <2> QED BY <2>1, <2>2, <2>3
<1>3. ASSUME NEW s \in Id PROVE lastEnqueued[s] \in Int
  <2>1. lastEnqueued[s] \in Time \cup {Never}
    BY DEF TypeOK
  <2> QED BY <2>1 DEF Time, Never
<1> QED BY <1>1, <1>2, <1>3 DEF TypeOK

LEMMA TypeEdit ==
  ASSUME TypeOK, Edit
  PROVE  TypeOK'
<1> USE SchedulerAssumption DEF TypeOK, threadVars, historyVars
<1>1. ASSUME NEW i \in Intervals, NEW b \in BOOLEAN, create_scheduled_job(i, b) PROVE TypeOK'
  <2>1. nextId \in Id
    BY <1>1 DEF create_scheduled_job, Id
  <2>2. nextId + 1 \in 1 .. MaxIds + 1
    BY <2>1 DEF Id
  <2>3. nextRunAt' \in [Id -> Int] /\ \A s \in Id : nextRunAt'[s] <= MaxDate
    BY <1>1, <2>1 DEF create_scheduled_job, Time
  <2> QED BY <1>1, <2>1, <2>2, <2>3 DEF create_scheduled_job
<1>2. ASSUME NEW s \in Id, NEW b \in BOOLEAN, set_scheduled_job_enabled(s, b) PROVE TypeOK'
  BY <1>2 DEF set_scheduled_job_enabled
<1>3. ASSUME NEW s \in Id, delete_scheduled_job(s) PROVE TypeOK'
  BY <1>3 DEF delete_scheduled_job
<1> QED BY <1>1, <1>2, <1>3 DEF Edit

LEMMA TypeLoop ==
  ASSUME TypeOK, Triggering, Loop
  PROVE  TypeOK'
<1> USE SchedulerAssumption DEF TypeOK, tableVars, historyVars, PC
<1>1. CASE LoopTop \/ Wake
  BY <1>1 DEF LoopTop, Wake
<1>2. CASE Check
  BY <1>2 DEF Check
<1>3. ASSUME NEW s \in Id, Enqueue(s) PROVE TypeOK'
  <2>1. offRuns' \in [Id -> 0 .. 2]
    BY <1>3 DEF Enqueue
  <2> QED BY <1>3, <2>1 DEF Enqueue
<1>4. CASE Advance
  <2>1. nextRunAt' \in [Id -> Int] /\ \A s \in Id : nextRunAt'[s] <= MaxDate
    <3>1. CASE current \in rows
      <4>1. current \in Id /\ NextRun(current) \in Int /\ NextRun(current) <= MaxDate
        <5>1. current \in Id
          BY <1>4 DEF Advance, Triggering
        <5> QED BY <1>4, <5>1, Numbers DEF Advance, Overflows, NextRun
      <4> QED BY <1>4, <3>1, <4>1 DEF Advance
    <3>2. CASE current \notin rows
      BY <1>4, <3>2 DEF Advance
    <3> QED BY <3>1, <3>2
  <2> QED BY <1>4, <2>1 DEF Advance, EndTrigger
<1>5. CASE AdvanceOverflows
  BY <1>5 DEF AdvanceOverflows, EndRound
<1> QED BY <1>1, <1>2, <1>3, <1>4, <1>5 DEF Loop

LEMMA TypeAround ==
  ASSUME TypeOK, DbFault \/ start \/ stop \/ Crash \/ Tick
  PROVE  TypeOK'
<1> USE SchedulerAssumption DEF TypeOK, tableVars, threadVars, historyVars, PC
<1>1. CASE DbFault
  BY <1>1 DEF DbFault, Mishap, EndRound
<1>2. CASE start \/ stop
  BY <1>2 DEF start, stop
<1>3. CASE Crash
  <2>1. mishaps' \in 0 .. MaxMishaps
    BY <1>3 DEF Crash, Mishap
  <2> QED BY <1>3, <2>1 DEF Crash
<1>4. CASE Tick
  BY <1>4 DEF Tick, Time
<1> QED BY <1>1, <1>2, <1>3, <1>4

-----------------------------------------------------------------------------
\* The invariant

LEMMA InvInit == Init => IInv
<1> SUFFICES ASSUME Init PROVE IInv
    OBVIOUS
<1>1. TypeOK
  BY TypeInit
<1>2. ASSUME NEW s \in Id PROVE Unborn(s) /\ LateRun(s) /\ Spaced(s)
  BY DEF Init, Unborn, LateRun, Spaced, Apart, Never, Id
<1> QED BY <1>1, <1>2 DEF Init, IInv, Triggering

LEMMA EditKeepsInv == IInv /\ Edit => IInv'
<1> SUFFICES ASSUME IInv, Edit PROVE IInv'
    OBVIOUS
<1>0. TypeOK' /\ TypeOK
  BY TypeEdit DEF IInv
<1> USE DEF IInv, threadVars, historyVars
<1>1. Triggering'
  BY DEF Triggering, Edit, create_scheduled_job, set_scheduled_job_enabled, delete_scheduled_job
<1>2. ASSUME NEW i \in Intervals, NEW b \in BOOLEAN, create_scheduled_job(i, b), NEW s \in Id
      PROVE  Unborn(s)' /\ LateRun(s)' /\ Spaced(s)'
  <2>1. nextId \in Id /\ nextId' = nextId + 1
    BY <1>0, <1>2 DEF create_scheduled_job, TypeOK, Id
  <2>2. CASE s = nextId
    BY <1>0, <1>2, <2>1, <2>2
       DEF create_scheduled_job, TypeOK, Unborn, LateRun, Spaced, Apart, Id
  <2>3. CASE s # nextId
    <3>1. /\ s \in rows' <=> s \in rows
          /\ enabled'[s] = enabled[s] /\ interval'[s] = interval[s]
          /\ nextRunAt'[s] = nextRunAt[s]
          /\ UNCHANGED <<now, due, offRuns, lastEnqueued, unadvanced>>
      BY <1>0, <1>2, <2>3 DEF create_scheduled_job, TypeOK
    <3>2. Unborn(s) /\ LateRun(s) /\ Spaced(s)
      OBVIOUS
    <3>3. s >= nextId + 1 => s >= nextId
      BY <2>1 DEF Id
    <3> QED BY <2>1, <3>1, <3>2, <3>3 DEF Unborn, LateRun, Spaced, Apart, On
  <2> QED BY <2>2, <2>3
<1>3. ASSUME NEW r \in Id, NEW b \in BOOLEAN, set_scheduled_job_enabled(r, b), NEW s \in Id
      PROVE  Unborn(s)' /\ LateRun(s)' /\ Spaced(s)'
  <2>1. /\ UNCHANGED <<now, rows, nextId, interval, nextRunAt, due, lastEnqueued, unadvanced>>
        /\ offRuns'[s] = IF s = r THEN 0 ELSE offRuns[s]
        /\ enabled'[s] = IF s = r THEN b ELSE enabled[s]
    BY <1>0, <1>3 DEF set_scheduled_job_enabled, TypeOK
  <2>2. Unborn(s) /\ LateRun(s) /\ Spaced(s)
    OBVIOUS
  <2> QED BY <2>1, <2>2 DEF Unborn, LateRun, Spaced, Apart, On
<1>4. ASSUME NEW r \in Id, delete_scheduled_job(r), NEW s \in Id
      PROVE  Unborn(s)' /\ LateRun(s)' /\ Spaced(s)'
  <2>1. /\ UNCHANGED <<now, nextId, interval, due, lastEnqueued, unadvanced, offRuns>>
        /\ s = r => s \notin rows'
        /\ s # r => /\ s \in rows' <=> s \in rows
                    /\ nextRunAt'[s] = nextRunAt[s] /\ enabled'[s] = enabled[s]
    BY <1>0, <1>4 DEF delete_scheduled_job, TypeOK
  <2>2. Unborn(s) /\ LateRun(s) /\ Spaced(s)
    OBVIOUS
  <2> QED BY <2>1, <2>2 DEF Unborn, LateRun, Spaced, Apart, On
<1> QED BY <1>0, <1>1, <1>2, <1>3, <1>4 DEF Edit

LEMMA LoopKeepsInv == IInv /\ Loop => IInv'
<1> SUFFICES ASSUME IInv, Loop PROVE IInv'
    OBVIOUS
<1>0. TypeOK' /\ TypeOK
  BY TypeLoop DEF IInv
<1> USE DEF IInv, tableVars, historyVars
<1>1. CASE LoopTop \/ Wake
  BY <1>0, <1>1 DEF LoopTop, Wake, Triggering, Unborn, LateRun, Spaced, Apart, On
<1>2. CASE Check
  <2>1. /\ UNCHANGED <<now, rows, nextId, enabled, interval, nextRunAt, lastEnqueued, unadvanced,
                       offRuns>>
        /\ due' = {s \in Id : s \in rows /\ enabled[s] /\ nextRunAt[s] <= now}
        /\ pc' # "advance"
    BY <1>2 DEF Check, Selected
  <2>2. ASSUME NEW s \in Id PROVE Unborn(s)' /\ LateRun(s)' /\ Spaced(s)'
    <3>1. Unborn(s) /\ LateRun(s) /\ Spaced(s)
      OBVIOUS
    <3>2. s \in due' => Apart(s, now)
      <4>1. /\ now \in Int /\ nextRunAt[s] \in Int /\ lastEnqueued[s] \in Int
            /\ interval[s] \in Int
        BY <1>0, Numbers
      <4> QED BY <2>1, <3>1, <4>1 DEF Spaced, Apart
    <3> QED BY <2>1, <3>1, <3>2 DEF Unborn, LateRun, Spaced, Apart, On
  <2> QED BY <1>0, <2>1, <2>2 DEF Triggering
<1>3. ASSUME NEW r \in Id, Enqueue(r) PROVE IInv'
  <2>1. /\ UNCHANGED <<now, rows, nextId, enabled, interval, nextRunAt>>
        /\ r \in due /\ due' = due \ {r} /\ current' = r
    BY <1>3 DEF Enqueue
  <2>2. ASSUME NEW s \in Id PROVE Unborn(s)' /\ LateRun(s)' /\ Spaced(s)'
    <3>1. Unborn(s) /\ LateRun(s) /\ Spaced(s)
      OBVIOUS
    <3>2. CASE s = r
      <4>1. /\ lastEnqueued'[s] = now /\ unadvanced'[s] = TRUE
            /\ offRuns'[s] = IF On(s) \/ offRuns[s] = 2 THEN offRuns[s] ELSE offRuns[s] + 1
        BY <1>0, <1>3, <3>2 DEF Enqueue, TypeOK
      <4>2. offRuns[s] = 0 /\ now \in Int /\ ~(s >= nextId)
        BY <1>0, <2>1, <3>1, <3>2 DEF LateRun, Unborn, TypeOK, Time
      <4> QED BY <2>1, <3>2, <4>1, <4>2 DEF Unborn, LateRun, Spaced, Apart, On
    <3>3. CASE s # r
      <4>1. /\ lastEnqueued'[s] = lastEnqueued[s] /\ unadvanced'[s] = unadvanced[s]
            /\ offRuns'[s] = offRuns[s]
            /\ s \in due' <=> s \in due
        BY <1>0, <1>3, <2>1, <3>3 DEF Enqueue, TypeOK
      <4> QED BY <2>1, <3>1, <4>1 DEF Unborn, LateRun, Spaced, Apart, On
    <3> QED BY <3>2, <3>3
  <2> QED BY <1>0, <2>1, <2>2 DEF Triggering
<1>4. CASE Advance
  <2>1. /\ UNCHANGED <<now, rows, nextId, enabled, interval, lastEnqueued, offRuns, due>>
        /\ pc' # "advance" /\ current \in Id /\ current \notin due
    BY <1>4 DEF Advance, EndTrigger, Triggering
  <2>2. ASSUME NEW s \in Id PROVE Unborn(s)' /\ LateRun(s)' /\ Spaced(s)'
    <3>1. Unborn(s) /\ LateRun(s) /\ Spaced(s)
      OBVIOUS
    <3>2. CASE s = current
      <4>1. s \in rows => nextRunAt'[s] = now + interval[s]
        BY <1>0, <1>4, <3>2 DEF Advance, TypeOK, NextRun
      <4>2. now \in Int /\ interval[s] \in Int /\ lastEnqueued[s] \in Int
        BY <1>0, Numbers
      <4>3. lastEnqueued[s] <= now => now + interval[s] >= lastEnqueued[s] + interval[s]
        BY <4>2
      <4> QED BY <2>1, <3>1, <3>2, <4>1, <4>3 DEF Unborn, LateRun, Spaced, Apart, On
    <3>3. CASE s # current
      <4>1. nextRunAt'[s] = nextRunAt[s] /\ unadvanced'[s] = unadvanced[s]
        BY <1>0, <1>4, <3>3 DEF Advance, TypeOK
      <4> QED BY <2>1, <3>1, <4>1 DEF Unborn, LateRun, Spaced, Apart, On
    <3> QED BY <3>2, <3>3
  <2> QED BY <1>0, <2>1, <2>2 DEF Triggering
<1>5. CASE AdvanceOverflows
  BY <1>0, <1>5 DEF AdvanceOverflows, EndRound, Triggering, Unborn, LateRun, Spaced, Apart, On
<1> QED BY <1>1, <1>2, <1>3, <1>4, <1>5 DEF Loop

LEMMA AroundKeepsInv == IInv /\ (DbFault \/ start \/ stop \/ Crash \/ Tick) => IInv'
<1> SUFFICES ASSUME IInv, DbFault \/ start \/ stop \/ Crash \/ Tick PROVE IInv'
    OBVIOUS
<1>0. TypeOK' /\ TypeOK
  BY TypeAround DEF IInv
<1> USE DEF IInv, tableVars, threadVars, historyVars
<1>1. CASE DbFault \/ Crash
  BY <1>0, <1>1 DEF DbFault, Crash, EndRound, Triggering, Unborn, LateRun, Spaced, Apart, On
<1>2. CASE start \/ stop
  BY <1>0, <1>2 DEF start, stop, Triggering, Unborn, LateRun, Spaced, Apart, On
<1>3. CASE Tick
  <2>1. /\ UNCHANGED <<rows, nextId, enabled, interval, nextRunAt, pc, due, current, lastEnqueued,
                       unadvanced, offRuns>>
        /\ now' = now + 1
    BY <1>3 DEF Tick
  <2>2. ASSUME NEW s \in Id PROVE Spaced(s)'
    <3>1. now \in Int /\ interval[s] \in Int /\ lastEnqueued[s] \in Int /\ Spaced(s)
      BY <1>0, Numbers
    <3> QED BY <2>1, <3>1 DEF Spaced, Apart
  <2> QED BY <1>0, <2>1, <2>2 DEF Triggering, Unborn, LateRun, On
<1> QED BY <1>1, <1>2, <1>3

LEMMA InvStep == IInv /\ [Next]_vars => IInv'
<1>1. ASSUME IInv, UNCHANGED vars PROVE IInv'
  BY <1>1 DEF vars, tableVars, threadVars, historyVars, IInv, TypeOK, Triggering, Unborn, LateRun,
              Spaced, Apart, On
<1> QED BY <1>1, EditKeepsInv, LoopKeepsInv, AroundKeepsInv DEF Next

LEMMA Invariance == Spec => []IInv
  BY InvInit, InvStep, PTL DEF Spec

-----------------------------------------------------------------------------
\* The clock, the table, the thread and the histories keep their types, and no row
\* gets a next run beyond the calendar.
THEOREM TypeCorrect == Spec => []TypeOK
  BY Invariance, PTL DEF IInv

\* A schedule that is switched off or deleted runs at most once more.
THEOREM LateRunsAreSingle == Spec => []OneLateRunAtMost
<1>1. IInv => OneLateRunAtMost
  BY DEF IInv, LateRun, OneLateRunAtMost
<1> QED BY <1>1, Invariance, PTL

\* Runs are an interval apart unless the move of next_run_at was lost.
THEOREM RunsKeepTheirDistance == Spec => RunsAreSpaced
<1> DEFINE Distance == \A s \in Id : Enqueue(s) => \/ lastEnqueued[s] = Never
                                                   \/ now >= lastEnqueued[s] + interval[s]
                                                   \/ unadvanced[s]
<1>1. IInv => Distance
  BY DEF IInv, Spaced, Apart, Enqueue
<1> QED BY <1>1, Invariance, PTL DEF RunsAreSpaced
=============================================================================
