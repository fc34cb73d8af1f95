\* Two schedules among a zero, a short and an impossible interval;
\* one database error or crash.
CONSTANTS
  MaxIds = 2
  Intervals = {0, 2, 9}
  MaxTime = 3
  MaxDate = 6
  MaxMishaps = 1
SPECIFICATION FairSpec
INVARIANTS
  TypeOK
  OneLateRunAtMost
PROPERTIES
  RunsAreSpaced
  DueIsRun
