\* Two workers race for three jobs; two database faults and one crash.
CONSTANTS
  Workers = {w1, w2}
  MaxJobs = 3
  MaxFaults = 2
  MaxCrashes = 1
SYMMETRY WorkerSymmetry
SPECIFICATION Spec
INVARIANTS
  TypeOK
  ExclusiveClaim
  HonestStatus
  OrphanOnlyByMishap
PROPERTY
  ImplementsLedger
