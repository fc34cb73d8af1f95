\* One worker, no job, no fault: start() during the tail of a stop().
CONSTANTS
  Workers = {w1}
  MaxJobs = 1
  MaxFaults = 0
  MaxCrashes = 0
SPECIFICATION Spec
INVARIANT StartedIsRunning
