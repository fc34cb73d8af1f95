\* Two workers, two jobs, one database fault and one crash, fair threads.
CONSTANTS
  Workers = {w1, w2}
  MaxJobs = 2
  MaxFaults = 1
  MaxCrashes = 1
SPECIFICATION FairSpec
PROPERTIES
  ClaimedIsClosed
  QueuedIsTaken
  StopTakesEffect
