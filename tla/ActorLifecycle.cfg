SPECIFICATION FairSpec
CONSTANTS
  N = 3
  Pids = {1, 2, 3, 4, 5, 6, 7}
  MaxRuns = 2
  MaxCrashes = 2
  Faults = {"main", "follower"}
INVARIANTS TypeOK OwnQueueEach
PROPERTIES CleanEnd 
CHECK_DEADLOCK FALSE
