SPECIFICATION LiveSpec
CONSTANTS
  j1 = j1
  j2 = j2
  me = me
  cupBreakout = cupBreakout
  c1 = c1
  c2 = c2
  NoDevice = NoDevice
  NoType = NoType
  NoJob = NoJob
  JobIds <- OneJob
  Devices <- Me
  ScanTypes <- OneType
  ThisType = cupBreakout
  ThisDevice = me
  Total = 1
  Signals <- OneStock
  Clicks <- OneClick
  StartAttempts = 1
  Mishaps <- LostOrRestart
  MishapLimit = 2
  MaxConcurrentJobs = 2
  MaxCompletedRetained = 2
CHECK_DEADLOCK FALSE
PROPERTIES
  FollowedResultArrives
  RunningEnds
