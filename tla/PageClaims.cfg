SPECIFICATION Spec
CONSTANTS
  j1 = j1
  j2 = j2
  me = me
  cupBreakout = cupBreakout
  c1 = c1
  c2 = c2
  NoDevice = NoDevice
  NoType = NoType
  NoJob = NoJob
  JobIds <- TwoJobs
  Devices <- Me
  ScanTypes <- OneType
  ThisType = cupBreakout
  ThisDevice = me
  Total = 1
  Signals <- OneStock
  Clicks <- OneClick
  StartAttempts = 2
  Mishaps <- AnyMishap
  MishapLimit = 0
  MaxConcurrentJobs = 2
  MaxCompletedRetained = 2
CHECK_DEADLOCK FALSE
SYMMETRY Symmetry
INVARIANT
  StopIsFinal
