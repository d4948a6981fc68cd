SPECIFICATION ScanSafety
CONSTANTS
  j1 = j1
  j2 = j2
  d1 = d1
  d2 = d2
  s1 = s1
  s2 = s2
  aGroup = aGroup
  expiry = expiry
  NoDevice = NoDevice
  NoType = NoType
  NoJob = NoJob
  JobIds <- TwoJobs
  Devices <- OneDevice
  Stocks <- OneStock
  ScanTypes <- AGroupOnly
  ThreadedTypes <- AGroupOnly
  UniverseOptionalTypes <- NoTypes
  ScripMasterAtStart <- Missing
  WorkMayRaise = FALSE
  FetchPermits = 1
  MaxConcurrentJobs = 2
  MaxCompletedRetained = 1
CHECK_DEADLOCK FALSE
INVARIANT
  OnlyRequestedCancellation
