\* Claims of docstrings that do not hold: TLC stops at the first one, so leave in
\* the one in question.
SPECIFICATION ScanSafety
CONSTANTS
  j1 = j1
  j2 = j2
  d1 = d1
  d2 = d2
  s1 = s1
  s2 = s2
  aGroup = aGroup
  expiry = expiry
  NoDevice = NoDevice
  NoType = NoType
  NoJob = NoJob
  JobIds <- TwoJobs
  Devices <- OneDevice
  Stocks <- TwoStocks
  ScanTypes <- AGroupOnly
  ThreadedTypes <- AGroupOnly
  UniverseOptionalTypes <- NoTypes
  ScripMasterAtStart <- Kept
  WorkMayRaise = TRUE
  FetchPermits = 1
  MaxConcurrentJobs = 1
  MaxCompletedRetained = 1
CHECK_DEADLOCK FALSE
INVARIANTS
  BadSymbolNeverFailsScan
  \* CacheOnlyFromSuccess
  \* WorkingJobsCapped
  \* PermitsOnlyForFetches
