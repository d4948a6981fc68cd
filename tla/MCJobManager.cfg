SPECIFICATION ManagerSpec
CONSTANTS
  j1 = j1
  j2 = j2
  j3 = j3
  j4 = j4
  d1 = d1
  d2 = d2
  aGroup = aGroup
  cup = cup
  JobIds <- MCJobIds
  Devices <- MCDevices
  ScanTypes <- MCScanTypes
  NoDevice = NoDevice
  NoType = NoType
  MaxConcurrentJobs = 2
  MaxCompletedRetained = 2
SYMMETRY Symmetry
CHECK_DEADLOCK FALSE
INVARIANTS
  ManagerTypeOK
  Limits
  EvictionSparesNewest
PROPERTIES
  EndedIsFinal
