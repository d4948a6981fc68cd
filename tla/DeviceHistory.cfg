SPECIFICATION LiveSpec
CONSTANTS
  Jobs <- TwoJobs
  NoJob = 0
  Total = 2
  Failing <- FirstStock
  Found <- SecondFound
  HasUniverse = TRUE
  ChunkRows = 3
  Mishaps <- AnyMishap
  Lag = 0
  UserDeletes = "left"
CHECK_DEADLOCK FALSE
INVARIANTS
  StreamedRowsAreOwn
  FinalizedIsWhole
  ReceivedIsRecorded
PROPERTIES
  ResultIsStored
