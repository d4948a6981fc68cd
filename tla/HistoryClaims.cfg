\* Claims of comments that do not hold: leave in the one in question.
SPECIFICATION LiveSpec
CONSTANTS
  Jobs <- TwoJobs
  NoJob = 0
  Total = 2
  Failing <- FirstStock
  Found <- SecondFound
  HasUniverse = TRUE
  ChunkRows = 3
  Mishaps <- AnyMishap
  Lag = 0
  UserDeletes = "left"   \* "any" for FinalizedIsWhole
CHECK_DEADLOCK FALSE
INVARIANTS
  NoSignalMeansNone
  \* FinalizedIsWhole
PROPERTIES
  \* EndedStaysEnded
  \* StoppedIsRecorded
