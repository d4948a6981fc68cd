SPECIFICATION Spec
CONSTANTS
  morning = morning
  manual = manual
  Scans <- MCScans
  History = History
  Nobody = Nobody
  MaxNames = 5
  MaxPerRequest = 1
  GiveUpAfter = 1
  MaxRows <- MCMaxRows
  Faults = 2
CHECK_DEADLOCK FALSE
INVARIANTS
  TypeOK
  NothingIsLost
  SheetsAreSound
PROPERTIES
  RowsAppear
