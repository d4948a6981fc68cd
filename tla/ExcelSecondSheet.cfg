SPECIFICATION Spec
CONSTANTS
  morning = morning
  manual = manual
  Scans <- MCScans
  History = History
  Nobody = Nobody
  MaxNames = 4
  MaxPerRequest = 1
  GiveUpAfter = 1
  MaxRows <- MCMaxRows
  Faults = 1
CHECK_DEADLOCK FALSE
INVARIANT
  OneSheetPerScan
