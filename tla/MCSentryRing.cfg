SPECIFICATION Spec
CONSTANTS
  Size = 3
  Levels = 3
  Fields = {src, data}
  MaxReports = 7
INVARIANTS
  RecordsAreWhole
  ReportsAreKept
CHECK_DEADLOCK FALSE
