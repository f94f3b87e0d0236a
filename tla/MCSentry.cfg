SPECIFICATION Spec
CONSTANTS
  Sentries = {adc, uart}
  InopSize = 2
  DegrSize = 2
  max_eid = 1
  Eids = {0, 1, 4}
  Sets = {{0}}
  MaxReports = 4
INVARIANTS
  StoppedOnceWhenInoperable
  DegradedIsReported
CHECK_DEADLOCK FALSE
