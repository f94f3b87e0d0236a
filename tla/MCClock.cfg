SPECIFICATION ClockSpec
CONSTANTS
  Period = 2
  MaxWraps = 2
INVARIANTS
  ReturnsInstant
PROPERTIES
  CallEnds
CHECK_DEADLOCK FALSE
