SPECIFICATION Spec
CONSTANTS
  LateBound = 4
INVARIANTS
  StoppedWhenInoperable
  SpinShowsRed
  VrefOffWhenStopped
  LateWritesBounded
PROPERTIES
  InoperableStops
CHECK_DEADLOCK FALSE
