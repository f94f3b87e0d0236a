SPECIFICATION Spec
CONSTANTS
  LateBound = 4
INVARIANTS
  SpinsUnpowered
CHECK_DEADLOCK FALSE
