SPECIFICATION Spec
CONSTANTS
  Governors = {"power", "current", "position"}
  Unknown = "unknown"
  Null = Null
  Positions = {0, 2, 4}
  lim_min = 1
  lim_max = 3
INVARIANTS
  NeutralUntilCommanded
  NeverPushesOut
  ReplyTellsState
PROPERTIES
  ImplementsCtl
