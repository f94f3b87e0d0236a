SPECIFICATION PoolerSpec
CONSTANTS
  Sequence <- ADC_CURR_POS_VCC_SEQUENCE
  N = 3
  MayFail = TRUE
INVARIANTS
  ValuesBelong
  InoperableForCause
  ReadingsOfThisTurn
  LossIsReported
PROPERTIES
  ChannelsServed
CHECK_DEADLOCK FALSE
