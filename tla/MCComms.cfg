SPECIFICATION Spec
CONSTANTS
  BufferSize = 4
  SizesSize = 2
  InputSize = 2
  Lengths = {0, 1, 2, 3}
  Faults = {"overrun", "dma", "restart", "transmit"}
  MaxMessages = 3
INVARIANTS
  TypeOK
  RepliesInOrder
  StopsForCause
  DamageIsLocal
PROPERTIES
  DeliversMessages
  Answered
  CallEnds
CHECK_DEADLOCK FALSE
