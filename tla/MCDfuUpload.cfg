SPECIFICATION Spec
CONSTANTS
  Images = {"missing", "odd", "part", "whole", "full", "over"}
  Size <- MCSize
  Missing = "missing"
  Word = 2
  Step = 4
  Blocks = 3
  ByteValues = 8
  Adrift = 2
  MaxRuns = 3
INVARIANTS
  TypeOK
  UploadComplete
  FailsForCause
  NeverMixed
PROPERTIES
  RunEnds
CHECK_DEADLOCK FALSE
