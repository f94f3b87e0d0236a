SPECIFICATION Spec
CONSTANTS
  Fields <- MCFields
  Values = {0, 1}
  Default <- MCDefault
  Versions = {"old", "new"}
  Keys <- MCKeys
  Types = {"int32_t", "float"}
  Type <- MCType
  Parts = {"scale", "offset"}
  Inputs <- MCInputs
  Writes <- MCWrites
  Pages = 2
  MaxCells = 2
  Null = Null
INVARIANTS
  Applied
  BootsAsCommitted
