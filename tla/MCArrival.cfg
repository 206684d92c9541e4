SPECIFICATION Spec
CONSTANTS
  Descriptors = 6
  Value8Bit = 4
  Value64Bit = 4
  U32Max = 7
  ExtraBytes = 2
  Documents <- MCDocuments
INVARIANTS SeesWhole
CHECK_DEADLOCK FALSE
