SPECIFICATION Spec
CONSTANTS
  Descriptors = 7
  Value8Bit = 3
  Value64Bit = 4
  U32Max = 5
  ExtraBytes = 1
  FAST_SCAN_DEPTH = 1
  MAX_RECURSIONS = 2
  Documents <- MCDocuments
INVARIANTS TypeOK HeadCurrent OnCourse NoSpuriousError EndOnlyIfWellFormed
PROPERTIES AdvanceAgrees CallsReturn
CHECK_DEADLOCK FALSE
