SPECIFICATION ScanSpec
CONSTANTS
  Descriptors = 7
  Value8Bit = 3
  Value64Bit = 4
  U32Max = 5
  ExtraBytes = 1
  FAST_SCAN_DEPTH = 2
  Documents <- MCDocuments
INVARIANTS ScanTypeOK LevelsCoherent RightOrAbsent PresentIfShallow
PROPERTY ScanEnds
CHECK_DEADLOCK FALSE
