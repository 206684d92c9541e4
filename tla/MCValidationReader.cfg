SPECIFICATION Spec
CONSTANTS
  Descriptors = 11
  Value8Bit = 5
  Value64Bit = 8
  U32Max = 5
  ExtraBytes = 2
  MAX_RECURSIONS = 3
  Undefined = 2
  Assigned = {1, 2}
  KnownTags <- MCKnownTags
  TagTiers <- MCTagTiers
  NotUtf8 = {65}
  HalfExponent = 2
  HalfMantissa = 2
  SingleExponent = 4
  SingleMantissa = 3
  DoubleExponent = 4
  DoubleMantissa = 4
  FlagSets <- MCFlagSets
  Documents <- MCDocuments
INVARIANT UniqueKeysOverCallbacks
CHECK_DEADLOCK FALSE
