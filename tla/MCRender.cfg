SPECIFICATION Spec
CONSTANTS
  Descriptors = 11
  Value8Bit = 5
  Value64Bit = 8
  U32Max = 7
  ExtraBytes = 2
  HalfExponent = 2
  HalfMantissa = 2
  SingleExponent = 4
  SingleMantissa = 4
  DoubleExponent = 4
  DoubleMantissa = 5
  QuoteByte = 2
  NotUtf8 = {3}
  WholeLimit = 64
  NEGATIVE_BIGNUM = 1
  EXPECTED_BASE64 = 2
  EXPECTED_BASE16 = 3
  MAX_RECURSIONS = 2
  DUMP_RECURSIONS = 2
  MaxCalls = 2
  Int64Limit = 16
  IntLimit = 8
  Keys <- MCKeys
  Documents <- MCDocuments
  PrettyFlags <- MCPrettyFlags
  JsonFlags <- MCJsonFlags
INVARIANTS PrettyExact CursorExact AccessExact AgreesWithCbordump
CHECK_DEADLOCK FALSE
