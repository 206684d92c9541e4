SPECIFICATION Spec
CONSTANTS
  Descriptors = 11
  Value8Bit = 5
  Value64Bit = 8
  U32Max = 7
  ExtraBytes = 2
  HalfExponent = 2
  HalfMantissa = 2
  SingleExponent = 4
  SingleMantissa = 4
  DoubleExponent = 4
  DoubleMantissa = 6
  QuoteByte = 2
  NotUtf8 = {3}
  WholeLimit = 128
  NEGATIVE_BIGNUM = 1
  EXPECTED_BASE64 = 2
  EXPECTED_BASE16 = 3
  DUMP_RECURSIONS = 5
  NESTING_LIMIT = 3
  IntMax = 88
  MaxCounted = 2
  Growth = 4
  Documents = {}
  Dumps <- MCDumps
  Pipes = {}
  Texts = {}
INVARIANT DecodedFirst
CHECK_DEADLOCK FALSE
