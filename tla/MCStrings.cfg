SPECIFICATION Spec
CONSTANTS
  Descriptors = 7
  Value8Bit = 3
  Value64Bit = 4
  U32Max = 5
  ExtraBytes = 1
  Documents <- MCDocuments
  Capacities = {0, 1, 2, 3}
  Expected <- MCExpected
  Room = 10
INVARIANTS TypeOK WritesOwnedOnly AnswerExact EqualsExact NextExact
CHECK_DEADLOCK FALSE
