SPECIFICATION Spec
CONSTANTS
  Descriptors = 5
  Value8Bit = 2
  Value64Bit = 3
  Buffers <- MCBuffers
  Tokens = {5}
  Writes = {"ok", "oom", "io_error"}
  Word = 16
  Lengths = {0, 2, 15}
  HeadLengths = {1, 2}
  MaxDemand = 7
  MaxDepth = 3
INVARIANTS TypeOK ShortfallExact WrittenInPlace ItemsOwedExact
PROPERTIES PrefixFinal ImplementsLedger OomIsTheWriters WriterHasLastWord
