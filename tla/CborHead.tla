------------------------------ MODULE CborHead ------------------------------
(***************************************************************************)
(* The head of a CBOR item: one byte of major type and descriptor, then    *)
(* the 0, 1, 2, 4 or 8 bytes of argument the descriptor announces.  The    *)
(* encoder's shortest-form ladder (cbor-core/src/encoder.rs) and the       *)
(* parser's decomposition (cbor-ffi/src/parser.rs) share this module.      *)
(*                                                                         *)
(* The split of a byte is a parameter so that small alphabets can be       *)
(* checked: the code's values are Descriptors = 32, Value8Bit = 24,        *)
(* Value64Bit = 27, hence ByteBase = 256 and the break byte is 16rff.      *)
(***************************************************************************)
EXTENDS Integers

CONSTANTS
  Descriptors,   \* descriptors per major type (SMALL_VALUE_MASK + 1)
  Value8Bit,     \* first descriptor whose argument follows the head byte
  Value64Bit     \* last one; those between it and the largest are reserved

ASSUME DescriptorsAssumption ==
  /\ Descriptors \in Nat /\ Value8Bit \in Nat /\ Value64Bit \in Nat
  /\ 0 < Value8Bit /\ Value8Bit <= Value64Bit
  /\ Value64Bit <= Value8Bit + 3
  /\ Value64Bit < Descriptors - 1 /\ Descriptors <= Value8Bit + 8

ByteBase == 8 * Descriptors
Byte == 0 .. ByteBase - 1

IndefiniteLength == Descriptors - 1
BreakByte == 7 * Descriptors + IndefiniteLength

(* The major type and the descriptor of a head byte. *)
Major(byte) == byte \div Descriptors
Descriptor(byte) == byte % Descriptors

MajorName == << "uint", "negative", "bytes", "text", "array", "map", "tag", "simple" >>
MajorOf(byte) == MajorName[Major(byte) + 1]
StringMajors == {"bytes", "text"}
ContainerMajors == {"array", "map"}

(* Bytes of argument after a head byte with this descriptor; a reserved    *)
(* one has none, but the code shifts on when a moved cursor stands there.  *)
BytesNeeded(descriptor) ==
  IF descriptor < Value8Bit THEN 0
  ELSE << 1, 2, 4, 8, 16, 32, 64, 128 >>[descriptor - Value8Bit + 1]

(* Big-endian load of `len` bytes of `buf` at position p. *)
Load1(buf, p) == buf[p]
Load2(buf, p) == Load1(buf, p) * ByteBase + Load1(buf, p + 1)
Load4(buf, p) == Load2(buf, p) * (ByteBase * ByteBase) + Load2(buf, p + 2)
Load8(buf, p) ==
  Load4(buf, p) * (ByteBase * ByteBase * ByteBase * ByteBase) + Load4(buf, p + 4)
BeLoad(buf, p, len) ==
  CASE len = 1 -> Load1(buf, p)
    [] len = 2 -> Load2(buf, p)
    [] len = 4 -> Load4(buf, p)
    [] len = 8 -> Load8(buf, p)

(* The argument of the head at p: the descriptor itself, or what follows it. *)
Argument(buf, p) ==
  LET d == Descriptor(buf[p])
  IN  IF d < Value8Bit THEN d ELSE BeLoad(buf, p + 1, BytesNeeded(d))

(* Length of the shortest head that carries `value`. *)
HeadSize(value) ==
  IF value < Value8Bit THEN 1
  ELSE IF value < ByteBase THEN 2
  ELSE IF value < ByteBase * ByteBase THEN 3
  ELSE IF value < ByteBase * ByteBase * ByteBase * ByteBase THEN 5
  ELSE 9
=============================================================================
