---------------------------- MODULE JsonEncoder ----------------------------
(***************************************************************************)
(* json2cbor's encoder (tools/json2cbor/src/encode.rs): a parsed JSON      *)
(* document becomes CBOR in a buffer with the room its text took.  With    *)
(* metadata the members that cbordump added are not written, but say what  *)
(* the members they describe were.                                         *)
(*                                                                         *)
(* The recursion of encode() is a stack of what there is left to do: a     *)
(* value, a value with its metadata, or bytes.  A string's bytes are its   *)
(* characters, one each.  Its head and its body are two appends in the     *)
(* code; of an encoder that refuses either nothing is ever written.        *)
(***************************************************************************)
EXTENDS Text

CONSTANTS
  MaxCounted,    \* the longest list with a count (255)
  Growth         \* what a double adds to the limit when it does not fit

ASSUME GrowthAssumption == Growth \in Nat \ {0} /\ MaxCounted \in Nat

VARIABLES
  out, limit,    \* the bytes written, and how many may be
  todo,          \* what is left to do, the next first
  refusal        \* the error that stopped the encoder, or "ok"

encoderVars == << out, limit, todo, refusal >>

-----------------------------------------------------------------------------
(* Big-endian payloads, and the shortest head of a value. *)
Bytes4(v) == [i \in 1 .. 4 |-> (v \div ByteBase ^ (4 - i)) % ByteBase]
BigEndian(v, n) ==
  IF n = 8 THEN Bytes4(v \div ByteBase ^ 4) \o Bytes4(v % ByteBase ^ 4)
  ELSE SubSeq(Bytes4(v), 5 - n, 4)

MajorCode(major) == (CHOOSE i \in DOMAIN MajorName : MajorName[i] = major) - 1
Initial(major, descriptor) == MajorCode(major) * Descriptors + descriptor
HeadBytes(major, v) ==
  LET n == HeadSize(v) - 1
      step == CHOOSE k \in 0 .. 4 : << 0, 1, 2, 4, 8 >>[k + 1] = n
  IN  IF n = 0 THEN << Initial(major, v) >>
      ELSE << Initial(major, Value8Bit + step - 1) >> \o BigEndian(v, n)

IntBytes(v) == IF v < 0 THEN HeadBytes("negative", -1 - v) ELSE HeadBytes("uint", v)
Written(char) == IF char = Quote THEN QuoteByte ELSE char.n % ByteBase
Body(chars) == [i \in DOMAIN chars |-> Written(chars[i])]
String(major, bytes) == HeadBytes(major, Len(bytes)) \o bytes
Float(kind, bits) ==
  LET n == CASE kind = "half" -> 2 [] kind = "float" -> 4 [] kind = "double" -> 8
  IN  << Initial("simple", Value8Bit + CASE n = 2 -> 1 [] n = 4 -> 2 [] n = 8 -> 3) >> \o BigEndian(bits, n)

(* A simple value may not claim the code of a float or of the break. *)
Reserved_BreakOnly(v) == v = IndefiniteLength
Reserved(v) == v \in Value8Bit + 1 .. IndefiniteLength

-----------------------------------------------------------------------------
(* Metadata: the tag, the type and what a number was.                      *)
NoText == Say("absent")
NoMetadata == [tag |-> 0, tagged |-> FALSE, t |-> TypeCode("invalid"), v |-> NoText, n |-> 0]
ValueInt(value) ==
  CASE value.is = "number" -> value.int [] value.is = "true" -> 1 [] OTHER -> 0

(* scan_u64 of a tag: nothing there is a failure, something that is not a  *)
(* number is taken for whatever the tag was.                               *)
ReadTag(md, text) ==
  IF text = << >> THEN md
  ELSE [md EXCEPT !.tagged = TRUE, !.tag = IF text[1].t = "integer" THEN text[1].n ELSE @]

ReadField(md, m) ==
  CASE m.name = Say("tag") -> IF m.value.is = "text" THEN ReadTag(md, m.value.text) ELSE md
    [] m.name = Say("t") -> [md EXCEPT !.t = ValueInt(m.value)]
    [] m.name = Say("v") ->
         [md EXCEPT !.v = IF m.value.is = "text" THEN m.value.text ELSE NoText,
                    !.n = IF m.value.is = "number" THEN m.value.int % ByteBase ELSE 0]
    [] OTHER -> md
ParseMetadata(found) == IF found.is = "object" THEN FoldLeft(ReadField, NoMetadata, found.members)
                        ELSE NoMetadata

(* A key of exactly "$cbor" is a key; the first member of the wanted name  *)
(* is the one found, however many there are.                               *)
Marker == Tok("$cbor")
IsMetadataKey(name) == Len(name) > 1 /\ name[Len(name)] = Marker
FindMetadata(members, name) ==
  LET named == {i \in DOMAIN members : members[i].name = Append(name, Marker)}
  IN  IF named = {} THEN [is |-> "null"] ELSE members[Min(named)].value

(* decode_base64 and decode_base16.  A group of less than three bytes also *)
(* comes out as three, its bits where the text left them.                  *)
Base64Tokens == {"base64", "base64url"}
ShortGroup(bytes) ==
  LET bits == CASE Len(bytes) = 0 -> 0
                [] Len(bytes) = 1 -> bytes[1] * 16
                [] Len(bytes) = 2 -> (bytes[1] * ByteBase + bytes[2]) * 4
  IN  IF bytes = << >> THEN << >>
      ELSE SubSeq(Bytes4(bits), 2, 4)

IsSpelled(text, tokens) == \A i \in DOMAIN text : text[i].t \in tokens
Values(text) == [i \in DOMAIN text |-> text[i].n]
Base64Bytes(text) ==
  LET full == 3 * (Len(text) \div 3)
  IN  SubSeq(Values(text), 1, full) \o ShortGroup(SubSeq(Values(text), full + 1, Len(text)))
ByteText_Whole(text, tag) == text
ByteText(text, tag) == IF tag = NEGATIVE_BIGNUM THEN SubSeq(text, 2, Len(text)) ELSE text
IsByteText(text, tag) ==
  IsSpelled(ByteText(text, tag), IF tag = EXPECTED_BASE16 THEN {"base16"} ELSE Base64Tokens)
TextBytes(text, tag) ==
  IF tag = EXPECTED_BASE16 THEN Values(text) ELSE Base64Bytes(ByteText(text, tag))

(* What a float was: in "v" if JSON has no number for it. *)
FloatWords == {NoText, Say("nan"), Say("inf"), << Tok("-"), Tok("inf") >>}
FloatOf(value, v) ==
  CASE v = Say("nan") -> QuietNaN(Double, 0)
    [] v = Say("inf") -> Infinity(Double, 0)
    [] v = << Tok("-"), Tok("inf") >> -> Infinity(Double, 1)
    [] v = NoText -> IF value.is = "number" THEN value.double ELSE 0
Narrowed(kind, double) ==
  CASE kind = "double" -> double
    [] kind = "float" -> Convert(Double, Single, double)
    [] kind = "half" -> encode(Convert(Double, Single, double))

(* An integer in hexadecimal, its sign before it.                          *)
SpelledInt(v) ==
  LET n == IF v[2].t = "hex" THEN v[2].n ELSE 0
  IN  IF v[1] = Tok("+") THEN HeadBytes("uint", n)
      ELSE HeadBytes("negative", (n + WholeLimit - 1) % WholeLimit)

-----------------------------------------------------------------------------
(* What there is to do: encode(value), encode_with_metadata(value, md),    *)
(* append(bytes).                                                          *)
Job(do, value, md, bytes, metadata) ==
  [do |-> do, value |-> value, md |-> md, bytes |-> bytes, metadata |-> metadata]
Plain(value, metadata) == Job("plain", value, NoMetadata, << >>, metadata)
Described(value, md) == Job("described", value, md, << >>, TRUE)
Put(bytes) == Job("put", [is |-> "null"], NoMetadata, bytes, FALSE)

Encoding == refusal = "ok" /\ todo # << >>
Now == todo[1]
Does(do) == Encoding /\ Now.do = do
Is(kinds) == Does("plain") /\ Now.value.is \in kinds
Was(kinds) == Does("described") /\ Now.md.t \in {TypeCode(kind) : kind \in kinds}

Refuse(err) == refusal' = err /\ UNCHANGED << out, limit, todo >>
Instead_Same(jobs) == UNCHANGED << todo, out, limit, refusal >>
Instead(jobs) == todo' = jobs \o Tail(todo) /\ UNCHANGED << out, limit, refusal >>

(* append(), with what is to follow; only a double in plain sight makes    *)
(* the limit grow.                                                         *)
Fits(bytes, room) == Len(out) + Len(bytes) <= room
Emit(bytes, jobs) ==
  IF ~Fits(bytes, limit) THEN Refuse("out_of_memory")
  ELSE /\ out' = out \o bytes /\ todo' = jobs \o Tail(todo)
       /\ UNCHANGED << limit, refusal >>

Grown(room, bytes) ==
  room + Growth * CHOOSE k \in 0 .. Len(bytes) :
                    Fits(bytes, room + k * Growth) /\ \A j \in 0 .. k - 1 : ~Fits(bytes, room + j * Growth)

-----------------------------------------------------------------------------
(* encode() *)
StaysInt(value) == FromWhole(value.int) = value.double
EncodeWord ==
  /\ Is({"false", "true", "null"})
  /\ Emit(HeadBytes("simple", Value8Bit - CASE Now.value.is = "false" -> 4
                                       [] Now.value.is = "true" -> 3
                                       [] Now.value.is = "null" -> 2), << >>)
EncodeInt == Is({"number"}) /\ StaysInt(Now.value) /\ Emit(IntBytes(Now.value.int), << >>)
EncodeDouble ==
  /\ Is({"number"}) /\ ~StaysInt(Now.value)
  /\ LET bytes == Float("double", Now.value.double)
     IN  /\ limit' = Grown(limit, bytes)
         /\ IF Fits(bytes, limit') THEN out' = out \o bytes /\ todo' = Tail(todo) /\ UNCHANGED refusal
            ELSE refusal' = "out_of_memory" /\ UNCHANGED << out, todo >>
EncodeText == Is({"text"}) /\ Emit(String("text", Body(Now.value.text)), << >>)

(* A list is opened, its members and what closes it are left to do.  With  *)
(* metadata an object has no count, as not all of its members are written. *)
Counted(members) == Len(members) <= MaxCounted
Open(major, members, counted) ==
  IF counted THEN HeadBytes(major, Len(members)) ELSE << Initial(major, IndefiniteLength) >>
Close(counted) == IF counted THEN << >> ELSE << Put(<< BreakByte >>) >>

EncodeArray ==
  /\ Is({"array"})
  /\ LET members == Now.value.members
         items == [i \in DOMAIN members |-> Plain(members[i].value, Now.metadata)]
     IN  Emit(Open("array", members, Counted(members)), items \o Close(Counted(members)))

Key(m) == Put(String("text", Body(m.name)))
DescribedMember(members, m) ==
  LET md == ParseMetadata(FindMetadata(members, m.name))
  IN  IF IsMetadataKey(m.name) THEN << >>
      ELSE << Key(m) >> \o (IF md.tagged THEN << Put(HeadBytes("tag", md.tag)) >> ELSE << >>)
             \o << Described(m.value, md) >>
EncodeObject ==
  /\ Is({"object"})
  /\ LET members == Now.value.members
         counted == ~Now.metadata /\ Counted(members)
         entries == [i \in DOMAIN members |->
                       IF Now.metadata THEN DescribedMember(members, members[i])
                       ELSE << Key(members[i]), Plain(members[i].value, FALSE) >>]
     IN  Emit(Open("map", members, counted), FlattenSeq(entries) \o Close(counted))

AppendBytes == Does("put") /\ Emit(Now.bytes, << >>)

(* encode_with_metadata(): what the metadata makes of the value, or the    *)
(* value as it stands.                                                     *)
HasInt == Was({"integer"}) /\ Now.md.v # NoText /\ Len(Now.md.v) > 1
HasBytes == Was({"bytes"}) /\ Now.value.is = "text" /\ IsByteText(Now.value.text, Now.md.tag)
HasFloat == Was(FloatKinds) /\ Now.md.v \in FloatWords

RestoreInt == HasInt /\ Emit(SpelledInt(Now.md.v), << >>)
RestoreBytes ==
  HasBytes /\ Emit(String("bytes", TextBytes(Now.value.text, Now.md.tag)), << >>)
RestoreSimple ==
  /\ Was({"simple"})
  /\ IF Reserved(Now.md.n) THEN Refuse("illegal_simple_type") ELSE Emit(HeadBytes("simple", Now.md.n), << >>)
RestoreUndefined == Was({"undefined"}) /\ Emit(HeadBytes("simple", Value8Bit - 1), << >>)
RestoreFloat ==
  /\ HasFloat
  /\ LET kind == TypeNames[Now.md.t + 1]
     IN  Emit(Float(kind, Narrowed(kind, FloatOf(Now.value, Now.md.v))), << >>)
RestoreNothing ==
  /\ Does("described")
  /\ ~(HasInt \/ HasBytes \/ HasFloat \/ Was({"simple", "undefined"}))
  /\ Instead(<< Plain(Now.value, TRUE) >>)

EncodeStep ==
  \/ EncodeWord \/ EncodeInt \/ EncodeDouble \/ EncodeText \/ EncodeArray \/ EncodeObject
  \/ AppendBytes
  \/ RestoreInt \/ RestoreBytes \/ RestoreSimple \/ RestoreUndefined \/ RestoreFloat
  \/ RestoreNothing
=============================================================================
