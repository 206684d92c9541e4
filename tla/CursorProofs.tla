---------------------------- MODULE CursorProofs ----------------------------
(***************************************************************************)
(* What the parser's internal functions guarantee of the cursor they leave *)
(* behind, for every document: stated once here and cited by the proofs    *)
(* about navigation, strings, validation and late input.                   *)
(***************************************************************************)
EXTENDS Cursor, SequenceTheorems, WellFoundedInduction, TLAPS

(* A set of numbers has a least one: what stands for induction here.       *)
LEMMA Least ==
  ASSUME NEW T \in SUBSET Nat, T # {}
  PROVE  \E x \in T : \A y \in T : ~(y < x)
  <1> DEFINE R == {pair \in Nat \X Nat : pair[1] < pair[2]}
  <1>1. IsWellFoundedOn(R, Nat)
    BY NatLessThanWellFounded DEF OpToRel
  <1>2. \E x \in T : \A y \in T : << y, x >> \notin R
    <2> HIDE DEF R
    <2> QED
      BY <1>1, WFMin
  <1> QED
    BY <1>2

(* Arithmetic on the bytes of a head. *)
LEMMA NatTimes ==
  ASSUME NEW a \in Nat, NEW b \in Nat PROVE a * b \in Nat
  OBVIOUS

LEMMA ByteBaseType == ByteBase \in Nat /\ Descriptors \in Nat \ {0}
  BY DescriptorsAssumption DEF ByteBase

LEMMA HeadType ==
  ASSUME NEW b \in Byte
  PROVE  b \in Nat /\ Descriptor(b) \in Nat /\ Descriptor(b) < Descriptors
  BY ByteBaseType DEF Byte, Descriptor

LEMMA NeededType ==
  ASSUME NEW d \in Nat, d <= Value64Bit
  PROVE  /\ BytesNeeded(d) \in Nat /\ BytesNeeded(d) \in {0, 1, 2, 4, 8}
         /\ BytesNeeded(d) = 0 <=> d < Value8Bit
         /\ d >= Value8Bit => BytesNeeded(d) \in {1, 2, 4, 8}
  <1>1. CASE d < Value8Bit
    BY <1>1, DescriptorsAssumption DEF BytesNeeded
  <1>2. CASE d >= Value8Bit
    <2>1. d - Value8Bit + 1 \in {1, 2, 3, 4}
      BY <1>2, DescriptorsAssumption
    <2>2. BytesNeeded(d) = << 1, 2, 4, 8, 16, 32, 64, 128 >>[d - Value8Bit + 1]
      BY <1>2, DescriptorsAssumption DEF BytesNeeded
    <2> QED
      BY <1>2, <2>1, <2>2, DescriptorsAssumption
  <1> QED
    BY <1>1, <1>2, DescriptorsAssumption

LEMMA ReservedType ==
  ASSUME NEW d \in Nat, d < Descriptors
  PROVE  BytesNeeded(d) \in Nat
  <1>1. CASE d < Value8Bit
    BY <1>1 DEF BytesNeeded
  <1>2. CASE d >= Value8Bit
    <2>1. d - Value8Bit + 1 \in 1 .. 8
      BY <1>2, DescriptorsAssumption
    <2>2. BytesNeeded(d) = << 1, 2, 4, 8, 16, 32, 64, 128 >>[d - Value8Bit + 1]
      BY <1>2, DescriptorsAssumption DEF BytesNeeded
    <2>3. d - Value8Bit + 1 \in {1, 2, 3, 4, 5, 6, 7, 8}
      BY <2>1
    <2> QED
      BY <2>2, <2>3
  <1> QED
    BY <1>1, <1>2, DescriptorsAssumption

(* A load inside the buffer is a natural number. *)
LEMMA LoadType ==
  ASSUME NEW s \in Seq(Byte), NEW q \in Nat \ {0}, NEW n \in {1, 2, 4, 8},
         q + n <= Len(s) + 1
  PROVE  BeLoad(s, q, n) \in Nat
  <1> DEFINE B2 == ByteBase * ByteBase
             B4 == ByteBase * ByteBase * ByteBase * ByteBase
  <1>1. ByteBase \in Nat /\ B2 \in Nat /\ B4 \in Nat
    BY ByteBaseType, NatTimes
  <1>2. ASSUME NEW i \in Nat \ {0}, i <= Len(s) PROVE Load1(s, i) \in Nat
    <2>1. s[i] \in Byte
      BY <1>2, ElementOfSeq
    <2> QED
      BY <2>1, HeadType DEF Load1
  <1>3. ASSUME NEW i \in Nat \ {0}, i + 1 <= Len(s) PROVE Load2(s, i) \in Nat
    <2>1. Load1(s, i) \in Nat /\ Load1(s, i + 1) \in Nat
      BY <1>2, <1>3, LenProperties
    <2>2. Load1(s, i) * ByteBase \in Nat
      BY <1>1, <2>1, NatTimes
    <2> QED
      BY <2>1, <2>2 DEF Load2
  <1>4. ASSUME NEW i \in Nat \ {0}, i + 3 <= Len(s) PROVE Load4(s, i) \in Nat
    <2>1. Load2(s, i) \in Nat /\ Load2(s, i + 2) \in Nat
      BY <1>3, <1>4, LenProperties
    <2>2. Load2(s, i) * B2 \in Nat
      BY <1>1, <2>1, NatTimes
    <2> QED
      BY <2>1, <2>2 DEF Load4
  <1>5. ASSUME NEW i \in Nat \ {0}, i + 7 <= Len(s) PROVE Load8(s, i) \in Nat
    <2>1. Load4(s, i) \in Nat /\ Load4(s, i + 4) \in Nat
      BY <1>4, <1>5, LenProperties
    <2>2. Load4(s, i) * B4 \in Nat
      BY <1>1, <2>1, NatTimes
    <2> QED
      BY <2>1, <2>2 DEF Load8
  <1>6. CASE n = 1
    BY <1>2, <1>6, LenProperties DEF BeLoad
  <1>7. CASE n = 2
    BY <1>3, <1>7, LenProperties DEF BeLoad
  <1>8. CASE n = 4
    BY <1>4, <1>8, LenProperties DEF BeLoad
  <1>9. CASE n = 8
    BY <1>5, <1>9, LenProperties DEF BeLoad
  <1> QED
    BY <1>6, <1>7, <1>8, <1>9

LEMMA MajorType ==
  ASSUME NEW b \in Byte
  PROVE  MajorOf(b) \in {MajorName[i] : i \in 1 .. 8}
  <1>1. Major(b) \in 0 .. 7
    <2> DEFINE q == b \div Descriptors
               r == b % Descriptors
    <2>1. b \in Nat /\ b < 8 * Descriptors /\ Descriptors \in Nat \ {0}
      BY ByteBaseType DEF Byte, ByteBase
    <2>2. q \in Int /\ r \in 0 .. Descriptors - 1 /\ b = Descriptors * q + r
      BY <2>1
    <2>3. q >= 0
      BY <2>1, <2>2
    <2>4. q < 8
      BY <2>1, <2>2
    <2> QED
      BY <2>2, <2>3, <2>4 DEF Major
  <1> QED
    BY <1>1 DEF MajorOf

-----------------------------------------------------------------------------
Types == {MajorName[i] : i \in 1 .. 8} \cup {"invalid"}

(* A CborValue, wherever it stands. *)
Cursors ==
  [ptr : Nat, remaining : 0 .. U32Max, extra : Nat, wide : {0, 1, 2, 4, 8},
   type : Types, unknown : BOOLEAN,
   map : BOOLEAN, key : BOOLEAN, first : BOOLEAN, iterating : BOOLEAN]

Within(it) == it.ptr \in 1 .. Limit

(* The head under the cursor is all there, and the cursor describes it. *)
HeadHere(it) ==
  LET d == Descriptor(HeadByte(it))
  IN  /\ it.ptr \in 1 .. Len(buf)
      /\ it.type = MajorOf(HeadByte(it))
      /\ IF it.unknown
         THEN d = IndefiniteLength /\ (IsString(it) \/ IsContainer(it))
         ELSE /\ d <= Value64Bit
              /\ it.ptr + 1 + BytesNeeded(d) <= Limit
              /\ it.wide = IF BytesNeeded(d) <= ExtraBytes THEN 0 ELSE BytesNeeded(d)

(* Between the calls a cursor stands on an item or at the end of its       *)
(* container; if a break ended it, on the break.                           *)
Standing(it) ==
  /\ it \in Cursors /\ Within(it)
  /\ IF it.remaining = 0
     THEN it.type = "invalid" /\ (it.unknown => it.ptr < Limit)
     ELSE HeadHere(it)

(* What decoding never touches. *)
SameSlot(x, y) ==
  x.ptr = y.ptr /\ x.remaining = y.remaining /\ x.map = y.map /\ x.key = y.key

-----------------------------------------------------------------------------
LEMMA Neutral == "invalid" \in Types /\ 0 \in 0 .. U32Max /\ U32Max \in 0 .. U32Max
  BY CursorAssumption DEF Types

(* Two of them are the same if they agree in every field. *)
LEMMA CursorsEqual ==
  ASSUME NEW x \in Cursors, NEW y \in Cursors,
         x.ptr = y.ptr, x.remaining = y.remaining, x.extra = y.extra, x.wide = y.wide,
         x.type = y.type, x.unknown = y.unknown, x.map = y.map, x.key = y.key,
         x.first = y.first, x.iterating = y.iterating
  PROVE  x = y
  BY DEF Cursors

LEMMA BlankIs ==
  ASSUME NEW it \in Cursors
  PROVE  /\ Blank(it) \in Cursors
         /\ Blank(it).ptr = it.ptr /\ Blank(it).remaining = it.remaining
         /\ Blank(it).extra = it.extra /\ Blank(it).wide = 0
         /\ Blank(it).type = "invalid" /\ Blank(it).unknown = FALSE
         /\ Blank(it).map = it.map /\ Blank(it).key = it.key
         /\ Blank(it).first = FALSE /\ Blank(it).iterating = FALSE
  BY DEF Cursors, Blank, Types

LEMMA AdvancedIs ==
  ASSUME NEW it \in Cursors, NEW n \in Nat
  PROVE  /\ Advanced(it, n) \in Cursors
         /\ Advanced(it, n) = [it EXCEPT !.ptr = it.ptr + n]
         /\ Advanced(it, n).ptr = it.ptr + n
         /\ Advanced(it, n).remaining = it.remaining
         /\ Advanced(it, n).type = it.type
         /\ Advanced(it, n).unknown = it.unknown
         /\ Advanced(it, n).first = it.first
         /\ Advanced(it, n).map = it.map
         /\ Advanced(it, n).key = it.key
  BY DEF Cursors, Advanced

-----------------------------------------------------------------------------
LEMMA BufferType ==
  ASSUME buf \in Seq(Byte)
  PROVE  /\ Limit \in Nat \ {0} /\ Len(buf) \in Nat /\ Limit = Len(buf) + 1
         /\ \A i \in 1 .. Len(buf) : buf[i] \in Byte
  BY LenProperties, ElementOfSeq DEF Limit

LEMMA CanReadIs ==
  ASSUME buf \in Seq(Byte), NEW it \in Cursors, NEW n \in Nat \ {0}
  PROVE  CanRead(it, n) <=> it.ptr + n <= Limit
  BY BufferType DEF CanRead, Cursors

(* A head that can be read: its byte, and the cached argument. *)
LEMMA DecodedIs ==
  ASSUME buf \in Seq(Byte), NEW it \in Cursors, it.ptr \in 1 .. Len(buf),
         NEW d, d = Descriptor(HeadByte(it)), d <= Value64Bit,
         it.ptr + 1 + BytesNeeded(d) <= Limit
  PROVE  /\ Decoded(it) \in Cursors /\ SameSlot(Decoded(it), it)
         /\ Decoded(it).type = MajorOf(HeadByte(it))
         /\ Decoded(it).wide = IF BytesNeeded(d) <= ExtraBytes THEN 0 ELSE BytesNeeded(d)
         /\ Decoded(it).unknown = FALSE
         /\ Decoded(it).first = FALSE /\ Decoded(it).iterating = FALSE
  <1> DEFINE need == BytesNeeded(d)
             extra == IF need = 0 THEN d
                      ELSE IF need <= ExtraBytes THEN BeLoad(buf, it.ptr + 1, need) ELSE 0
             wide == IF need <= ExtraBytes THEN 0 ELSE need
             type == MajorOf(HeadByte(it))
             blank == Blank(it)
  <1>1. HeadByte(it) \in Byte
    BY BufferType DEF HeadByte
  <1>2. d \in Nat /\ need \in {0, 1, 2, 4, 8} /\ (need = 0 <=> d < Value8Bit)
    <2>1. d \in Nat
      BY <1>1, HeadType
    <2> QED
      BY <2>1, NeededType
  <1>3. extra \in Nat
    <2>1. CASE need # 0
      <3>1. need \in {1, 2, 4, 8} /\ it.ptr + 1 \in Nat \ {0}
            /\ (it.ptr + 1) + need <= Len(buf) + 1
        BY <1>2, <2>1, BufferType
      <3>2. BeLoad(buf, it.ptr + 1, need) \in Nat
        BY <3>1, LoadType
      <3> QED
        BY <2>1, <3>2
    <2>2. CASE need = 0
      BY <1>2, <2>2
    <2> QED
      BY <2>1, <2>2
  <1>4. wide \in {0, 1, 2, 4, 8} /\ type \in Types
    BY <1>1, <1>2, MajorType DEF Types
  <1>5. Decoded(it) = [blank EXCEPT !.type = type, !.extra = extra, !.wide = wide]
    BY DEF Decoded
  <1>6. blank \in Cursors /\ SameSlot(blank, it) /\ blank.unknown = FALSE
        /\ blank.first = FALSE /\ blank.iterating = FALSE
    BY BlankIs DEF SameSlot
  <1>7. wide = IF BytesNeeded(d) <= ExtraBytes THEN 0 ELSE BytesNeeded(d)
    OBVIOUS
  <1> HIDE DEF wide, extra, blank
  <1> QED
    BY <1>3, <1>4, <1>5, <1>6, <1>7 DEF Cursors, SameSlot

-----------------------------------------------------------------------------
(* preparse_value leaves a cursor in its place, error or not, and a cursor *)
(* it is content with has its head decoded.                                *)
LEMMA PreparseValueProperties ==
  ASSUME buf \in Seq(Byte), NEW it \in Cursors, Within(it)
  PROVE  LET r == PreparseValue(it)
         IN  /\ r.it \in Cursors /\ SameSlot(r.it, it)
             /\ r.err = "ok" => HeadHere(r.it) /\ r.it.first = FALSE /\ r.it.iterating = FALSE
  <1> DEFINE d == Descriptor(HeadByte(it))
             blank == Blank(it)
             typed == [blank EXCEPT !.type = MajorOf(HeadByte(it)), !.extra = d]
             decoded == Decoded(it)
             invalid == [decoded EXCEPT !.type = "invalid"]
             unknown == [typed EXCEPT !.unknown = TRUE]
             r == PreparseValue(it)
  <1> SUFFICES /\ r.it \in Cursors /\ SameSlot(r.it, it)
               /\ r.err = "ok" => HeadHere(r.it) /\ r.it.first = FALSE /\ r.it.iterating = FALSE
    OBVIOUS
  <1>1. blank \in Cursors /\ SameSlot(blank, it) /\ blank.unknown = FALSE
        /\ blank.first = FALSE /\ blank.iterating = FALSE
    BY BlankIs DEF SameSlot
  <1>2. CASE ~CanRead(it, 1)
    <2>1. r = Result("unexpected_eof", blank)
      BY <1>2 DEF PreparseValue
    <2> QED
      BY <1>1, <2>1 DEF Result
  <1>3. CASE CanRead(it, 1)
    <2>1. it.ptr \in 1 .. Len(buf)
      BY <1>3, CanReadIs, BufferType DEF Cursors, Within
    <2>2. HeadByte(it) \in Byte
      BY <2>1, BufferType DEF HeadByte
    <2>3. d \in Nat /\ MajorOf(HeadByte(it)) \in Types
      BY <2>2, HeadType, MajorType DEF Types
    <2>4. /\ typed \in Cursors /\ SameSlot(typed, it)
          /\ typed.type = MajorOf(HeadByte(it)) /\ typed.unknown = FALSE
          /\ typed.first = FALSE /\ typed.iterating = FALSE
      <3> HIDE DEF blank, d
      <3> QED
        BY <1>1, <2>3 DEF Cursors, SameSlot
    <2>5. /\ unknown \in Cursors /\ SameSlot(unknown, it)
          /\ unknown.type = typed.type /\ unknown.unknown = TRUE
          /\ unknown.first = FALSE /\ unknown.iterating = FALSE
      <3> HIDE DEF typed
      <3> QED
        BY <2>4 DEF Cursors, SameSlot
    <2>6. r = CASE d = IndefiniteLength -> IndefiniteHead(it, typed)
                [] d > Value64Bit /\ d # IndefiniteLength -> ReservedHead(typed)
                [] OTHER ->
                     IF ~CanRead(it, BytesNeeded(d) + 1) THEN Result("unexpected_eof", typed)
                     ELSE IF Overlong(decoded) THEN Result("illegal_simple_type", invalid)
                     ELSE Result("ok", decoded)
      BY <1>3 DEF PreparseValue
    <2> HIDE DEF typed, unknown, r, decoded, invalid, blank
    <2>7. CASE d = IndefiniteLength
      <3>1. r = IndefiniteHead(it, typed)
        BY <2>6, <2>7
      <3>2. r.it \in {unknown, typed} /\ (r.err = "ok" => r.it = unknown
                                            /\ (IsString(typed) \/ IsContainer(typed)))
        BY <3>1 DEF IndefiniteHead, Result, unknown
      <3>3. r.err = "ok" => HeadHere(r.it)
        <4> SUFFICES ASSUME r.err = "ok" PROVE HeadHere(unknown)
          BY <3>2
        <4>1. HeadByte(unknown) = HeadByte(it) /\ unknown.ptr = it.ptr
          BY <2>5 DEF HeadByte, SameSlot
        <4>2. IsString(unknown) \/ IsContainer(unknown)
          BY <2>5, <3>2 DEF IsString, IsContainer
        <4> QED
          BY <2>1, <2>4, <2>5, <2>7, <4>1, <4>2 DEF HeadHere
      <3> QED
        BY <2>4, <2>5, <3>2, <3>3
    <2>8. CASE d > Value64Bit /\ d # IndefiniteLength
      <3>1. r = ReservedHead(typed)
        BY <2>6, <2>8
      <3> QED
        BY <2>4, <3>1 DEF ReservedHead, Result
    <2>9. CASE d # IndefiniteLength /\ ~(d > Value64Bit)
      <3>1. r = IF ~CanRead(it, BytesNeeded(d) + 1) THEN Result("unexpected_eof", typed)
                ELSE IF Overlong(decoded) THEN Result("illegal_simple_type", invalid)
                ELSE Result("ok", decoded)
        BY <2>6, <2>9
      <3>2. CASE ~CanRead(it, BytesNeeded(d) + 1)
        BY <2>4, <3>1, <3>2 DEF Result
      <3>3. CASE CanRead(it, BytesNeeded(d) + 1)
        <4>1. d <= Value64Bit /\ BytesNeeded(d) \in Nat
          BY <2>3, <2>9, NeededType, DescriptorsAssumption
        <4>2. it.ptr + 1 + BytesNeeded(d) <= Limit
          BY <2>1, <3>3, <4>1, CanReadIs, BufferType
        <4>3. /\ decoded \in Cursors /\ SameSlot(decoded, it)
              /\ decoded.type = MajorOf(HeadByte(it)) /\ decoded.unknown = FALSE
              /\ decoded.first = FALSE /\ decoded.iterating = FALSE
              /\ decoded.wide = IF BytesNeeded(d) <= ExtraBytes THEN 0 ELSE BytesNeeded(d)
          BY <2>1, <4>1, <4>2, DecodedIs DEF decoded
        <4>4. HeadHere(decoded)
          <5>1. HeadByte(decoded) = HeadByte(it) /\ decoded.ptr = it.ptr
            BY <4>3 DEF HeadByte, SameSlot
          <5> QED
            BY <2>1, <4>1, <4>2, <4>3, <5>1 DEF HeadHere
        <4>5. invalid \in Cursors /\ SameSlot(invalid, it)
          BY <4>3 DEF invalid, Cursors, SameSlot, Types
        <4>6. r = Result("illegal_simple_type", invalid) \/ r = Result("ok", decoded)
          BY <3>1, <3>3
        <4> QED
          BY <4>3, <4>4, <4>5, <4>6 DEF Result
      <3> QED
        BY <3>2, <3>3
    <2> QED
      BY <2>7, <2>8, <2>9
  <1> QED
    BY <1>2, <1>3

(* preparse_value takes a break for a value that has no place there. *)
LEMMA BreakIsNoValue ==
  ASSUME buf \in Seq(Byte), NEW it \in Cursors, AtBreak(it)
  PROVE  PreparseValue(it).err = "unexpected_break"
  <1> DEFINE D == Descriptors
  <1>1. /\ D \in Nat \ {0} /\ HeadByte(it) = 7 * D + (D - 1) /\ IndefiniteLength = D - 1
        /\ CanRead(it, 1)
    BY DescriptorsAssumption DEF AtBreak, BreakByte, IndefiniteLength
  <1>2. (7 * D + (D - 1)) % D = D - 1 /\ (7 * D + (D - 1)) \div D = 7
    <2> HIDE DEF D
    <2>1. D \in Nat \ {0}
      BY <1>1
    <2> QED
      BY <2>1
  <1>3. Descriptor(HeadByte(it)) = IndefiniteLength /\ MajorOf(HeadByte(it)) = "simple"
    BY <1>1, <1>2 DEF Descriptor, MajorOf, Major, MajorName
  <1> DEFINE blank == Blank(it)
             d == Descriptor(HeadByte(it))
             typed == [blank EXCEPT !.type = MajorOf(HeadByte(it)), !.extra = d]
  <1>4. PreparseValue(it) = IndefiniteHead(it, typed)
    BY <1>1, <1>3 DEF PreparseValue
  <1>5. typed.type = "simple"
    <2>1. blank \in Cursors
      BY BlankIs
    <2> HIDE DEF blank, d
    <2> QED
      BY <1>3, <2>1 DEF Cursors
  <1> HIDE DEF typed
  <1> QED
    BY <1>4, <1>5 DEF IndefiniteHead, IsString, IsContainer, StringMajors, ContainerMajors, Result

(* preparse_next_value_nodecrement does not move either: a cursor it is    *)
(* content with stands on an item or on the break that ended it.           *)
LEMMA NoDecrementProperties ==
  ASSUME buf \in Seq(Byte), NEW it \in Cursors, Within(it), it.remaining # 0
  PROVE  LET r == PreparseNoDecrement(it)
         IN  /\ r.it \in Cursors /\ r.it.ptr = it.ptr
             /\ r.it.map = it.map /\ r.it.key = it.key
             /\ r.it.remaining \in {0, it.remaining}
             /\ r.err = "ok" => Standing(r.it)
  <1> DEFINE r == PreparseNoDecrement(it)
             ended == [it EXCEPT !.type = "invalid", !.remaining = 0, !.unknown = TRUE]
  <1>1. CASE it.remaining = U32Max /\ AtBreak(it)
    <2>1. r = IF BreakForbidden(it) THEN Result("unexpected_break", it) ELSE Result("ok", ended)
      BY <1>1 DEF PreparseNoDecrement
    <2>2. /\ ended \in Cursors /\ ended.ptr = it.ptr /\ ended.remaining = 0
          /\ ended.map = it.map /\ ended.key = it.key
          /\ ended.type = "invalid" /\ ended.unknown = TRUE
      BY Neutral DEF Cursors
    <2>3. it.ptr < Limit
      BY <1>1, BufferType, CanReadIs DEF AtBreak, Within
    <2> HIDE DEF ended, r
    <2>4. Standing(ended)
      BY <2>2, <2>3 DEF Standing, Within
    <2> QED
      BY <2>1, <2>2, <2>4 DEF Result, r
  <1>2. CASE ~(it.remaining = U32Max /\ AtBreak(it))
    <2>1. r = PreparseValue(it)
      BY <1>2 DEF PreparseNoDecrement
    <2>2. /\ r.it \in Cursors /\ SameSlot(r.it, it) /\ (r.err = "ok" => HeadHere(r.it))
      BY <2>1, PreparseValueProperties
    <2> HIDE DEF r
    <2> QED
      BY <2>2 DEF Standing, Within, SameSlot, r
  <1> QED
    BY <1>1, <1>2

(* preparse_next_value, after a move past an item or a tag. *)
LEMMA NextProperties ==
  ASSUME buf \in Seq(Byte), NEW it \in Cursors, Within(it), it.remaining # 0
  PROVE  LET r == PreparseNext(it)
         IN  /\ r.it \in Cursors /\ r.it.ptr = it.ptr
             /\ r.err = "ok" => Standing(r.it)
  <1> DEFINE r == PreparseNext(it)
             ended == [it EXCEPT !.type = "invalid", !.remaining = 0, !.unknown = FALSE]
             left == IF it.remaining = U32Max THEN it.remaining ELSE it.remaining - 1
             flipped == ~it.key
             counted == [it EXCEPT !.remaining = left, !.key = flipped]
  <1>1. CASE ~CountsAsItem(it)
    BY <1>1, NoDecrementProperties DEF PreparseNext
  <1>2. CASE CountsAsItem(it) /\ it.remaining = 1
    <2>1. r = Result("ok", ended)
      BY <1>2 DEF PreparseNext
    <2>2. /\ ended \in Cursors /\ ended.ptr = it.ptr /\ ended.remaining = 0
          /\ ended.type = "invalid" /\ ended.unknown = FALSE
      BY Neutral DEF Cursors
    <2> HIDE DEF ended, r
    <2> QED
      BY <2>1, <2>2 DEF Result, Standing, Within, r
  <1>3. CASE CountsAsItem(it) /\ it.remaining # 1
    <2>1. r = PreparseNoDecrement(counted)
      BY <1>3 DEF PreparseNext
    <2>2. left \in 0 .. U32Max /\ left # 0 /\ flipped \in BOOLEAN
      BY <1>3, CursorAssumption DEF Cursors
    <2> HIDE DEF left, flipped
    <2>3. counted \in Cursors /\ counted.ptr = it.ptr /\ counted.remaining = left
      BY <2>2 DEF Cursors
    <2> HIDE DEF counted, r
    <2>4. r.it \in Cursors /\ r.it.ptr = it.ptr /\ (r.err = "ok" => Standing(r.it))
      BY <2>1, <2>2, <2>3, NoDecrementProperties DEF Within
    <2> QED
      BY <2>4 DEF r
  <1> QED
    BY <1>1, <1>2, <1>3

-----------------------------------------------------------------------------
(* Past a head that is all there, and its argument. *)
LEMMA HeadProperties ==
  ASSUME buf \in Seq(Byte), NEW it \in Cursors, HeadHere(it)
  PROVE  /\ Within(it) /\ it.ptr < Limit /\ it.type # "invalid"
         /\ HeadByte(it) \in Byte
         /\ Advanced(it, 1) \in Cursors /\ Within(Advanced(it, 1))
         /\ ~it.unknown => /\ PastHead(it) \in Cursors /\ Within(PastHead(it))
                           /\ PastHead(it).ptr > it.ptr
                           /\ PastHead(it).remaining = it.remaining
                           /\ PastHead(it).type = it.type
                           /\ PastHead(it).unknown = it.unknown
                           /\ PastHead(it) = [it EXCEPT !.ptr = PastHead(it).ptr]
                           /\ Int64(it) \in Nat
         /\ it.unknown => IsString(it) \/ IsContainer(it)
  <1> DEFINE d == Descriptor(HeadByte(it))
             need == BytesNeeded(d)
  <1>1. it.ptr \in 1 .. Len(buf) /\ Within(it) /\ it.ptr < Limit
    BY BufferType DEF HeadHere, Within
  <1>2. HeadByte(it) \in Byte /\ d \in Nat
    BY <1>1, BufferType, HeadType DEF HeadByte
  <1>3. it.type # "invalid"
    BY <1>2, MajorType DEF HeadHere, MajorName
  <1>4. Advanced(it, 1) \in Cursors /\ Within(Advanced(it, 1))
    BY <1>1, AdvancedIs, BufferType DEF Within
  <1>5. ASSUME ~it.unknown
        PROVE  /\ PastHead(it) \in Cursors /\ Within(PastHead(it))
               /\ PastHead(it).ptr > it.ptr
               /\ PastHead(it).remaining = it.remaining
               /\ PastHead(it).type = it.type
               /\ PastHead(it).unknown = it.unknown
               /\ PastHead(it) = [it EXCEPT !.ptr = PastHead(it).ptr]
               /\ Int64(it) \in Nat
    <2>1. /\ d <= Value64Bit /\ it.ptr + 1 + need <= Limit
          /\ it.wide = IF need <= ExtraBytes THEN 0 ELSE need
      BY <1>5 DEF HeadHere
    <2>2. need \in {0, 1, 2, 4, 8}
      BY <1>2, <2>1, NeededType
    <2>3. PastHead(it) = Advanced(it, need + 1)
      BY DEF PastHead
    <2> HIDE DEF need
    <2>4. need + 1 \in Nat /\ need \in Nat
      BY <2>2
    <2>5. /\ PastHead(it) \in Cursors /\ PastHead(it).ptr = it.ptr + (need + 1)
          /\ PastHead(it).remaining = it.remaining /\ PastHead(it).type = it.type
          /\ PastHead(it).unknown = it.unknown
          /\ PastHead(it) = [it EXCEPT !.ptr = it.ptr + (need + 1)]
      <3> DEFINE m == need + 1
      <3>1. PastHead(it) = Advanced(it, m) /\ m \in Nat
        BY <2>3, <2>4
      <3> HIDE DEF m
      <3>2. /\ PastHead(it) \in Cursors /\ PastHead(it).ptr = it.ptr + m
            /\ PastHead(it).remaining = it.remaining /\ PastHead(it).type = it.type
            /\ PastHead(it).unknown = it.unknown
            /\ PastHead(it) = [it EXCEPT !.ptr = it.ptr + m]
        BY <3>1, AdvancedIs
      <3> QED
        BY <3>2 DEF m
    <2>6. Int64(it) \in Nat
      <3>1. CASE it.wide = 0
        BY <3>1 DEF Int64, Cursors
      <3>2. CASE it.wide # 0
        <4>1. need \in {1, 2, 4, 8} /\ it.wide = need
          BY <2>1, <2>2, <3>2, CursorAssumption
        <4>2. it.ptr + 1 \in Nat \ {0} /\ (it.ptr + 1) + need <= Len(buf) + 1
          BY <1>1, <2>1, <4>1, BufferType
        <4> QED
          BY <3>2, <4>1, <4>2, LoadType DEF Int64
      <3> QED
        BY <3>1, <3>2
    <2> QED
      BY <1>1, <2>1, <2>4, <2>5, <2>6, BufferType DEF Within
  <1>6. it.unknown => IsString(it) \/ IsContainer(it)
    BY DEF HeadHere
  <1> QED
    BY <1>1, <1>2, <1>3, <1>4, <1>5, <1>6

(* advance_internal over an item that is its head. *)
LEMMA AdvanceInternalProperties ==
  ASSUME buf \in Seq(Byte), NEW it \in Cursors, HeadHere(it), it.remaining # 0,
         ~IsString(it), ~IsContainer(it)
  PROVE  LET r == AdvanceInternal(it)
         IN  /\ r.it \in Cursors /\ Within(r.it) /\ r.it.ptr > it.ptr
             /\ r.err = "ok" => Standing(r.it)
  <1> DEFINE past == PastHead(it)
  <1>1. AdvanceInternal(it) = PreparseNext(past)
    BY DEF AdvanceInternal
  <1>2. /\ past \in Cursors /\ Within(past) /\ past.ptr > it.ptr
        /\ past.remaining = it.remaining
    BY HeadProperties
  <1> HIDE DEF past
  <1>3. LET r == PreparseNext(past)
        IN  r.it \in Cursors /\ r.it.ptr = past.ptr /\ (r.err = "ok" => Standing(r.it))
    BY <1>2, NextProperties
  <1> QED
    BY <1>1, <1>2, <1>3 DEF Within

LEMMA InsideIs ==
  ASSUME NEW it \in Cursors, NEW n \in 0 .. U32Max
  PROVE  LET inside == [Inside(it) EXCEPT !.remaining = n]
         IN  inside \in Cursors /\ inside.ptr = it.ptr /\ inside.remaining = n
  BY DEF Inside, Cursors

(* The number of items of a container that is not too large to be counted. *)
LEMMA ItemsFit ==
  ASSUME buf \in Seq(Byte), NEW it \in Cursors, HeadHere(it), ~it.unknown, ~TooLarge(it)
  PROVE  (IF it.type = "map" THEN 2 * Int64(it) ELSE Int64(it)) \in 0 .. U32Max
  <1> DEFINE n == Int64(it)
  <1>1. U32Max \in Nat /\ U32Max % 2 = 1
    BY CursorAssumption
  <1>2. n \in Nat
    BY HeadProperties
  <1>3. n < U32Max /\ (it.type = "map" => n <= U32Max \div 2)
    BY <1>1, <1>2 DEF TooLarge
  <1>4. U32Max = 2 * (U32Max \div 2) + 1
    BY <1>1
  <1> HIDE DEF n
  <1>5. (IF it.type = "map" THEN 2 * n ELSE n) \in 0 .. U32Max
    BY <1>1, <1>2, <1>3, <1>4
  <1> QED
    BY <1>5 DEF n

(* A container is entered one byte or one head further on. *)
LEMMA EnterProperties ==
  ASSUME buf \in Seq(Byte), NEW it \in Cursors, HeadHere(it), it.remaining # 0,
         IsContainer(it)
  PROVE  LET r == EnterContainer(it)
         IN  /\ r.it \in Cursors /\ Within(r.it)
             /\ r.err = "ok" => Standing(r.it) /\ r.it.ptr > it.ptr
  <1> DEFINE r == EnterContainer(it)
  <1> SUFFICES /\ r.it \in Cursors /\ Within(r.it)
               /\ r.err = "ok" => Standing(r.it) /\ r.it.ptr > it.ptr
    OBVIOUS
  <1>1. U32Max \in Nat /\ U32Max > 1 /\ U32Max % 2 = 1
    BY CursorAssumption
  <1>2. CASE it.unknown
    <2> DEFINE past == Advanced(it, 1)
               inside == [Inside(past) EXCEPT !.remaining = U32Max]
    <2>1. past \in Cursors /\ Within(past) /\ past.ptr = it.ptr + 1
      BY HeadProperties, AdvancedIs
    <2>2. r = PreparseNoDecrement(inside)
      BY <1>2 DEF EnterContainer
    <2> HIDE DEF past, r
    <2>3. inside \in Cursors /\ inside.ptr = past.ptr /\ inside.remaining # 0
      BY <1>1, <2>1, Neutral, InsideIs
    <2> HIDE DEF inside
    <2>4. r.it \in Cursors /\ r.it.ptr = past.ptr /\ (r.err = "ok" => Standing(r.it))
      BY <2>1, <2>2, <2>3, NoDecrementProperties DEF Within
    <2> QED
      BY <2>1, <2>4 DEF Within, Cursors
  <1>3. CASE ~it.unknown
    <2> DEFINE past == PastHead(it)
               n == Int64(it)
               items == IF it.type = "map" THEN 2 * n ELSE n
               refused == n % (U32Max + 1)
               large == [it EXCEPT !.remaining = refused]
               empty == [past EXCEPT !.remaining = 0, !.type = "invalid"]
               inside == [Inside(past) EXCEPT !.remaining = items]
    <2>1. /\ past \in Cursors /\ Within(past) /\ past.ptr > it.ptr /\ past.unknown = FALSE
          /\ n \in Nat /\ Within(it)
      BY <1>3, HeadProperties DEF Cursors
    <2>2. r = IF TooLarge(it) THEN Result("data_too_large", large)
              ELSE IF items = 0 THEN Result("ok", empty)
              ELSE PreparseNoDecrement(inside)
      BY <1>3 DEF EnterContainer
    <2>3. large \in Cursors /\ large.ptr = it.ptr
      <3>1. refused \in 0 .. U32Max
        BY <1>1, <2>1
      <3> HIDE DEF refused
      <3> QED
        BY <3>1 DEF Cursors
    <2>4. /\ empty \in Cursors /\ empty.ptr = past.ptr /\ empty.remaining = 0
          /\ empty.type = "invalid" /\ empty.unknown = FALSE
      <3> HIDE DEF past
      <3> QED
        BY <2>1, Neutral DEF Cursors
    <2>5. ~TooLarge(it) => items \in 0 .. U32Max
      BY <1>3, ItemsFit
    <2> HIDE DEF past, n, large, empty, items, r
    <2>6. CASE TooLarge(it)
      BY <2>1, <2>2, <2>3, <2>6 DEF Result, Within
    <2>7. CASE ~TooLarge(it) /\ items = 0
      <3>1. r = Result("ok", empty)
        BY <2>2, <2>7
      <3> QED
        BY <2>1, <2>4, <3>1 DEF Result, Standing, Within
    <2>8. CASE ~TooLarge(it) /\ items # 0
      <3>1. inside \in Cursors /\ inside.ptr = past.ptr /\ inside.remaining # 0
        BY <2>1, <2>5, <2>8, InsideIs
      <3>2. r = PreparseNoDecrement(inside)
        BY <2>2, <2>8
      <3> HIDE DEF inside
      <3>3. r.it \in Cursors /\ r.it.ptr = past.ptr /\ (r.err = "ok" => Standing(r.it))
        BY <2>1, <3>1, <3>2, NoDecrementProperties DEF Within
      <3> QED
        BY <2>1, <3>3 DEF Within
    <2> QED
      BY <2>6, <2>7, <2>8
  <1> QED
    BY <1>2, <1>3

(* The parent goes on past the child's end, and its break. *)
LEMMA ResumeProperties ==
  ASSUME buf \in Seq(Byte), NEW it, Standing(it), it.remaining = 0
  PROVE  ResumeAt(it) \in 1 .. Limit /\ ResumeAt(it) >= it.ptr
  BY BufferType DEF ResumeAt, Standing, Within, Cursors

LEMMA LeaveProperties ==
  ASSUME buf \in Seq(Byte), NEW it \in Cursors, it.remaining # 0,
         NEW recursed, Standing(recursed), recursed.remaining = 0
  PROVE  LET r == LeaveContainer(it, recursed)
         IN  /\ r.it \in Cursors /\ Within(r.it) /\ r.it.ptr >= recursed.ptr
             /\ r.err = "ok" => Standing(r.it)
  <1> DEFINE at == ResumeAt(recursed)
             moved == [it EXCEPT !.ptr = at]
  <1>1. at \in 1 .. Limit /\ at >= recursed.ptr
    BY ResumeProperties
  <1>2. LeaveContainer(it, recursed) = PreparseNext(moved)
    BY DEF LeaveContainer
  <1> HIDE DEF at
  <1>3. at \in Nat
    BY <1>1, BufferType
  <1>4. moved \in Cursors /\ moved.ptr = at /\ moved.remaining # 0
    BY <1>3 DEF Cursors
  <1> HIDE DEF moved
  <1>5. Within(moved)
    BY <1>1, <1>4 DEF Within
  <1>6. LET r == PreparseNext(moved)
        IN  r.it \in Cursors /\ r.it.ptr = at /\ (r.err = "ok" => Standing(r.it))
    BY <1>4, <1>5, NextProperties
  <1> QED
    BY <1>1, <1>2, <1>6 DEF Within

-----------------------------------------------------------------------------
(* Strings.  Their iteration begins on a string's head, or just past the   *)
(* head of one of unknown length.                                          *)
LEMMA BeginProperties ==
  ASSUME NEW it \in Cursors
  PROVE  LET b == BeginStringIteration(it)
         IN  /\ b \in Cursors
             /\ b.ptr = IF it.unknown THEN it.ptr + 1 ELSE it.ptr
             /\ b.type = it.type /\ b.remaining = it.remaining /\ b.unknown = it.unknown
             /\ b.first = TRUE
  <1> DEFINE begun == [it EXCEPT !.iterating = TRUE, !.first = TRUE]
  <1>1. /\ begun \in Cursors /\ begun.ptr = it.ptr /\ begun.type = it.type
        /\ begun.remaining = it.remaining /\ begun.unknown = it.unknown /\ begun.first = TRUE
    BY DEF Cursors
  <1>2. BeginStringIteration(it) = IF it.unknown THEN Advanced(begun, 1) ELSE begun
    BY DEF BeginStringIteration
  <1> HIDE DEF begun
  <1> QED
    BY <1>1, <1>2, AdvancedIs

(* chunk_size answers for a head that is there. *)
LEMMA ChunkSizeProperties ==
  ASSUME buf \in Seq(Byte), NEW it \in Cursors, it.ptr # 0
  PROVE  LET size == ChunkSize(it)
         IN  /\ size.err = "ok" =>
                  /\ size.offset \in Nat \ {0} /\ size.len \in Nat
                  /\ it.ptr + size.offset <= Limit
             /\ size.err = "no_more_chunks" => AtBreak(it) \/ (~it.unknown /\ ~it.first)
  <1> DEFINE size == ChunkSize(it)
             d == Descriptor(HeadByte(it))
             need == BytesNeeded(d)
  <1>1. size.err = "no_more_chunks" => AtBreak(it) \/ (~it.unknown /\ ~it.first)
    BY DEF ChunkSize
  <1>2. ASSUME size.err = "ok"
        PROVE  /\ size.offset \in Nat \ {0} /\ size.len \in Nat
               /\ it.ptr + size.offset <= Limit
    <2>1. /\ CanRead(it, 1) /\ ~(d > Value64Bit) /\ CanRead(it, 1 + need)
          /\ size.offset = 1 + need /\ size.len = Argument(buf, it.ptr)
      BY <1>2 DEF ChunkSize, ChunkArgument
    <2>2. it.ptr \in 1 .. Len(buf)
      BY <2>1, CanReadIs, BufferType DEF Cursors
    <2>3. HeadByte(it) \in Byte /\ buf[it.ptr] = HeadByte(it)
      BY <2>2, BufferType DEF HeadByte
    <2>4. /\ d \in Nat /\ d <= Value64Bit /\ need \in {0, 1, 2, 4, 8}
          /\ (d >= Value8Bit => need \in {1, 2, 4, 8})
      <3>1. d \in Nat /\ d <= Value64Bit
        BY <2>1, <2>3, HeadType, DescriptorsAssumption
      <3> QED
        BY <3>1, NeededType
    <2>5. Argument(buf, it.ptr) = IF d < Value8Bit THEN d ELSE BeLoad(buf, it.ptr + 1, need)
      BY <2>3 DEF Argument
    <2> HIDE DEF d, need, size
    <2>6. it.ptr + (1 + need) <= Limit
      BY <2>1, <2>4, CanReadIs
    <2>7. Argument(buf, it.ptr) \in Nat
      <3>1. CASE d < Value8Bit
        BY <2>4, <2>5, <3>1
      <3>2. CASE ~(d < Value8Bit)
        <4>1. need \in {1, 2, 4, 8}
          BY <2>4, <3>2, DescriptorsAssumption
        <4>2. it.ptr + 1 \in Nat \ {0} /\ (it.ptr + 1) + need <= Len(buf) + 1
          BY <2>2, <2>6, <4>1, BufferType
        <4> QED
          BY <2>5, <3>2, <4>1, <4>2, LoadType
      <3> QED
        BY <3>1, <3>2
    <2> QED
      BY <2>1, <2>4, <2>6, <2>7
  <1> QED
    BY <1>1, <1>2

(* get_string_chunk stays in the buffer and moves forward. *)
LEMMA ChunkProperties ==
  ASSUME buf \in Seq(Byte), NEW it \in Cursors, it.ptr # 0
  PROVE  LET size == ChunkSize(it)
             chunk == GetChunk(it)
         IN  /\ chunk.it \in Cursors
             /\ chunk.it.type = it.type /\ chunk.it.remaining = it.remaining
             /\ chunk.it.unknown = it.unknown
             /\ chunk.it = it \/ Within(chunk.it)
             /\ chunk.err = "ok" =>
                  /\ size.err = "ok"
                  /\ chunk.it.ptr = it.ptr + size.offset + size.len
                  /\ chunk.it.ptr > it.ptr /\ Within(chunk.it) /\ ~chunk.it.first
             /\ chunk.err = "no_more_chunks" => AtBreak(it) \/ (~it.unknown /\ ~it.first)
  <1> DEFINE size == ChunkSize(it)
             chunk == GetChunk(it)
             past == Advanced(it, size.offset)
             beyond == Advanced(past, size.len)
             done == [beyond EXCEPT !.first = FALSE]
  <1> SUFFICES
        /\ chunk.it \in Cursors
        /\ chunk.it.type = it.type /\ chunk.it.remaining = it.remaining
        /\ chunk.it.unknown = it.unknown
        /\ chunk.it = it \/ Within(chunk.it)
        /\ chunk.err = "ok" =>
             /\ size.err = "ok"
             /\ chunk.it.ptr = it.ptr + size.offset + size.len
             /\ chunk.it.ptr > it.ptr /\ Within(chunk.it) /\ ~chunk.it.first
        /\ chunk.err = "no_more_chunks" => AtBreak(it) \/ (~it.unknown /\ ~it.first)
    OBVIOUS
  <1>1. chunk = IF size.err # "ok" THEN Result(size.err, it)
                ELSE IF ~CanRead(past, size.len) THEN Result("unexpected_eof", past)
                ELSE Result("ok", done)
    BY DEF GetChunk
  <1>2. size.err = "no_more_chunks" => AtBreak(it) \/ (~it.unknown /\ ~it.first)
    BY ChunkSizeProperties
  <1>3. CASE size.err # "ok"
    <2> HIDE DEF size, chunk
    <2> QED
      BY <1>1, <1>2, <1>3 DEF Result
  <1>4. CASE size.err = "ok"
    <2>1. size.offset \in Nat \ {0} /\ size.len \in Nat /\ it.ptr + size.offset <= Limit
      BY <1>4, ChunkSizeProperties
    <2> HIDE DEF size
    <2>2. /\ past \in Cursors /\ past.ptr = it.ptr + size.offset /\ past.type = it.type
          /\ past.remaining = it.remaining /\ past.unknown = it.unknown
      BY <2>1, AdvancedIs
    <2>3. Within(past) /\ it.ptr \in Nat
      BY <2>1, <2>2, BufferType DEF Within, Cursors
    <2> HIDE DEF past
    <2>4. /\ beyond \in Cursors /\ beyond.ptr = past.ptr + size.len /\ beyond.type = it.type
          /\ beyond.remaining = it.remaining /\ beyond.unknown = it.unknown
      BY <2>1, <2>2, AdvancedIs
    <2> HIDE DEF beyond
    <2>5. /\ done \in Cursors /\ done.ptr = past.ptr + size.len /\ done.type = it.type
          /\ done.remaining = it.remaining /\ done.unknown = it.unknown /\ done.first = FALSE
      BY <2>4 DEF Cursors
    <2> HIDE DEF done, chunk
    <2>6. CASE ~CanRead(past, size.len)
      BY <1>1, <1>4, <2>2, <2>3, <2>6 DEF Result
    <2>7. CASE CanRead(past, size.len)
      <3>1. past.ptr + size.len <= Limit
        <4>1. CASE size.len = 0
          BY <2>1, <2>3, <4>1, BufferType DEF Within
        <4>2. CASE size.len # 0
          BY <2>1, <2>2, <2>7, <4>2, CanReadIs
        <4> QED
          BY <4>1, <4>2
      <3>2. done.ptr \in 1 .. Limit /\ done.ptr > it.ptr
            /\ done.ptr = it.ptr + size.offset + size.len
        BY <2>1, <2>2, <2>3, <2>5, <3>1, BufferType DEF Within
      <3>3. chunk = Result("ok", done)
        BY <1>1, <1>4, <2>7
      <3> QED
        BY <1>4, <2>5, <3>2, <3>3 DEF Result, Within
    <2> QED
      BY <2>6, <2>7
  <1> QED
    BY <1>3, <1>4

(* At the end of the chunks there is a break to step over if there has to  *)
(* be one.                                                                 *)
LEMMA FinishProperties ==
  ASSUME buf \in Seq(Byte), NEW it \in Cursors, Within(it), it.remaining # 0,
         it.unknown => AtBreak(it)
  PROVE  LET r == FinishStringIteration(it)
         IN  /\ r.it \in Cursors /\ Within(r.it)
             /\ r.it.ptr = IF it.unknown THEN it.ptr + 1 ELSE it.ptr
             /\ r.err = "ok" => Standing(r.it)
  <1> DEFINE past == Advanced(it, 1)
             at == IF it.unknown THEN past ELSE it
  <1>1. /\ past \in Cursors /\ past.ptr = it.ptr + 1 /\ past.remaining = it.remaining
    BY AdvancedIs
  <1>2. it.unknown => it.ptr < Limit
    BY CanReadIs, BufferType DEF AtBreak, Within
  <1> HIDE DEF past
  <1>3. /\ at \in Cursors /\ Within(at) /\ at.remaining # 0
        /\ at.ptr = IF it.unknown THEN it.ptr + 1 ELSE it.ptr
    BY <1>1, <1>2, BufferType DEF Within
  <1>4. FinishStringIteration(it) = PreparseNext(at)
    BY DEF FinishStringIteration, past
  <1> HIDE DEF at
  <1> QED
    BY <1>3, <1>4, NextProperties DEF Within

(* The parser begins on the first byte. *)
LEMMA StartType == Start \in Cursors /\ Start.ptr = 1 /\ Start.remaining = 1
  BY CursorAssumption, Neutral DEF Start, Cursors

LEMMA ParserInitProperties ==
  ASSUME buf \in Seq(Byte)
  PROVE  /\ ParserInit.it \in Cursors /\ Within(ParserInit.it)
         /\ ParserInit.it.ptr = 1 /\ ParserInit.it.remaining = 1
         /\ ParserInit.err = "ok" => Standing(ParserInit.it)
  <1>1. Within(Start)
    BY StartType, BufferType DEF Within
  <1>2. /\ ParserInit.it \in Cursors /\ SameSlot(ParserInit.it, Start)
        /\ ParserInit.err = "ok" => HeadHere(ParserInit.it)
    BY <1>1, StartType, PreparseValueProperties DEF ParserInit
  <1> QED
    BY <1>1, <1>2, StartType DEF SameSlot, Standing, Within

-----------------------------------------------------------------------------
(* The cursors that are inside the buffer, and those that stand on an item *)
(* or at an end, are the same ones while the buffer is.                    *)
Placed == {c \in Cursors : Within(c)}
Stood == {c \in Placed : Standing(c)}

LEMMA PlacesStay ==
  ASSUME buf' = buf PROVE Placed' = Placed /\ Stood' = Stood
  <1>1. Placed' = Placed
    BY DEF Placed, Within, Limit
  <1>2. ASSUME NEW c PROVE Standing(c)' <=> Standing(c)
    BY DEF Standing, Within, HeadHere, HeadByte, Limit, IsString, IsContainer
  <1>3. Stood' = Stood
    BY <1>1, <1>2 DEF Stood
  <1> QED
    BY <1>1, <1>3

(* Stacks of cursors: the top replaced, pushed and taken off. *)
LEMMA LastReplaced ==
  ASSUME NEW S, NEW s \in Seq(S), s # << >>, NEW c \in S
  PROVE  LET t == [s EXCEPT ![Len(s)] = c]
         IN  /\ t \in Seq(S) /\ t # << >> /\ Len(t) = Len(s) /\ t[Len(t)] = c
             /\ \A i \in 1 .. Len(s) - 1 : t[i] = s[i]
  <1>1. Len(s) \in Nat \ {0}
    BY EmptySeq, LenProperties
  <1> QED
    BY <1>1, ExceptSeq

LEMMA LastAppended ==
  ASSUME NEW S, NEW s \in Seq(S), NEW c \in S
  PROVE  LET t == Append(s, c)
         IN  /\ t \in Seq(S) /\ t # << >> /\ Len(t) = Len(s) + 1 /\ t[Len(t)] = c
             /\ \A i \in 1 .. Len(s) : t[i] = s[i]
  BY AppendProperties, LenProperties

LEMMA AllButLast ==
  ASSUME NEW S, NEW s \in Seq(S), s # << >>
  PROVE  LET t == SubSeq(s, 1, Len(s) - 1)
         IN  /\ t \in Seq(S) /\ Len(t) = Len(s) - 1
             /\ Len(s) \in Nat \ {0} /\ s[Len(s)] \in S
             /\ \A i \in 1 .. Len(s) - 1 : t[i] = s[i]
  <1>1. Len(s) \in Nat \ {0} /\ \A i \in 1 .. Len(s) : s[i] \in S
    BY EmptySeq, LenProperties, ElementOfSeq
  <1> DEFINE n == Len(s) - 1
  <1>2. n \in Nat /\ \A i \in 1 .. n : s[i] \in S
    BY <1>1
  <1> HIDE DEF n
  <1>3. /\ SubSeq(s, 1, n) \in Seq(S) /\ Len(SubSeq(s, 1, n)) = n
        /\ \A i \in 1 .. n : SubSeq(s, 1, n)[i] = s[i]
    BY <1>2, SubSeqProperties
  <1> QED
    BY <1>1, <1>3 DEF n
=============================================================================
