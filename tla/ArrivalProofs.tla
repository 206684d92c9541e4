---------------------------- MODULE ArrivalProofs ----------------------------
(***************************************************************************)
(* Proofs about input that arrives late, for every document and every way  *)
(* it can be cut: what a client sees who resumes each call that ran out of *)
(* bytes is what a client sees who had them all from the start.            *)
(*                                                                         *)
(* That is not inductive.  A call that runs out leaves its cursor behind   *)
(* in the middle of something, and what the invariant has to remember is   *)
(* that resuming from there is still the same as the call that was made:   *)
(* decoding again the head that is left, or asking again for the chunk,    *)
(* gives over the whole document what the other client got at once.  The   *)
(* exception is a container of unknown length that ends where the bytes    *)
(* ran out, as decoding again does not expect a break.                     *)
(***************************************************************************)
EXTENDS Arrival, CursorProofs

(* The cursor is where a container ended that nobody will see ending. *)
CutAtBreak(it, answer) ==
  it.remaining = U32Max /\ All!AtBreak(it) /\ answer \in {"ok", "unexpected_break"}

(* What a call answers when it has what it needs is what it answers with   *)
(* all the bytes; when it has not, decoding again leads to the same.       *)
Resumes(r, all) ==
  IF r.err = "unexpected_eof"
  THEN all = All!PreparseValue(r.it) \/ CutAtBreak(r.it, all.err)
  ELSE all = r

SpineInv ==
  /\ buf \in Seq(Byte) /\ rest \in Seq(Byte) /\ phase \in {"items", "string"}
  /\ spine \in Seq(Placed) /\ spine # << >>
  /\ \A i \in 1 .. Len(spine) - 1 : spine[i].remaining # 0
TopInv ==
  /\ phase = "items" /\ err = "ok" => Top \in Stood
  /\ phase = "items" /\ Stalled => Top.remaining # 0
  /\ phase = "string" =>
       Top.remaining # 0 /\ (err = "no_more_chunks" /\ Top.unknown => AtBreak(Top))
WholeInv ==
  /\ ~Stalled => \/ whole = [spine |-> spine, err |-> err] \/ BreakCameLate
                 \/ err = "unexpected_break" /\ whole.err = "unexpected_break"
  /\ Stalled /\ phase = "items" =>
       whole = OnTop(spine, All!PreparseValue(Top)) \/ CutAtBreak(Top, whole.err)
  /\ Stalled /\ phase = "string" => whole = OnTop(spine, All!GetChunk(Top))

LateInv == SpineInv /\ TopInv /\ WholeInv

-----------------------------------------------------------------------------
(* The head codec is the same over both byte sequences. *)
LEMMA SameCodec ==
  ASSUME NEW b, NEW p, NEW n, NEW s
  PROVE  /\ All!Descriptor(b) = Descriptor(b) /\ All!MajorOf(b) = MajorOf(b)
         /\ All!BytesNeeded(b) = BytesNeeded(b) /\ All!BreakByte = BreakByte
         /\ All!IndefiniteLength = IndefiniteLength
         /\ All!BeLoad(s, p, n) = BeLoad(s, p, n)
         /\ All!Argument(s, p) = Argument(s, p)
  BY DEF All!Descriptor, Descriptor, All!MajorOf, MajorOf, All!MajorName, MajorName,
         All!Major, Major, All!BytesNeeded, BytesNeeded, All!BreakByte, BreakByte,
         All!IndefiniteLength, IndefiniteLength, All!BeLoad, BeLoad, All!Argument, Argument,
         All!Load1, All!Load2, All!Load4, All!Load8, Load1, Load2, Load4, Load8,
         All!ByteBase, ByteBase

(* So are the steps that read no byte. *)
LEMMA SameShape ==
  ASSUME NEW it, NEW n, NEW e, NEW outer
  PROVE  /\ All!Result(e, it) = Result(e, it) /\ All!Advanced(it, n) = Advanced(it, n)
         /\ All!Blank(it) = Blank(it) /\ All!Inside(it) = Inside(it)
         /\ (All!IsString(it) <=> IsString(it)) /\ (All!IsContainer(it) <=> IsContainer(it))
         /\ (All!BreakForbidden(it) <=> BreakForbidden(it))
         /\ (All!CountsAsItem(it) <=> CountsAsItem(it))
         /\ All!ReservedHead(it) = ReservedHead(it)
         /\ All!IndefiniteHead(outer, it) = IndefiniteHead(outer, it)
         /\ All!ResumeAt(it) = ResumeAt(it)
         /\ All!BeginStringIteration(it) = BeginStringIteration(it)
         /\ All!Start = Start
  BY DEF All!Result, Result, All!Advanced, Advanced, All!Blank, Blank, All!Inside, Inside,
         All!IsString, IsString, All!IsContainer, IsContainer, All!StringMajors, StringMajors,
         All!ContainerMajors, ContainerMajors, All!BreakForbidden, BreakForbidden,
         All!MidPair, MidPair, All!CountsAsItem, CountsAsItem, All!ReservedHead, ReservedHead,
         All!IndefiniteHead, IndefiniteHead, All!ResumeAt, ResumeAt,
         All!BeginStringIteration, BeginStringIteration, All!Start, Start

-----------------------------------------------------------------------------
(* What has arrived is the beginning of the document. *)
LEMMA Beginning ==
  ASSUME buf \in Seq(Byte), rest \in Seq(Byte)
  PROVE  /\ buf \o rest \in Seq(Byte) /\ All!Limit \in Nat /\ Limit \in Nat \ {0}
         /\ Limit <= All!Limit /\ Limit = Len(buf) + 1
         /\ \A i \in 1 .. Len(buf) : (buf \o rest)[i] = buf[i]
  <1>1. /\ buf \o rest \in Seq(Byte) /\ Len(buf \o rest) = Len(buf) + Len(rest)
        /\ \A i \in 1 .. Len(buf) + Len(rest) :
             (buf \o rest)[i] = IF i <= Len(buf) THEN buf[i] ELSE rest[i - Len(buf)]
    BY ConcatProperties
  <1>2. Len(buf) \in Nat /\ Len(rest) \in Nat
    BY LenProperties
  <1> QED
    BY <1>1, <1>2 DEF Limit, All!Limit

LEMMA ReadsSame ==
  ASSUME buf \in Seq(Byte), rest \in Seq(Byte), NEW it \in Cursors,
         NEW n \in Nat \ {0}, CanRead(it, n)
  PROVE  /\ All!CanRead(it, n)
         /\ it.ptr # 0 => All!HeadByte(it) = HeadByte(it) /\ (All!AtBreak(it) <=> AtBreak(it))
  <1>1. it.ptr + n <= Limit /\ it.ptr \in Nat
    BY CanReadIs DEF Cursors
  <1>2. it.ptr < Limit /\ CanRead(it, 1)
    <2>1. it.ptr + 1 <= Limit
      BY <1>1, BufferType
    <2> QED
      BY <1>1, <2>1, CanReadIs, BufferType
  <1>3. All!CanRead(it, n) /\ All!CanRead(it, 1)
    BY <1>1, <1>2, Beginning DEF All!CanRead
  <1>4. it.ptr # 0 => All!HeadByte(it) = HeadByte(it)
    BY <1>1, <1>2, Beginning DEF All!HeadByte, HeadByte
  <1>5. All!BreakByte = BreakByte
    BY SameCodec
  <1> QED
    BY <1>2, <1>3, <1>4, <1>5 DEF All!AtBreak, AtBreak

LEMMA LoadsAlike ==
  ASSUME NEW s, NEW t, NEW q \in Nat, NEW n \in {1, 2, 4, 8},
         \A i \in q .. q + n - 1 : s[i] = t[i]
  PROVE  BeLoad(s, q, n) = BeLoad(t, q, n)
  <1>1. ASSUME NEW i \in Nat, q <= i, i + 1 <= q + n PROVE Load1(s, i) = Load1(t, i)
    BY <1>1 DEF Load1
  <1>2. ASSUME NEW i \in Nat, q <= i, i + 2 <= q + n PROVE Load2(s, i) = Load2(t, i)
    <2>1. Load1(s, i) = Load1(t, i) /\ Load1(s, i + 1) = Load1(t, i + 1)
      BY <1>1, <1>2
    <2> QED
      BY <2>1 DEF Load2
  <1>3. ASSUME NEW i \in Nat, q <= i, i + 4 <= q + n PROVE Load4(s, i) = Load4(t, i)
    <2>1. Load2(s, i) = Load2(t, i) /\ Load2(s, i + 2) = Load2(t, i + 2)
      BY <1>2, <1>3
    <2> QED
      BY <2>1 DEF Load4
  <1>4. ASSUME NEW i \in Nat, q <= i, i + 8 <= q + n PROVE Load8(s, i) = Load8(t, i)
    <2>1. Load4(s, i) = Load4(t, i) /\ Load4(s, i + 4) = Load4(t, i + 4)
      BY <1>3, <1>4
    <2> QED
      BY <2>1 DEF Load8
  <1>5. CASE n = 1
    BY <1>1, <1>5 DEF BeLoad
  <1>6. CASE n = 2
    BY <1>2, <1>6 DEF BeLoad
  <1>7. CASE n = 4
    BY <1>3, <1>7 DEF BeLoad
  <1>8. CASE n = 8
    BY <1>4, <1>8 DEF BeLoad
  <1> QED
    BY <1>5, <1>6, <1>7, <1>8

LEMMA LoadsSame ==
  ASSUME buf \in Seq(Byte), rest \in Seq(Byte),
         NEW q \in Nat \ {0}, NEW n \in {1, 2, 4, 8}, q + n <= Limit
  PROVE  BeLoad(buf \o rest, q, n) = BeLoad(buf, q, n)
  <1>1. \A i \in q .. q + n - 1 : i \in 1 .. Len(buf)
    BY Beginning
  <1>2. \A i \in q .. q + n - 1 : (buf \o rest)[i] = buf[i]
    BY <1>1, Beginning
  <1> QED
    BY <1>2, LoadsAlike

-----------------------------------------------------------------------------
(* The two records that decoding writes: see PreparseValue and Decoded.    *)
Typed(it, type, extra) == [Blank(it) EXCEPT !.type = type, !.extra = extra]
Labelled(it, type, extra, wide) ==
  [Blank(it) EXCEPT !.type = type, !.extra = extra, !.wide = wide]
Untyped(it) == [it EXCEPT !.type = "invalid"]
ArgumentOf(s, b, ptr) ==
  LET need == BytesNeeded(Descriptor(b))
  IN  IF need = 0 THEN Descriptor(b)
      ELSE IF need <= ExtraBytes THEN BeLoad(s, ptr + 1, need) ELSE 0
WidthOf(b) ==
  LET need == BytesNeeded(Descriptor(b)) IN IF need <= ExtraBytes THEN 0 ELSE need

Decoding(it, b, nothing, few, overlong, decoded) ==
  LET d == Descriptor(b)
      typed == Typed(it, MajorOf(b), d)
  IN  IF nothing THEN Result("unexpected_eof", Blank(it))
      ELSE CASE d = IndefiniteLength -> IndefiniteHead(it, typed)
             [] d > Value64Bit /\ d # IndefiniteLength -> ReservedHead(typed)
             [] OTHER -> IF few THEN Result("unexpected_eof", typed)
                         ELSE IF overlong THEN Result("illegal_simple_type", Untyped(decoded))
                         ELSE Result("ok", decoded)

LEMMA DecodingIs ==
  ASSUME NEW it
  PROVE  LET b == HeadByte(it)
         IN  /\ Decoded(it) = Labelled(it, MajorOf(b), ArgumentOf(buf, b, it.ptr), WidthOf(b))
             /\ PreparseValue(it)
                  = Decoding(it, b, ~CanRead(it, 1),
                             ~CanRead(it, BytesNeeded(Descriptor(b)) + 1),
                             Overlong(Decoded(it)), Decoded(it))
  <1>1. Decoded(it)
          = Labelled(it, MajorOf(HeadByte(it)), ArgumentOf(buf, HeadByte(it), it.ptr),
                     WidthOf(HeadByte(it)))
    BY DEF Decoded, Labelled, ArgumentOf, WidthOf
  <1>2. PreparseValue(it)
          = Decoding(it, HeadByte(it), ~CanRead(it, 1),
                     ~CanRead(it, BytesNeeded(Descriptor(HeadByte(it))) + 1),
                     Overlong(Decoded(it)), Decoded(it))
    BY DEF PreparseValue, Decoding, Typed, Untyped
  <1> QED
    BY <1>1, <1>2

LEMMA AllDecodingIs ==
  ASSUME NEW it
  PROVE  LET b == All!HeadByte(it)
         IN  /\ All!Decoded(it)
                  = Labelled(it, MajorOf(b), ArgumentOf(buf \o rest, b, it.ptr), WidthOf(b))
             /\ All!PreparseValue(it)
                  = Decoding(it, b, ~All!CanRead(it, 1),
                             ~All!CanRead(it, BytesNeeded(Descriptor(b)) + 1),
                             All!Overlong(All!Decoded(it)), All!Decoded(it))
  <1>1. All!Decoded(it)
          = Labelled(it, MajorOf(All!HeadByte(it)),
                     ArgumentOf(buf \o rest, All!HeadByte(it), it.ptr),
                     WidthOf(All!HeadByte(it)))
    BY DEF All!Decoded, Labelled, ArgumentOf, WidthOf, All!Blank, Blank,
           All!Descriptor, Descriptor, All!MajorOf, MajorOf, All!MajorName, MajorName,
           All!Major, Major, All!BytesNeeded, BytesNeeded, All!BeLoad, BeLoad,
           All!Load1, All!Load2, All!Load4, All!Load8, Load1, Load2, Load4, Load8,
           All!ByteBase, ByteBase
  <1>2. All!PreparseValue(it)
          = Decoding(it, All!HeadByte(it), ~All!CanRead(it, 1),
                     ~All!CanRead(it, BytesNeeded(Descriptor(All!HeadByte(it))) + 1),
                     All!Overlong(All!Decoded(it)), All!Decoded(it))
    BY DEF All!PreparseValue, Decoding, Typed, Untyped, All!Blank, Blank,
           All!Descriptor, Descriptor, All!MajorOf, MajorOf, All!MajorName, MajorName,
           All!Major, Major, All!BytesNeeded, BytesNeeded, All!Result, Result,
           All!IndefiniteHead, IndefiniteHead, All!ReservedHead, ReservedHead,
           All!IndefiniteLength, IndefiniteLength, All!IsString, IsString,
           All!IsContainer, IsContainer, All!StringMajors, StringMajors,
           All!ContainerMajors, ContainerMajors
  <1> QED
    BY <1>1, <1>2

LEMMA SameLabels ==
  ASSUME NEW x \in Cursors, NEW y \in Cursors, SameSlot(x, y), NEW type, NEW extra, NEW wide
  PROVE  /\ Typed(x, type, extra) = Typed(y, type, extra)
         /\ Labelled(x, type, extra, wide) = Labelled(y, type, extra, wide)
         /\ x.extra = y.extra => Blank(x) = Blank(y)
  BY DEF Blank, Cursors, SameSlot, Typed, Labelled

(* Decoding again what a decoding that failed left behind, over the whole. *)
LEMMA DecodesAgain ==
  ASSUME NEW x \in Cursors, NEW y \in Cursors, SameSlot(x, y),
         x.extra = y.extra \/ All!CanRead(y, 1)
  PROVE  All!PreparseValue(x) = All!PreparseValue(y)
  <1> DEFINE b == All!HeadByte(y)
             d == Descriptor(b)
             typed == Typed(y, MajorOf(b), d)
  <1>1. /\ All!HeadByte(x) = b /\ x.ptr = y.ptr
        /\ (All!CanRead(x, 1) <=> All!CanRead(y, 1))
        /\ (All!CanRead(x, BytesNeeded(d) + 1) <=> All!CanRead(y, BytesNeeded(d) + 1))
    BY DEF SameSlot, All!HeadByte, All!CanRead
  <1> HIDE DEF b
  <1>2. All!Decoded(x) = All!Decoded(y)
    BY <1>1, AllDecodingIs, SameLabels DEF b
  <1>3. Typed(x, MajorOf(b), d) = typed
    BY SameLabels
  <1>4. All!PreparseValue(x)
          = Decoding(x, b, ~All!CanRead(y, 1), ~All!CanRead(y, BytesNeeded(d) + 1),
                     All!Overlong(All!Decoded(y)), All!Decoded(y))
    BY <1>1, <1>2, AllDecodingIs
  <1>5. All!PreparseValue(y)
          = Decoding(y, b, ~All!CanRead(y, 1), ~All!CanRead(y, BytesNeeded(d) + 1),
                     All!Overlong(All!Decoded(y)), All!Decoded(y))
    BY AllDecodingIs DEF b
  <1>6. ASSUME All!CanRead(y, 1), NEW few, NEW over, NEW r
        PROVE  Decoding(x, b, FALSE, few, over, r) = Decoding(y, b, FALSE, few, over, r)
    <2>1. IndefiniteHead(x, typed) = IndefiniteHead(y, typed)
      BY DEF IndefiniteHead
    <2> HIDE DEF typed
    <2> QED
      BY <1>3, <2>1 DEF Decoding, typed
  <1>7. CASE All!CanRead(y, 1)
    BY <1>4, <1>5, <1>6, <1>7
  <1>8. CASE ~All!CanRead(y, 1)
    <2>1. Blank(x) = Blank(y)
      BY <1>8, SameLabels
    <2> QED
      BY <1>4, <1>5, <1>8, <2>1 DEF Decoding
  <1> QED
    BY <1>7, <1>8

(* A head that has arrived reads the same in the whole. *)
LEMMA DecodesSame ==
  ASSUME buf \in Seq(Byte), rest \in Seq(Byte), NEW it \in Cursors, Within(it),
         PreparseValue(it).err # "unexpected_eof"
  PROVE  All!PreparseValue(it) = PreparseValue(it)
  <1> DEFINE b == HeadByte(it)
             d == Descriptor(b)
             need == BytesNeeded(d)
  <1>1. PreparseValue(it)
          = Decoding(it, b, ~CanRead(it, 1), ~CanRead(it, need + 1),
                     Overlong(Decoded(it)), Decoded(it))
    BY DecodingIs
  <1>2. CanRead(it, 1)
    <2> SUFFICES ASSUME ~CanRead(it, 1) PROVE FALSE
      OBVIOUS
    <2> QED
      BY <1>1 DEF Decoding, Result
  <1>3. it.ptr \in 1 .. Len(buf)
    BY <1>2, CanReadIs, BufferType DEF Within, Cursors
  <1>4. All!CanRead(it, 1) /\ All!HeadByte(it) = b
    BY <1>2, <1>3, ReadsSame
  <1>5. b \in Byte /\ d \in Nat
    BY <1>3, BufferType, HeadType DEF HeadByte
  <1>6. All!PreparseValue(it)
          = Decoding(it, b, FALSE, ~All!CanRead(it, need + 1),
                     All!Overlong(All!Decoded(it)), All!Decoded(it))
    <2> HIDE DEF b
    <2> QED
      BY <1>4, AllDecodingIs
  <1> HIDE DEF b
  <1>7. CASE d = IndefiniteLength \/ d > Value64Bit
    BY <1>1, <1>2, <1>6, <1>7 DEF Decoding
  <1>8. CASE d # IndefiniteLength /\ ~(d > Value64Bit)
    <2>1. CanRead(it, need + 1)
      BY <1>1, <1>2, <1>8 DEF Decoding, Result
    <2>2. d <= Value64Bit /\ need \in Nat /\ (need # 0 => need \in {1, 2, 4, 8})
      BY <1>5, <1>8, NeededType, DescriptorsAssumption
    <2>3. All!CanRead(it, need + 1)
      BY <2>1, <2>2, ReadsSame
    <2>4. ArgumentOf(buf \o rest, b, it.ptr) = ArgumentOf(buf, b, it.ptr)
      <3>1. CASE need = 0
        BY <3>1 DEF ArgumentOf
      <3>2. CASE need # 0
        <4>1. it.ptr + (need + 1) <= Limit
          BY <2>1, <2>2, CanReadIs
        <4>2. it.ptr + 1 \in Nat \ {0} /\ (it.ptr + 1) + need <= Limit
          BY <1>3, <2>2, <4>1, BufferType
        <4>3. BeLoad(buf \o rest, it.ptr + 1, need) = BeLoad(buf, it.ptr + 1, need)
          <5> HIDE DEF need
          <5> QED
            BY <2>2, <3>2, <4>2, LoadsSame
        <4> QED
          BY <4>3 DEF ArgumentOf
      <3> QED
        BY <3>1, <3>2
    <2>5. All!Decoded(it) = Decoded(it)
      BY <1>4, <2>4, DecodingIs, AllDecodingIs DEF b
    <2>6. All!Overlong(Decoded(it)) <=> Overlong(Decoded(it))
      <3>1. Decoded(it).ptr = it.ptr
        <4>1. Labelled(it, MajorOf(b), ArgumentOf(buf, b, it.ptr), WidthOf(b)).ptr = it.ptr
          BY DEF Labelled, Blank, Cursors
        <4> QED
          BY <4>1, DecodingIs DEF b
      <3>2. All!HeadByte(Decoded(it)) = b /\ HeadByte(Decoded(it)) = b
        BY <1>4, <3>1 DEF All!HeadByte, HeadByte, b
      <3> QED
        BY <3>2, SameCodec DEF All!Overlong, Overlong
    <2> HIDE DEF need
    <2>7. /\ PreparseValue(it)
               = Decoding(it, b, FALSE, FALSE, Overlong(Decoded(it)), Decoded(it))
          /\ All!PreparseValue(it)
               = Decoding(it, b, FALSE, FALSE, All!Overlong(Decoded(it)), Decoded(it))
      BY <1>1, <1>2, <1>6, <2>1, <2>3, <2>5 DEF Decoding
    <2> QED
      BY <2>6, <2>7 DEF Decoding
  <1> QED
    BY <1>7, <1>8

-----------------------------------------------------------------------------
(* preparse_value, preparse_next_value_nodecrement, preparse_next_value:   *)
(* whether they had their bytes or not.                                    *)
LEMMA ValueResumes ==
  ASSUME buf \in Seq(Byte), rest \in Seq(Byte), NEW it \in Cursors, Within(it)
  PROVE  LET r == PreparseValue(it)
         IN  /\ Resumes(r, All!PreparseValue(it))
             /\ r.err = "unexpected_eof" => All!PreparseValue(r.it) = All!PreparseValue(it)
  <1> DEFINE r == PreparseValue(it)
  <1>1. r.it \in Cursors /\ SameSlot(r.it, it)
    BY PreparseValueProperties
  <1>2. r.err = "unexpected_eof" => All!PreparseValue(r.it) = All!PreparseValue(it)
    <2>1. CASE CanRead(it, 1)
      <3>1. All!CanRead(it, 1)
        BY <2>1, ReadsSame
      <3> HIDE DEF r
      <3> QED
        BY <1>1, <3>1, DecodesAgain
    <2>2. CASE ~CanRead(it, 1)
      <3>1. r.it = Blank(it)
        BY <2>2 DEF PreparseValue, Result
      <3>2. r.it.extra = it.extra
        BY <3>1, BlankIs
      <3> HIDE DEF r
      <3> QED
        BY <1>1, <3>2, DecodesAgain
    <2> QED
      BY <2>1, <2>2
  <1>3. r.err # "unexpected_eof" => All!PreparseValue(it) = r
    BY DecodesSame
  <1> QED
    BY <1>2, <1>3 DEF Resumes

LEMMA NoDecrementResumes ==
  ASSUME buf \in Seq(Byte), rest \in Seq(Byte), NEW it \in Cursors, Within(it),
         it.remaining # 0
  PROVE  LET r == PreparseNoDecrement(it)
         IN  /\ Resumes(r, All!PreparseNoDecrement(it))
             /\ r.err = "unexpected_eof" => r.it.remaining # 0
  <1> DEFINE r == PreparseNoDecrement(it)
             all == All!PreparseNoDecrement(it)
             ended == [it EXCEPT !.type = "invalid", !.remaining = 0, !.unknown = TRUE]
  <1> SUFFICES /\ Resumes(r, all)
               /\ r.err = "unexpected_eof" => r.it.remaining # 0
    OBVIOUS
  <1>1. all = IF it.remaining = U32Max /\ All!AtBreak(it)
              THEN IF BreakForbidden(it) THEN Result("unexpected_break", it)
                   ELSE Result("ok", ended)
              ELSE All!PreparseValue(it)
    BY SameShape DEF All!PreparseNoDecrement
  <1>2. r = IF it.remaining = U32Max /\ AtBreak(it)
            THEN IF BreakForbidden(it) THEN Result("unexpected_break", it)
                 ELSE Result("ok", ended)
            ELSE PreparseValue(it)
    BY DEF PreparseNoDecrement
  <1>3. it.ptr # 0
    BY BufferType DEF Within
  <1> HIDE DEF ended
  <1>4. CASE it.remaining = U32Max /\ AtBreak(it)
    <2>1. All!AtBreak(it)
      BY <1>3, <1>4, ReadsSame DEF AtBreak
    <2>2. r = all /\ r.err # "unexpected_eof"
      BY <1>1, <1>2, <1>4, <2>1 DEF Result
    <2> QED
      BY <2>2 DEF Resumes
  <1>5. CASE ~(it.remaining = U32Max /\ AtBreak(it))
    <2>1. r = PreparseValue(it) /\ r.it \in Cursors /\ SameSlot(r.it, it)
      BY <1>2, <1>5, PreparseValueProperties
    <2>2. r.it.remaining = it.remaining /\ r.it.ptr = it.ptr
      BY <2>1 DEF SameSlot
    <2>3. CASE it.remaining = U32Max /\ All!AtBreak(it)
      <3>1. ~CanRead(it, 1)
        BY <1>3, <1>5, <2>3, ReadsSame
      <3>2. r.err = "unexpected_eof"
        BY <2>1, <3>1 DEF PreparseValue, Result
      <3>3. all.err \in {"ok", "unexpected_break"}
        BY <1>1, <2>3 DEF Result
      <3>4. All!AtBreak(r.it)
        BY <2>2, <2>3 DEF All!AtBreak, All!CanRead, All!HeadByte
      <3> HIDE DEF r, all
      <3> QED
        BY <2>2, <2>3, <3>2, <3>3, <3>4 DEF Resumes, CutAtBreak
    <2>4. CASE ~(it.remaining = U32Max /\ All!AtBreak(it))
      <3>1. all = All!PreparseValue(it)
        BY <1>1, <2>4
      <3>2. Resumes(PreparseValue(it), All!PreparseValue(it))
        BY ValueResumes
      <3> QED
        BY <2>1, <2>2, <3>1, <3>2
    <2> QED
      BY <2>3, <2>4
  <1> QED
    BY <1>4, <1>5

LEMMA NextResumes ==
  ASSUME buf \in Seq(Byte), rest \in Seq(Byte), NEW it \in Cursors, Within(it),
         it.remaining # 0
  PROVE  LET r == PreparseNext(it)
         IN  /\ Resumes(r, All!PreparseNext(it))
             /\ r.err = "unexpected_eof" => r.it.remaining # 0
  <1> DEFINE r == PreparseNext(it)
             all == All!PreparseNext(it)
             ended == [it EXCEPT !.type = "invalid", !.remaining = 0, !.unknown = FALSE]
             left == IF it.remaining = U32Max THEN it.remaining ELSE it.remaining - 1
             flipped == ~it.key
             counted == [it EXCEPT !.remaining = left, !.key = flipped]
  <1> SUFFICES /\ Resumes(r, all)
               /\ r.err = "unexpected_eof" => r.it.remaining # 0
    OBVIOUS
  <1>1. all = IF ~CountsAsItem(it) THEN All!PreparseNoDecrement(it)
              ELSE IF it.remaining = 1 THEN Result("ok", ended)
              ELSE All!PreparseNoDecrement(counted)
    BY SameShape DEF All!PreparseNext
  <1>2. r = IF ~CountsAsItem(it) THEN PreparseNoDecrement(it)
            ELSE IF it.remaining = 1 THEN Result("ok", ended)
            ELSE PreparseNoDecrement(counted)
    BY DEF PreparseNext
  <1>3. CASE ~CountsAsItem(it)
    <2>1. r = PreparseNoDecrement(it) /\ all = All!PreparseNoDecrement(it)
      BY <1>1, <1>2, <1>3
    <2> HIDE DEF r, all
    <2> QED
      BY <2>1, NoDecrementResumes DEF r, all
  <1>4. CASE CountsAsItem(it) /\ it.remaining = 1
    <2>1. r = Result("ok", ended) /\ all = Result("ok", ended)
      BY <1>1, <1>2, <1>4
    <2> HIDE DEF r, all, ended
    <2> QED
      BY <2>1 DEF Resumes, Result, r, all
  <1>5. CASE CountsAsItem(it) /\ it.remaining # 1
    <2>1. r = PreparseNoDecrement(counted) /\ all = All!PreparseNoDecrement(counted)
      BY <1>1, <1>2, <1>5
    <2>2. left \in 0 .. U32Max /\ left # 0 /\ flipped \in BOOLEAN
      BY <1>5, CursorAssumption DEF Cursors
    <2> HIDE DEF left, flipped
    <2>3. counted \in Cursors /\ counted.ptr = it.ptr /\ counted.remaining = left
      BY <2>2 DEF Cursors
    <2> HIDE DEF counted, r, all
    <2>4. Within(counted)
      BY <2>3 DEF Within
    <2> QED
      BY <2>1, <2>2, <2>3, <2>4, NoDecrementResumes DEF r, all
  <1> QED
    BY <1>3, <1>4, <1>5

-----------------------------------------------------------------------------
(* The calls that can be resumed. *)
Outcome(r, all) ==
  /\ Resumes(r, all) /\ r.it \in Placed
  /\ r.err = "ok" => r.it \in Stood
  /\ r.err = "unexpected_eof" => r.it.remaining # 0

LEMMA NoDecrementOutcome ==
  ASSUME buf \in Seq(Byte), rest \in Seq(Byte), NEW it \in Cursors, Within(it),
         it.remaining # 0
  PROVE  Outcome(PreparseNoDecrement(it), All!PreparseNoDecrement(it))
  <1> DEFINE r == PreparseNoDecrement(it)
  <1>1. r.it \in Cursors /\ r.it.ptr = it.ptr /\ (r.err = "ok" => Standing(r.it))
    BY NoDecrementProperties
  <1>2. Resumes(r, All!PreparseNoDecrement(it)) /\ (r.err = "unexpected_eof" => r.it.remaining # 0)
    BY NoDecrementResumes
  <1> HIDE DEF r
  <1> QED
    BY <1>1, <1>2 DEF Outcome, Placed, Stood, Within, r

LEMMA NextOutcome ==
  ASSUME buf \in Seq(Byte), rest \in Seq(Byte), NEW it \in Cursors, Within(it),
         it.remaining # 0
  PROVE  Outcome(PreparseNext(it), All!PreparseNext(it))
  <1> DEFINE r == PreparseNext(it)
  <1>1. r.it \in Cursors /\ r.it.ptr = it.ptr /\ (r.err = "ok" => Standing(r.it))
    BY NextProperties
  <1>2. Resumes(r, All!PreparseNext(it)) /\ (r.err = "unexpected_eof" => r.it.remaining # 0)
    BY NextResumes
  <1> HIDE DEF r
  <1> QED
    BY <1>1, <1>2 DEF Outcome, Placed, Stood, Within, r

LEMMA HeadSame ==
  ASSUME buf \in Seq(Byte), rest \in Seq(Byte), NEW it \in Cursors, HeadHere(it)
  PROVE  /\ All!PastHead(it) = PastHead(it)
         /\ ~it.unknown => All!Int64(it) = Int64(it)
  <1> DEFINE d == Descriptor(HeadByte(it))
             need == BytesNeeded(d)
  <1>1. it.ptr \in 1 .. Len(buf) /\ HeadByte(it) \in Byte
    BY HeadProperties DEF HeadHere
  <1>2. All!HeadByte(it) = HeadByte(it)
    <2>1. CanRead(it, 1)
      BY <1>1, CanReadIs, BufferType
    <2> QED
      BY <1>1, <2>1, ReadsSame
  <1>3. All!PastHead(it) = PastHead(it)
    BY <1>2, SameCodec, SameShape DEF All!PastHead, PastHead
  <1>4. ASSUME ~it.unknown PROVE All!Int64(it) = Int64(it)
    <2>1. CASE it.wide = 0
      BY <2>1 DEF All!Int64, Int64
    <2>2. CASE it.wide # 0
      <3>1. it.wide = need /\ it.ptr + 1 + need <= Limit
        BY <1>4, <2>2 DEF HeadHere
      <3> HIDE DEF need
      <3>2. need \in {1, 2, 4, 8}
        BY <2>2, <3>1 DEF Cursors
      <3>3. it.ptr + 1 \in Nat \ {0} /\ (it.ptr + 1) + need <= Limit
        BY <1>1, <3>1, <3>2, BufferType
      <3>4. BeLoad(buf \o rest, it.ptr + 1, need) = BeLoad(buf, it.ptr + 1, need)
        BY <3>2, <3>3, LoadsSame
      <3> QED
        BY <2>2, <3>1, <3>4, SameCodec DEF All!Int64, Int64
    <2> QED
      BY <2>1, <2>2
  <1> QED
    BY <1>3, <1>4

LEMMA AdvanceOutcome ==
  ASSUME buf \in Seq(Byte), rest \in Seq(Byte), NEW it \in Cursors, HeadHere(it),
         it.remaining # 0, ~IsString(it), ~IsContainer(it)
  PROVE  Outcome(AdvanceInternal(it), All!AdvanceInternal(it))
  <1> DEFINE past == PastHead(it)
  <1>1. /\ AdvanceInternal(it) = PreparseNext(past)
        /\ All!AdvanceInternal(it) = All!PreparseNext(past)
    BY HeadSame, SameShape DEF AdvanceInternal, All!AdvanceInternal
  <1>2. past \in Cursors /\ Within(past) /\ past.remaining = it.remaining
    BY HeadProperties
  <1> HIDE DEF past
  <1> QED
    BY <1>1, <1>2, NextOutcome

LEMMA EnterOutcome ==
  ASSUME buf \in Seq(Byte), rest \in Seq(Byte), NEW it \in Cursors, HeadHere(it),
         it.remaining # 0, IsContainer(it)
  PROVE  Outcome(EnterContainer(it), All!EnterContainer(it))
  <1> DEFINE r == EnterContainer(it)
             all == All!EnterContainer(it)
  <1> SUFFICES Outcome(r, all)
    OBVIOUS
  <1>1. U32Max \in Nat /\ U32Max > 1
    BY CursorAssumption
  <1>2. CASE it.unknown
    <2> DEFINE past == Advanced(it, 1)
               inside == [Inside(past) EXCEPT !.remaining = U32Max]
    <2>1. past \in Cursors /\ Within(past)
      BY HeadProperties
    <2>2. r = PreparseNoDecrement(inside) /\ all = All!PreparseNoDecrement(inside)
      BY <1>2, SameShape DEF EnterContainer, All!EnterContainer
    <2> HIDE DEF past, r, all
    <2>3. inside \in Cursors /\ inside.ptr = past.ptr /\ inside.remaining # 0
      BY <1>1, <2>1, Neutral, InsideIs
    <2> HIDE DEF inside
    <2> QED
      BY <2>1, <2>2, <2>3, NoDecrementOutcome DEF Within
  <1>3. CASE ~it.unknown
    <2> DEFINE past == PastHead(it)
               n == Int64(it)
               items == IF it.type = "map" THEN 2 * n ELSE n
               large == [it EXCEPT !.remaining = n % (U32Max + 1)]
               empty == [past EXCEPT !.remaining = 0, !.type = "invalid"]
               inside == [Inside(past) EXCEPT !.remaining = items]
    <2>1. All!TooLarge(it) <=> TooLarge(it)
      BY <1>3, HeadSame DEF All!TooLarge, TooLarge
    <2>2. r = IF TooLarge(it) THEN Result("data_too_large", large)
              ELSE IF items = 0 THEN Result("ok", empty)
              ELSE PreparseNoDecrement(inside)
      BY <1>3 DEF EnterContainer
    <2>3. all = IF TooLarge(it) THEN Result("data_too_large", large)
                ELSE IF items = 0 THEN Result("ok", empty)
                ELSE All!PreparseNoDecrement(inside)
      <3>1. All!Int64(it) = n /\ All!PastHead(it) = past
        BY <1>3, HeadSame
      <3> HIDE DEF n, past
      <3> QED
        BY <1>3, <2>1, <3>1, SameShape DEF All!EnterContainer
    <2>4. /\ r.it \in Cursors /\ Within(r.it) /\ (r.err = "ok" => Standing(r.it))
      BY EnterProperties
    <2> HIDE DEF past, n, large, empty, items, r, all
    <2>5. CASE TooLarge(it) \/ items = 0
      <3>1. r = all /\ r.err # "unexpected_eof"
        BY <2>2, <2>3, <2>5 DEF Result
      <3> QED
        BY <2>4, <3>1 DEF Outcome, Resumes, Placed, Stood
    <2>6. CASE ~TooLarge(it) /\ items # 0
      <3>1. r = PreparseNoDecrement(inside) /\ all = All!PreparseNoDecrement(inside)
        BY <2>2, <2>3, <2>6
      <3>2. past \in Cursors /\ Within(past)
        BY <1>3, HeadProperties DEF past
      <3>3. items \in 0 .. U32Max
        BY <1>3, <2>6, ItemsFit DEF items, n
      <3>4. inside \in Cursors /\ inside.ptr = past.ptr /\ inside.remaining # 0
        BY <2>6, <3>2, <3>3, InsideIs
      <3> HIDE DEF inside
      <3> QED
        BY <3>1, <3>2, <3>4, NoDecrementOutcome DEF Within
    <2> QED
      BY <2>5, <2>6
  <1> QED
    BY <1>2, <1>3

LEMMA LeaveOutcome ==
  ASSUME buf \in Seq(Byte), rest \in Seq(Byte), NEW it \in Cursors, it.remaining # 0,
         NEW recursed, Standing(recursed), recursed.remaining = 0
  PROVE  Outcome(LeaveContainer(it, recursed), All!LeaveContainer(it, recursed))
  <1> DEFINE at == ResumeAt(recursed)
             moved == [it EXCEPT !.ptr = at]
  <1>1. at \in 1 .. Limit
    BY ResumeProperties
  <1>2. /\ LeaveContainer(it, recursed) = PreparseNext(moved)
        /\ All!LeaveContainer(it, recursed) = All!PreparseNext(moved)
    BY SameShape DEF LeaveContainer, All!LeaveContainer
  <1> HIDE DEF at
  <1>3. moved \in Cursors /\ moved.ptr = at /\ moved.remaining # 0
    <2>1. at \in Nat
      BY <1>1, BufferType
    <2> QED
      BY <2>1 DEF Cursors
  <1>4. Within(moved)
    BY <1>1, <1>3 DEF Within
  <1> HIDE DEF moved
  <1> QED
    BY <1>2, <1>3, <1>4, NextOutcome

LEMMA FinishOutcome ==
  ASSUME buf \in Seq(Byte), rest \in Seq(Byte), NEW it \in Cursors, Within(it),
         it.remaining # 0, it.unknown => AtBreak(it)
  PROVE  Outcome(FinishStringIteration(it), All!FinishStringIteration(it))
  <1> DEFINE past == Advanced(it, 1)
             at == IF it.unknown THEN past ELSE it
  <1>1. past \in Cursors /\ past.ptr = it.ptr + 1 /\ past.remaining = it.remaining
    BY AdvancedIs
  <1>2. it.unknown => it.ptr < Limit
    BY CanReadIs, BufferType DEF AtBreak, Within
  <1>3. /\ FinishStringIteration(it) = PreparseNext(at)
        /\ All!FinishStringIteration(it) = All!PreparseNext(at)
    BY SameShape DEF FinishStringIteration, All!FinishStringIteration
  <1> HIDE DEF past
  <1>4. at \in Cursors /\ Within(at) /\ at.remaining # 0
    BY <1>1, <1>2, BufferType DEF Within
  <1> HIDE DEF at
  <1> QED
    BY <1>3, <1>4, NextOutcome

-----------------------------------------------------------------------------
(* chunk_size, as decoding above. *)
Sizing(it, b, nothing, few, len) ==
  LET fail(error) == [err |-> error, offset |-> 0, len |-> 0]
      d == Descriptor(b)
  IN  IF ~it.unknown /\ ~it.first THEN fail("no_more_chunks")
      ELSE IF nothing THEN fail("unexpected_eof")
      ELSE IF b = BreakByte THEN fail("no_more_chunks")
      ELSE IF MajorOf(b) # it.type THEN fail("illegal_type")
      ELSE IF d > Value64Bit THEN fail("illegal_number")
      ELSE IF few THEN fail("unexpected_eof")
      ELSE [err |-> "ok", offset |-> 1 + BytesNeeded(d), len |-> len]

LEMMA SizingIs ==
  ASSUME NEW it
  PROVE  /\ ChunkSize(it)
              = Sizing(it, HeadByte(it), ~CanRead(it, 1),
                       ~CanRead(it, 1 + BytesNeeded(Descriptor(HeadByte(it)))),
                       Argument(buf, it.ptr))
         /\ All!ChunkSize(it)
              = Sizing(it, All!HeadByte(it), ~All!CanRead(it, 1),
                       ~All!CanRead(it, 1 + BytesNeeded(Descriptor(All!HeadByte(it)))),
                       Argument(buf \o rest, it.ptr))
  <1>1. ChunkSize(it)
          = Sizing(it, HeadByte(it), ~CanRead(it, 1),
                   ~CanRead(it, 1 + BytesNeeded(Descriptor(HeadByte(it)))),
                   Argument(buf, it.ptr))
    <2>1. CASE CanRead(it, 1)
      BY <2>1 DEF ChunkSize, Sizing, AtBreak, ChunkArgument
    <2>2. CASE ~CanRead(it, 1)
      BY <2>2 DEF ChunkSize, Sizing
    <2> QED
      BY <2>1, <2>2
  <1>2. /\ All!ChunkArgument(it) = Argument(buf \o rest, it.ptr)
        /\ All!Descriptor(All!HeadByte(it)) = Descriptor(All!HeadByte(it))
        /\ All!MajorOf(All!HeadByte(it)) = MajorOf(All!HeadByte(it))
        /\ All!BytesNeeded(Descriptor(All!HeadByte(it)))
             = BytesNeeded(Descriptor(All!HeadByte(it)))
        /\ All!BreakByte = BreakByte
    BY SameCodec DEF All!ChunkArgument
  <1>3. All!ChunkSize(it)
          = Sizing(it, All!HeadByte(it), ~All!CanRead(it, 1),
                   ~All!CanRead(it, 1 + BytesNeeded(Descriptor(All!HeadByte(it)))),
                   Argument(buf \o rest, it.ptr))
    <2>1. CASE All!CanRead(it, 1)
      BY <1>2, <2>1 DEF All!ChunkSize, Sizing, All!AtBreak
    <2>2. CASE ~All!CanRead(it, 1)
      BY <2>2 DEF All!ChunkSize, Sizing
    <2> QED
      BY <2>1, <2>2
  <1> QED
    BY <1>1, <1>3

LEMMA ChunkSizeSame ==
  ASSUME buf \in Seq(Byte), rest \in Seq(Byte), NEW it \in Cursors, Within(it),
         ChunkSize(it).err # "unexpected_eof"
  PROVE  All!ChunkSize(it) = ChunkSize(it)
  <1> DEFINE b == HeadByte(it)
             d == Descriptor(b)
             need == BytesNeeded(d)
  <1>1. ChunkSize(it) = Sizing(it, b, ~CanRead(it, 1), ~CanRead(it, 1 + need),
                               Argument(buf, it.ptr))
    BY SizingIs
  <1>2. CASE ~it.unknown /\ ~it.first
    BY <1>2, SizingIs DEF Sizing
  <1>3. CASE it.unknown \/ it.first
    <2>1. CanRead(it, 1)
      BY <1>1, <1>3 DEF Sizing
    <2>2. it.ptr \in 1 .. Len(buf)
      BY <2>1, CanReadIs, BufferType DEF Within, Cursors
    <2>3. All!CanRead(it, 1) /\ All!HeadByte(it) = b
      BY <2>1, <2>2, ReadsSame
    <2>4. b \in Byte /\ d \in Nat
      BY <2>2, BufferType, HeadType DEF HeadByte
    <2>5. All!ChunkSize(it) = Sizing(it, b, FALSE, ~All!CanRead(it, 1 + need),
                                     Argument(buf \o rest, it.ptr))
      <3> HIDE DEF b
      <3> QED
        BY <2>3, SizingIs
    <2>6. CASE b = BreakByte \/ MajorOf(b) # it.type \/ d > Value64Bit
      <3> HIDE DEF b
      <3> QED
        BY <1>1, <2>1, <2>5, <2>6 DEF Sizing
    <2>7. CASE ~(b = BreakByte) /\ ~(MajorOf(b) # it.type) /\ ~(d > Value64Bit)
      <3>1. CanRead(it, 1 + need)
        <4> HIDE DEF b
        <4> QED
          BY <1>1, <1>3, <2>1, <2>7 DEF Sizing
      <3>2. /\ d <= Value64Bit /\ need \in Nat /\ (d < Value8Bit <=> need = 0)
            /\ (need # 0 => need \in {1, 2, 4, 8})
        BY <2>4, <2>7, NeededType, DescriptorsAssumption
      <3>3. All!CanRead(it, 1 + need)
        BY <3>1, <3>2, ReadsSame
      <3>4. Argument(buf \o rest, it.ptr) = Argument(buf, it.ptr)
        <4>1. (buf \o rest)[it.ptr] = b /\ buf[it.ptr] = b
          BY <2>2, Beginning DEF HeadByte
        <4>2. /\ Argument(buf, it.ptr)
                   = IF d < Value8Bit THEN d ELSE BeLoad(buf, it.ptr + 1, need)
              /\ Argument(buf \o rest, it.ptr)
                   = IF d < Value8Bit THEN d ELSE BeLoad(buf \o rest, it.ptr + 1, need)
          BY <4>1 DEF Argument
        <4> HIDE DEF need, d, b
        <4>3. CASE d < Value8Bit
          BY <4>2, <4>3
        <4>4. CASE ~(d < Value8Bit)
          <5>1. need \in {1, 2, 4, 8} /\ it.ptr + (1 + need) <= Limit
            BY <3>1, <3>2, <4>4, CanReadIs
          <5>2. it.ptr + 1 \in Nat \ {0} /\ (it.ptr + 1) + need <= Limit
            BY <2>2, <5>1, BufferType
          <5>3. BeLoad(buf \o rest, it.ptr + 1, need) = BeLoad(buf, it.ptr + 1, need)
            BY <5>1, <5>2, LoadsSame
          <5> QED
            BY <4>2, <4>4, <5>3
        <4> QED
          BY <4>3, <4>4
      <3> HIDE DEF need, b
      <3> QED
        BY <1>1, <2>1, <2>5, <3>1, <3>3, <3>4
    <2> QED
      BY <2>6, <2>7
  <1> QED
    BY <1>2, <1>3

LEMMA AllGetChunkIs ==
  ASSUME NEW it
  PROVE  LET size == All!ChunkSize(it)
             past == Advanced(it, size.offset)
         IN  All!GetChunk(it)
               = IF size.err # "ok" THEN Result(size.err, it)
                 ELSE IF ~All!CanRead(past, size.len) THEN Result("unexpected_eof", past)
                 ELSE Result("ok", [Advanced(past, size.len) EXCEPT !.first = FALSE])
  BY DEF All!GetChunk, All!Result, Result, All!Advanced, Advanced

(* A chunk that has arrived is the chunk; one that has not is asked for    *)
(* again, from the same place, and is not there at all when all the bytes  *)
(* are.                                                                    *)
LEMMA ChunkOutcome ==
  ASSUME buf \in Seq(Byte), rest \in Seq(Byte), NEW it \in Cursors, Within(it),
         it.remaining # 0
  PROVE  LET r == ReaderChunk(it)
         IN  /\ r.err # "unexpected_eof" => All!GetChunk(it) = r
             /\ r.err = "unexpected_eof" => r.it = it /\ GetChunk(it).err = "unexpected_eof"
             /\ r.it \in Placed /\ r.it.remaining # 0
             /\ r.err = "no_more_chunks" => r.it = it /\ (it.unknown => AtBreak(it))
  <1> DEFINE size == ChunkSize(it)
             past == Advanced(it, size.offset)
             done == [Advanced(past, size.len) EXCEPT !.first = FALSE]
             r == ReaderChunk(it)
             mine == GetChunk(it)
             all == All!GetChunk(it)
  <1> SUFFICES
        /\ r.err # "unexpected_eof" => all = r
        /\ r.err = "unexpected_eof" => r.it = it /\ mine.err = "unexpected_eof"
        /\ r.it \in Placed /\ r.it.remaining # 0
        /\ r.err = "no_more_chunks" => r.it = it /\ (it.unknown => AtBreak(it))
    OBVIOUS
  <1>1. it.ptr # 0 /\ it \in Placed
    BY BufferType DEF Within, Placed
  <1>2. size.err = "no_more_chunks" => (it.unknown => AtBreak(it))
    BY <1>1, ChunkSizeProperties
  <1>3. mine = IF size.err # "ok" THEN Result(size.err, it)
               ELSE IF ~CanRead(past, size.len) THEN Result("unexpected_eof", past)
               ELSE Result("ok", done)
    BY DEF GetChunk
  <1>4. r = IF size.err = "ok" /\ ~CanRead(it, size.offset + size.len)
            THEN Result("unexpected_eof", it)
            ELSE IF size.err = "ok" THEN mine ELSE Result(size.err, it)
    BY DEF ReaderChunk
  <1>5. CASE size.err # "ok"
    <2>1. r = Result(size.err, it) /\ mine = r
      BY <1>3, <1>4, <1>5
    <2>2. size.err # "unexpected_eof" => all = Result(size.err, it)
      BY <1>5, ChunkSizeSame, SameShape DEF All!GetChunk
    <2> HIDE DEF size, r, mine, all
    <2> QED
      BY <1>1, <1>2, <2>1, <2>2 DEF Result
  <1>6. CASE size.err = "ok"
    <2>1. size.offset \in Nat \ {0} /\ size.len \in Nat
      BY <1>1, <1>6, ChunkSizeProperties
    <2>2. All!ChunkSize(it) = size
      BY <1>6, ChunkSizeSame
    <2>3. all = IF ~All!CanRead(past, size.len) THEN Result("unexpected_eof", past)
                ELSE Result("ok", done)
      <3> DEFINE other == All!ChunkSize(it)
      <3>1. all = IF other.err # "ok" THEN Result(other.err, it)
                  ELSE IF ~All!CanRead(Advanced(it, other.offset), other.len)
                  THEN Result("unexpected_eof", Advanced(it, other.offset))
                  ELSE Result("ok", [Advanced(Advanced(it, other.offset), other.len)
                                       EXCEPT !.first = FALSE])
        BY AllGetChunkIs
      <3>2. other = size
        BY <2>2
      <3> HIDE DEF size, other, all
      <3> QED
        BY <1>6, <3>1, <3>2
    <2>4. /\ mine.it \in Cursors /\ mine.it.remaining = it.remaining
          /\ mine.err = "ok" => Within(mine.it)
      BY <1>1, ChunkProperties
    <2>5. past \in Cursors /\ past.ptr = it.ptr + size.offset /\ it.ptr \in Nat
      <3> HIDE DEF size
      <3> QED
        BY <2>1, AdvancedIs DEF Cursors
    <2> HIDE DEF size, past, done, r, mine, all
    <2>6. CASE ~CanRead(it, size.offset + size.len)
      <3>1. r = Result("unexpected_eof", it)
        BY <1>4, <1>6, <2>6
      <3>2. ~CanRead(past, size.len)
        <4>1. CASE size.len # 0
          <5> DEFINE o == size.offset
                     l == size.len
                     p == it.ptr
          <5>1. o \in Nat \ {0} /\ l \in Nat \ {0} /\ p \in Nat /\ Limit \in Nat
                /\ past.ptr = p + o
            BY <2>1, <2>5, <4>1, BufferType
          <5>2. o + l \in Nat \ {0}
            <6> HIDE DEF o, l
            <6> QED
              BY <5>1
          <5>3. ~(p + (o + l) <= Limit)
            BY <2>6, <5>2, CanReadIs
          <5> HIDE DEF o, l, p
          <5>4. ~(past.ptr + l <= Limit)
            BY <5>1, <5>3
          <5>5. ~CanRead(past, l)
            BY <2>5, <5>1, <5>4, CanReadIs
          <5> QED
            BY <5>5 DEF l
        <4>2. CASE size.len = 0
          <5>1. it.ptr + size.offset <= Limit
            BY <1>1, <1>6, ChunkSizeProperties DEF size
          <5>2. size.offset + size.len = size.offset
            BY <2>1, <4>2
          <5> QED
            BY <2>1, <2>6, <5>1, <5>2, CanReadIs
        <4> QED
          BY <4>1, <4>2
      <3> QED
        BY <1>1, <1>3, <1>6, <3>1, <3>2 DEF Result
    <2>7. CASE CanRead(it, size.offset + size.len)
      <3>1. it.ptr + (size.offset + size.len) <= Limit
        BY <2>1, <2>7, CanReadIs
      <3>2. past.ptr + size.len <= Limit /\ Limit <= All!Limit /\ past.ptr \in Nat
            /\ Limit \in Nat /\ All!Limit \in Nat
        BY <2>1, <2>5, <3>1, Beginning
      <3>3. CanRead(past, size.len) /\ All!CanRead(past, size.len)
        BY <2>1, <3>2 DEF CanRead, All!CanRead
      <3>4. r = mine /\ mine = Result("ok", done) /\ all = Result("ok", done)
        BY <1>3, <1>4, <1>6, <2>3, <2>7, <3>3
      <3> QED
        BY <2>4, <3>4 DEF Result, Placed
    <2> QED
      BY <2>6, <2>7
  <1> QED
    BY <1>5, <1>6

-----------------------------------------------------------------------------
(* The whole document stays what it is, and so does what is in it. *)
LEMMA ArrivalMovesBytes ==
  ASSUME buf \in Seq(Byte), rest \in Seq(Byte), Arrives
  PROVE  /\ buf' \in Seq(Byte) /\ rest' \in Seq(Byte) /\ buf' \o rest' = buf \o rest
         /\ Limit' = Limit + 1 /\ \A i \in 1 .. Len(buf) : buf'[i] = buf[i]
  <1> DEFINE h == Head(rest)
  <1>1. rest # << >> /\ buf' = Append(buf, h) /\ rest' = Tail(rest)
    BY DEF Arrives
  <1>2. /\ h \in Byte /\ Tail(rest) \in Seq(Byte) /\ Len(Tail(rest)) = Len(rest) - 1
        /\ \A i \in 1 .. Len(rest) - 1 : Tail(rest)[i] = rest[i + 1]
        /\ Len(rest) \in Nat \ {0} /\ h = rest[1]
    BY <1>1, HeadTailProperties, EmptySeq, LenProperties
  <1> HIDE DEF h
  <1>3. /\ buf' \in Seq(Byte) /\ Len(buf') = Len(buf) + 1 /\ buf' = buf \o << h >>
        /\ \A i \in 1 .. Len(buf) : buf'[i] = buf[i]
    BY <1>1, <1>2, AppendProperties, AppendIsConcat
  <1>4. << h >> \in Seq(Byte) /\ Len(<< h >>) = 1 /\ << h >>[1] = h
    BY <1>2
  <1> DEFINE one == << h >>
             left == one \o Tail(rest)
  <1> HIDE DEF one
  <1>5. left = rest
    <2>1. /\ left \in Seq(Byte) /\ Len(left) = 1 + (Len(rest) - 1)
          /\ \A i \in 1 .. 1 + (Len(rest) - 1) :
               left[i] = IF i <= 1 THEN one[i] ELSE Tail(rest)[i - 1]
      BY <1>2, <1>4, ConcatProperties DEF one
    <2> HIDE DEF left
    <2>2. Len(left) = Len(rest)
      BY <1>2, <2>1
    <2>3. ASSUME NEW i \in 1 .. Len(left) PROVE left[i] = rest[i]
      <3>1. CASE i = 1
        BY <1>2, <1>4, <2>1, <2>2, <3>1 DEF one
      <3>2. CASE i # 1
        <4>1. i - 1 \in 1 .. Len(rest) - 1 /\ ~(i <= 1) /\ i - 1 + 1 = i
          BY <1>2, <2>2, <3>2
        <4> QED
          BY <1>2, <2>1, <2>2, <4>1
      <3> QED
        BY <3>1, <3>2
    <2> QED
      BY <2>1, <2>2, <2>3, SeqEqual
  <1>6. buf' \o rest' = buf \o left
    BY <1>1, <1>2, <1>3, <1>4, ConcatAssociative DEF one
  <1>7. Limit' = Limit + 1
    BY <1>3, LenProperties DEF Limit
  <1> QED
    BY <1>1, <1>2, <1>3, <1>5, <1>6, <1>7

LEMMA AllStays ==
  ASSUME buf' \o rest' = buf \o rest
  PROVE  \A c : /\ All!PreparseValue(c)' = All!PreparseValue(c)
                /\ All!GetChunk(c)' = All!GetChunk(c)
                /\ All!AtBreak(c)' <=> All!AtBreak(c)
  <1> SUFFICES ASSUME NEW c
               PROVE  /\ All!PreparseValue(c)' = All!PreparseValue(c)
                      /\ All!GetChunk(c)' = All!GetChunk(c)
                      /\ All!AtBreak(c)' <=> All!AtBreak(c)
    OBVIOUS
  <1>1. All!HeadByte(c)' = All!HeadByte(c) /\ (All!AtBreak(c)' <=> All!AtBreak(c))
    BY DEF All!HeadByte, All!AtBreak, All!CanRead, All!Limit
  <1>2. All!GetChunk(c)' = All!GetChunk(c)
    BY DEF All!GetChunk, All!ChunkSize, All!CanRead, All!Limit, All!AtBreak, All!HeadByte,
           All!ChunkArgument
  <1>3. All!Decoded(c)' = All!Decoded(c)
    BY DEF All!Decoded, All!HeadByte
  <1>4. All!Overlong(All!Decoded(c))' <=> All!Overlong(All!Decoded(c))
    BY <1>3 DEF All!Overlong, All!HeadByte
  <1>5. /\ All!CanRead(c, 1)' <=> All!CanRead(c, 1)
        /\ All!CanRead(c, All!BytesNeeded(All!Descriptor(All!HeadByte(c))) + 1)'
             <=> All!CanRead(c, All!BytesNeeded(All!Descriptor(All!HeadByte(c))) + 1)
    BY DEF All!CanRead, All!Limit, All!HeadByte
  <1>6. All!PreparseValue(c)' = All!PreparseValue(c)
    BY <1>1, <1>3, <1>4, <1>5 DEF All!PreparseValue
  <1> QED
    BY <1>1, <1>2, <1>6

(* A cursor still stands where it stood when more has arrived. *)
LEMMA ArrivalKeepsPlaces ==
  ASSUME buf \in Seq(Byte), rest \in Seq(Byte), Arrives
  PROVE  /\ Placed \subseteq Placed' /\ Stood \subseteq Stood'
         /\ \A c \in Placed : AtBreak(c) => AtBreak(c)'
  <1>1. /\ Limit' = Limit + 1 /\ Limit \in Nat /\ Limit = Len(buf) + 1 /\ Len(buf') = Limit
        /\ \A i \in 1 .. Len(buf) : buf'[i] = buf[i]
    <2>1. /\ Limit' = Limit + 1 /\ Limit \in Nat /\ Limit = Len(buf) + 1
          /\ \A i \in 1 .. Len(buf) : buf'[i] = buf[i]
      BY ArrivalMovesBytes, Beginning
    <2>2. Len(buf') = Len(buf) + 1
      BY AppendProperties, HeadTailProperties DEF Arrives
    <2> QED
      BY <2>1, <2>2
  <1>2. Placed \subseteq Placed'
    BY <1>1 DEF Placed, Within
  <1>3. ASSUME NEW c \in Placed PROVE AtBreak(c) => AtBreak(c)'
    <2> SUFFICES ASSUME AtBreak(c) PROVE AtBreak(c)'
      OBVIOUS
    <2>1. CanRead(c, 1) /\ HeadByte(c) = BreakByte /\ c \in Cursors /\ c.ptr \in 1 .. Limit
      BY DEF AtBreak, Placed, Within
    <2>2. c.ptr + 1 <= Limit /\ c.ptr \in 1 .. Len(buf)
      BY <1>1, <2>1, CanReadIs
    <2>3. HeadByte(c)' = HeadByte(c)
      BY <1>1, <2>2 DEF HeadByte
    <2>4. CanRead(c, 1)'
      BY <1>1, <2>2 DEF CanRead
    <2> QED
      BY <2>1, <2>3, <2>4 DEF AtBreak
  <1>4. ASSUME NEW c \in Stood PROVE c \in Stood'
    <2>1. c \in Cursors /\ c.ptr \in 1 .. Limit /\ Standing(c)
      BY DEF Stood, Placed, Within
    <2>2. c.ptr \in 1 .. Limit'
      BY <1>1, <2>1
    <2>3. CASE c.remaining = 0
      BY <1>1, <2>1, <2>2, <2>3 DEF Standing, Within, Stood, Placed
    <2>4. CASE c.remaining # 0
      <3>1. HeadHere(c) /\ c.ptr \in 1 .. Len(buf)
        BY <2>1, <2>4 DEF Standing, HeadHere
      <3>2. HeadByte(c)' = HeadByte(c)
        BY <1>1, <3>1 DEF HeadByte
      <3>3. HeadByte(c) \in Byte
        BY <2>1, <3>1, HeadProperties
      <3> DEFINE d == Descriptor(HeadByte(c))
                 need == BytesNeeded(d)
      <3>4. ~c.unknown => need \in Nat
        BY <3>1, <3>3, HeadType, NeededType DEF HeadHere
      <3>5. HeadHere(c)'
        BY <1>1, <3>1, <3>2, <3>4 DEF HeadHere
      <3> QED
        BY <2>1, <2>2, <2>4, <3>5 DEF Standing, Within, Stood, Placed
    <2> QED
      BY <2>3, <2>4
  <1> QED
    BY <1>2, <1>3, <1>4

-----------------------------------------------------------------------------
LEMMA SpineIs ==
  ASSUME LateInv
  PROVE  /\ buf \in Seq(Byte) /\ rest \in Seq(Byte)
         /\ Top \in Placed /\ Top \in Cursors /\ Within(Top)
         /\ Front(spine) \in Seq(Placed) /\ Len(spine) \in Nat \ {0}
         /\ Len(Front(spine)) = Len(spine) - 1
         /\ \A i \in 1 .. Len(Front(spine)) :
              Front(spine)[i] = spine[i] /\ Front(spine)[i].remaining # 0
         /\ err = "ok" \/ err = "no_more_chunks" => whole = [spine |-> spine, err |-> err]
         /\ Idle => Top \in Stood /\ Standing(Top) /\ (Top.remaining # 0 => HeadHere(Top))
                    /\ (Top.type # "invalid" => Top.remaining # 0)
  <1>1. /\ buf \in Seq(Byte) /\ rest \in Seq(Byte) /\ spine \in Seq(Placed) /\ spine # << >>
        /\ \A i \in 1 .. Len(spine) - 1 : spine[i].remaining # 0
    BY DEF LateInv, SpineInv
  <1>2. /\ Top \in Placed /\ Front(spine) \in Seq(Placed) /\ Len(spine) \in Nat \ {0}
        /\ Len(Front(spine)) = Len(spine) - 1
        /\ \A i \in 1 .. Len(spine) - 1 : Front(spine)[i] = spine[i]
    BY <1>1, AllButLast DEF Top, Last, Front
  <1>3. err = "ok" \/ err = "no_more_chunks" => whole = [spine |-> spine, err |-> err]
    BY DEF LateInv, WholeInv, Stalled, BreakCameLate
  <1>4. Idle => Top \in Stood
    BY DEF LateInv, TopInv, Idle
  <1>5. Top \in Stood => Standing(Top) /\ (Top.remaining # 0 => HeadHere(Top))
                         /\ (Top.type # "invalid" => Top.remaining # 0)
    BY DEF Stood, Standing
  <1> QED
    BY <1>1, <1>2, <1>3, <1>4, <1>5 DEF Placed

LEMMA Pushed ==
  ASSUME NEW S, NEW base \in Seq(S), NEW c \in S
  PROVE  LET t == Append(base, c)
         IN  /\ t \in Seq(S) /\ t # << >> /\ Last(t) = c /\ Front(t) = base
             /\ Len(t) = Len(base) + 1 /\ \A i \in 1 .. Len(base) : t[i] = base[i]
  <1> DEFINE t == Append(base, c)
  <1>1. /\ t \in Seq(S) /\ t # << >> /\ Len(t) = Len(base) + 1 /\ t[Len(t)] = c
        /\ \A i \in 1 .. Len(base) : t[i] = base[i]
    BY LastAppended
  <1> HIDE DEF t
  <1>2. Len(base) \in Nat
    BY LenProperties
  <1>3. /\ Front(t) \in Seq(S) /\ Len(Front(t)) = Len(t) - 1
        /\ \A i \in 1 .. Len(t) - 1 : Front(t)[i] = t[i]
    BY <1>1, AllButLast DEF Front
  <1>4. Front(t) = base
    <2>1. Len(Front(t)) = Len(base) /\ \A i \in 1 .. Len(base) : Front(t)[i] = base[i]
      BY <1>1, <1>2, <1>3
    <2> QED
      BY <1>3, <2>1, SeqEqual
  <1> QED
    BY <1>1, <1>4 DEF Last, t

(* A call that can be resumed answers. *)
LEMMA Answers ==
  ASSUME buf \in Seq(Byte), rest \in Seq(Byte), buf' = buf, rest' = rest,
         NEW base \in Seq(Placed), \A i \in 1 .. Len(base) : base[i].remaining # 0,
         NEW r, NEW all, Outcome(r, all), phase' = "items",
         spine' = Append(base, r.it), err' = r.err,
         whole' = [spine |-> Append(base, all.it), err |-> all.err]
  PROVE  LateInv'
  <1>1. Placed' = Placed /\ Stood' = Stood
    BY PlacesStay
  <1>2. r.it \in Placed
    BY DEF Outcome
  <1>3. /\ spine' \in Seq(Placed) /\ spine' # << >> /\ Last(spine') = r.it
        /\ Front(spine') = base /\ Len(spine') = Len(base) + 1
        /\ \A i \in 1 .. Len(base) : spine'[i] = base[i]
    BY <1>2, Pushed
  <1>4. \A i \in 1 .. Len(spine') - 1 : spine'[i].remaining # 0
    BY <1>3, LenProperties
  <1>5. SpineInv'
    BY <1>1, <1>3, <1>4 DEF SpineInv
  <1>6. Top' = r.it
    BY <1>3 DEF Top
  <1>7. TopInv'
    BY <1>1, <1>6 DEF TopInv, Outcome, Stalled
  <1>8. WholeInv'
    <2>1. CASE r.err # "unexpected_eof"
      <3>1. all = r
        BY <2>1 DEF Outcome, Resumes
      <3>2. whole' = [spine |-> spine', err |-> err']
        BY <3>1
      <3> QED
        BY <2>1, <3>2 DEF WholeInv, Stalled
    <2>2. CASE r.err = "unexpected_eof"
      <3>1. all = All!PreparseValue(r.it) \/ CutAtBreak(r.it, all.err)
        BY <2>2 DEF Outcome, Resumes
      <3>2. /\ All!PreparseValue(Top)' = All!PreparseValue(r.it)
            /\ All!AtBreak(Top)' <=> All!AtBreak(r.it)
        BY <1>6, AllStays
      <3>3. CASE all = All!PreparseValue(r.it)
        <4>1. OnTop(spine, All!PreparseValue(Top))' = [spine |-> Append(base, all.it), err |-> all.err]
          BY <1>3, <3>2, <3>3 DEF OnTop
        <4> QED
          BY <2>2, <4>1 DEF WholeInv, Stalled
      <3>4. CASE CutAtBreak(r.it, all.err)
        <4>1. CutAtBreak(Top, whole.err)'
          BY <1>6, <3>2, <3>4 DEF CutAtBreak
        <4> QED
          BY <2>2, <4>1 DEF WholeInv, Stalled
      <3> QED
        BY <3>1, <3>3, <3>4
    <2> QED
      BY <2>1, <2>2
  <1> QED
    BY <1>5, <1>7, <1>8 DEF LateInv

LEMMA ArrivesStep ==
  ASSUME LateInv, Arrives PROVE LateInv'
  <1>1. UNCHANGED << spine, err, phase, whole >>
    BY DEF Arrives
  <1>2. Top' = Top /\ Top \in Placed /\ buf \in Seq(Byte) /\ rest \in Seq(Byte)
    BY <1>1, SpineIs DEF Top
  <1>3. /\ buf' \in Seq(Byte) /\ rest' \in Seq(Byte) /\ buf' \o rest' = buf \o rest
    BY <1>2, ArrivalMovesBytes
  <1>4. /\ Placed \subseteq Placed' /\ Stood \subseteq Stood'
        /\ AtBreak(Top) => AtBreak(Top)'
    BY <1>2, ArrivalKeepsPlaces
  <1>5. spine \in Seq(Placed')
    BY <1>4, SeqMonotonic DEF LateInv, SpineInv
  <1>6. SpineInv'
    BY <1>1, <1>3, <1>5 DEF LateInv, SpineInv
  <1>7. TopInv'
    BY <1>1, <1>2, <1>4 DEF LateInv, TopInv, Stalled
  <1>8. /\ All!PreparseValue(Top)' = All!PreparseValue(Top)
        /\ All!GetChunk(Top)' = All!GetChunk(Top)
        /\ All!AtBreak(Top)' <=> All!AtBreak(Top)
    BY <1>2, <1>3, AllStays
  <1>9. WholeInv'
    BY <1>1, <1>2, <1>4, <1>8
      DEF LateInv, WholeInv, Stalled, BreakCameLate, CutAtBreak, OnTop
  <1> QED
    BY <1>6, <1>7, <1>9 DEF LateInv

LEMMA AdvanceFixedStep ==
  ASSUME LateInv, AdvanceFixed PROVE LateInv'
  <1> DEFINE r == AdvanceInternal(Top)
             all == All!AdvanceInternal(Top)
  <1>1. /\ Idle /\ Top.type # "invalid" /\ ~IsString(Top) /\ ~IsContainer(Top)
        /\ phase' = phase /\ buf' = buf /\ rest' = rest
        /\ spine' = Append(Front(spine), r.it) /\ err' = r.err
        /\ whole' = OnTop(whole.spine, All!AdvanceInternal(Last(whole.spine)))
    BY DEF AdvanceFixed, Returns, OnTop
  <1>2. whole.spine = spine /\ Last(whole.spine) = Top
    BY <1>1, SpineIs DEF Idle, Top
  <1>3. whole' = [spine |-> Append(Front(spine), all.it), err |-> all.err]
    BY <1>1, <1>2 DEF OnTop
  <1>4. Outcome(r, all)
    BY <1>1, SpineIs, AdvanceOutcome
  <1> HIDE DEF r, all
  <1> QED
    BY <1>1, <1>3, <1>4, SpineIs, Answers DEF Idle

LEMMA EnterStep ==
  ASSUME LateInv, Enter PROVE LateInv'
  <1> DEFINE r == EnterContainer(Top)
             all == All!EnterContainer(Top)
  <1>1. /\ Idle /\ IsContainer(Top) /\ phase' = phase /\ buf' = buf /\ rest' = rest
        /\ spine' = Append(spine, r.it) /\ err' = r.err
        /\ whole' = [spine |-> Append(whole.spine, All!EnterContainer(Last(whole.spine)).it),
                     err |-> All!EnterContainer(Last(whole.spine)).err]
    BY DEF Enter, Returns
  <1>2. whole.spine = spine /\ Last(whole.spine) = Top
    BY <1>1, SpineIs DEF Idle, Top
  <1>3. whole' = [spine |-> Append(spine, all.it), err |-> all.err]
    BY <1>1, <1>2
  <1>4. Top.type # "invalid"
    BY <1>1 DEF IsContainer, ContainerMajors
  <1>5. Outcome(r, all) /\ Top.remaining # 0
    BY <1>1, <1>4, SpineIs, EnterOutcome
  <1>6. spine \in Seq(Placed) /\ \A i \in 1 .. Len(spine) : spine[i].remaining # 0
    BY <1>5, SpineIs DEF LateInv, SpineInv, Top, Last
  <1> HIDE DEF r, all
  <1> QED
    BY <1>1, <1>3, <1>5, <1>6, SpineIs, Answers DEF Idle

LEMMA LeaveStep ==
  ASSUME LateInv, Leave PROVE LateInv'
  <1> DEFINE outer == Above(spine)
             r == LeaveContainer(outer, Top)
             all == All!LeaveContainer(outer, Top)
             inner == Front(spine)
             base == Front(inner)
  <1>1. /\ Idle /\ Len(spine) > 1 /\ Top.remaining = 0
        /\ phase' = phase /\ buf' = buf /\ rest' = rest
        /\ spine' = Append(base, r.it) /\ err' = r.err
        /\ whole' = OnTop(Front(whole.spine),
                          All!LeaveContainer(Above(whole.spine), Last(whole.spine)))
    BY DEF Leave, Returns, OnTop
  <1>2. whole.spine = spine /\ Last(whole.spine) = Top
    BY <1>1, SpineIs DEF Idle, Top
  <1>3. whole' = [spine |-> Append(base, all.it), err |-> all.err]
    BY <1>1, <1>2 DEF OnTop
  <1>4. /\ inner \in Seq(Placed) /\ Len(inner) = Len(spine) - 1 /\ Len(spine) \in Nat
        /\ \A i \in 1 .. Len(inner) : inner[i] = spine[i] /\ inner[i].remaining # 0
    BY SpineIs
  <1>5. inner # << >> /\ outer = inner[Len(inner)] /\ outer.remaining # 0
    BY <1>1, <1>4 DEF Above
  <1> HIDE DEF inner
  <1>6. /\ base \in Seq(Placed) /\ Len(base) = Len(inner) - 1 /\ outer \in Placed
        /\ \A i \in 1 .. Len(inner) - 1 : base[i] = inner[i]
        /\ Len(inner) \in Nat \ {0}
    BY <1>4, <1>5, AllButLast DEF Front
  <1>7. \A i \in 1 .. Len(base) : base[i].remaining # 0
    BY <1>4, <1>6
  <1>8. Outcome(r, all)
    <2>1. Standing(Top)
      BY <1>1, SpineIs
    <2>2. outer \in Cursors
      BY <1>6 DEF Placed
    <2> HIDE DEF outer
    <2> QED
      BY <1>1, <1>5, <2>1, <2>2, SpineIs, LeaveOutcome
  <1> HIDE DEF r, all, base, outer
  <1> QED
    BY <1>1, <1>3, <1>6, <1>7, <1>8, SpineIs, Answers DEF Idle

(* Between the beginning of a string and its end. *)
LEMMA StringGoesOn ==
  ASSUME buf \in Seq(Byte), rest \in Seq(Byte), buf' = buf, rest' = rest, phase' = "string",
         NEW base \in Seq(Placed), \A i \in 1 .. Len(base) : base[i].remaining # 0,
         NEW c \in Placed, c.remaining # 0, spine' = Append(base, c),
         err' = "no_more_chunks" /\ c.unknown => AtBreak(c),
         whole' = IF err' = "unexpected_eof"
                  THEN [spine |-> Append(base, All!GetChunk(c).it), err |-> All!GetChunk(c).err]
                  ELSE [spine |-> spine', err |-> err']
  PROVE  LateInv'
  <1>1. Placed' = Placed
    BY PlacesStay
  <1>2. /\ spine' \in Seq(Placed) /\ spine' # << >> /\ Last(spine') = c
        /\ Front(spine') = base /\ Len(spine') = Len(base) + 1
        /\ \A i \in 1 .. Len(base) : spine'[i] = base[i]
    BY Pushed
  <1>3. \A i \in 1 .. Len(spine') - 1 : spine'[i].remaining # 0
    BY <1>2, LenProperties
  <1>4. SpineInv'
    BY <1>1, <1>2, <1>3 DEF SpineInv
  <1>5. Top' = c
    BY <1>2 DEF Top
  <1>6. AtBreak(Top)' <=> AtBreak(c)
    BY <1>5 DEF AtBreak, CanRead, HeadByte, Limit
  <1>7. TopInv'
    BY <1>5, <1>6 DEF TopInv
  <1>8. All!GetChunk(Top)' = All!GetChunk(c)
    BY <1>5, AllStays
  <1>9. WholeInv'
    BY <1>2, <1>8 DEF WholeInv, Stalled, OnTop
  <1> QED
    BY <1>4, <1>7, <1>9 DEF LateInv

LEMMA BeginStringStep ==
  ASSUME LateInv, BeginString PROVE LateInv'
  <1> DEFINE begun == BeginStringIteration(Top)
  <1>1. /\ Idle /\ IsString(Top) /\ phase' = "string" /\ buf' = buf /\ rest' = rest
        /\ spine' = Append(Front(spine), begun) /\ err' = "ok"
        /\ whole' = OnTop(whole.spine,
                          Result("ok", BeginStringIteration(Last(whole.spine))))
    BY DEF BeginString, Returns, OnTop, Result
  <1>2. whole.spine = spine /\ Last(whole.spine) = Top
    BY <1>1, SpineIs DEF Idle, Top
  <1>3. whole' = [spine |-> spine', err |-> "ok"]
    BY <1>1, <1>2 DEF OnTop, Result
  <1>4. Top.type # "invalid"
    BY <1>1 DEF IsString, StringMajors
  <1>5. HeadHere(Top) /\ Top.remaining # 0 /\ Top.ptr \in 1 .. Len(buf) /\ Top \in Cursors
    BY <1>1, <1>4, SpineIs DEF HeadHere
  <1>6. begun \in Placed /\ begun.remaining # 0
    <2>1. /\ begun \in Cursors /\ begun.remaining = Top.remaining
          /\ begun.ptr = IF Top.unknown THEN Top.ptr + 1 ELSE Top.ptr
      BY <1>5, BeginProperties
    <2> HIDE DEF begun
    <2> QED
      BY <1>5, <2>1, SpineIs, BufferType DEF Placed, Within
  <1> HIDE DEF begun
  <1> QED
    BY <1>1, <1>3, <1>6, SpineIs, StringGoesOn

LEMMA NextChunkStep ==
  ASSUME LateInv, NextChunk PROVE LateInv'
  <1> DEFINE r == ReaderChunk(Top)
             all == All!GetChunk(Top)
             other == [spine |-> Append(Front(spine), all.it), err |-> all.err]
  <1>1. /\ phase = "string" /\ phase' = "string" /\ err \in {"ok", "unexpected_eof"}
        /\ buf' = buf /\ rest' = rest /\ spine' = Append(Front(spine), r.it) /\ err' = r.err
        /\ whole' = IF Stalled THEN whole
                    ELSE OnTop(whole.spine, All!GetChunk(Last(whole.spine)))
    BY DEF NextChunk, Returns, OnTop
  <1>2. whole' = other
    <2>1. CASE Stalled
      BY <1>1, <2>1 DEF LateInv, WholeInv, OnTop
    <2>2. CASE ~Stalled
      <3>1. whole.spine = spine /\ Last(whole.spine) = Top
        BY <1>1, <2>2, SpineIs DEF Stalled, Top
      <3> QED
        BY <1>1, <2>2, <3>1 DEF OnTop
    <2> QED
      BY <2>1, <2>2
  <1>3. Top.remaining # 0
    BY <1>1 DEF LateInv, TopInv
  <1>4. /\ r.err # "unexpected_eof" => all = r
        /\ r.err = "unexpected_eof" => r.it = Top
        /\ r.it \in Placed /\ r.it.remaining # 0
        /\ r.err = "no_more_chunks" => r.it = Top /\ (Top.unknown => AtBreak(Top))
    BY <1>3, SpineIs, ChunkOutcome
  <1>5. whole' = IF err' = "unexpected_eof"
                 THEN [spine |-> Append(Front(spine), All!GetChunk(r.it).it),
                       err |-> All!GetChunk(r.it).err]
                 ELSE [spine |-> spine', err |-> err']
    <2>1. CASE r.err = "unexpected_eof"
      BY <1>1, <1>2, <1>4, <2>1
    <2>2. CASE r.err # "unexpected_eof"
      <3> HIDE DEF r, all
      <3> QED
        BY <1>1, <1>2, <1>4, <2>2
    <2> QED
      BY <2>1, <2>2
  <1>6. err' = "no_more_chunks" /\ r.it.unknown => AtBreak(r.it)
    BY <1>1, <1>4
  <1> HIDE DEF r, all, other
  <1> QED
    BY <1>1, <1>4, <1>5, <1>6, SpineIs, StringGoesOn

LEMMA FinishStringStep ==
  ASSUME LateInv, FinishString PROVE LateInv'
  <1> DEFINE r == FinishStringIteration(Top)
             all == All!FinishStringIteration(Top)
  <1>1. /\ phase = "string" /\ err = "no_more_chunks" /\ phase' = "items"
        /\ buf' = buf /\ rest' = rest
        /\ spine' = Append(Front(spine), r.it) /\ err' = r.err
        /\ whole' = OnTop(whole.spine, All!FinishStringIteration(Last(whole.spine)))
    BY DEF FinishString, Returns, OnTop
  <1>2. whole.spine = spine /\ Last(whole.spine) = Top
    BY <1>1, SpineIs DEF Top
  <1>3. whole' = [spine |-> Append(Front(spine), all.it), err |-> all.err]
    BY <1>1, <1>2 DEF OnTop
  <1>4. Top.remaining # 0 /\ (Top.unknown => AtBreak(Top))
    BY <1>1 DEF LateInv, TopInv
  <1>5. Outcome(r, all)
    BY <1>4, SpineIs, FinishOutcome
  <1> HIDE DEF r, all
  <1> QED
    BY <1>1, <1>3, <1>5, SpineIs, Answers

LEMMA ReparseStep ==
  ASSUME LateInv, Reparse PROVE LateInv'
  <1> DEFINE r == PreparseValue(Top)
             all == All!PreparseValue(Top)
  <1>1. /\ phase = "items" /\ Stalled /\ phase' = "items" /\ buf' = buf /\ rest' = rest
        /\ spine' = Append(Front(spine), r.it) /\ err' = r.err /\ whole' = whole
    BY DEF Reparse, Returns, OnTop, Reparsed
  <1>2. Top.remaining # 0
    BY <1>1 DEF LateInv, TopInv
  <1>3. /\ r.it \in Cursors /\ SameSlot(r.it, Top)
        /\ r.err = "ok" => HeadHere(r.it)
        /\ Resumes(r, all)
        /\ r.err = "unexpected_eof" => All!PreparseValue(r.it) = all
    BY SpineIs, PreparseValueProperties, ValueResumes
  <1>4. r.it.remaining = Top.remaining /\ r.it.ptr = Top.ptr /\ Within(r.it)
    BY <1>3, SpineIs DEF SameSlot, Within
  <1> HIDE DEF r
  <1>5. Outcome(r, all)
    BY <1>2, <1>3, <1>4 DEF Outcome, Placed, Stood, Standing
  <1>6. CASE whole = OnTop(spine, all)
    <2>1. whole' = [spine |-> Append(Front(spine), all.it), err |-> all.err]
      BY <1>1, <1>6 DEF OnTop
    <2> HIDE DEF all
    <2> QED
      BY <1>1, <1>5, <2>1, SpineIs, Answers
  <1>7. CASE CutAtBreak(Top, whole.err)
    <2> DEFINE base == Front(spine)
    <2>1. /\ base \in Seq(Placed) /\ r.it \in Placed /\ r.it.remaining = U32Max
          /\ \A i \in 1 .. Len(base) : base[i].remaining # 0
          /\ whole.err \in {"ok", "unexpected_break"} /\ All!AtBreak(Top)
      BY <1>3, <1>4, <1>7, SpineIs DEF Placed, CutAtBreak
    <2> HIDE DEF base
    <2>2. /\ spine' \in Seq(Placed) /\ spine' # << >> /\ Last(spine') = r.it
          /\ Len(spine') = Len(base) + 1 /\ \A i \in 1 .. Len(base) : spine'[i] = base[i]
      BY <1>1, <2>1, Pushed DEF base
    <2>3. Top' = r.it /\ Placed' = Placed
      BY <1>1, <2>2, PlacesStay DEF Top
    <2>4. \A i \in 1 .. Len(spine') - 1 : spine'[i].remaining # 0
      BY <2>1, <2>2, LenProperties
    <2>5. SpineInv'
      BY <1>1, <2>2, <2>3, <2>4 DEF SpineInv, LateInv
    <2>6. /\ All!AtBreak(Top)' <=> All!AtBreak(r.it)
          /\ AtBreak(Top)' <=> AtBreak(r.it)
      BY <1>1, <2>3, AllStays DEF AtBreak, CanRead, HeadByte, Limit
    <2>7. (All!AtBreak(r.it) <=> All!AtBreak(Top)) /\ (AtBreak(r.it) <=> AtBreak(Top))
      BY <1>4 DEF All!AtBreak, All!CanRead, All!HeadByte, AtBreak, CanRead, HeadByte
    <2>8. CASE CanRead(Top, 1)
      <3>1. AtBreak(Top)
        BY <2>1, <2>8, SpineIs, ReadsSame, BufferType DEF Within
      <3>2. r.err = "unexpected_break"
        BY <3>1, SpineIs, BreakIsNoValue DEF r
      <3>3. WholeInv'
        BY <1>1, <2>1, <2>3, <2>6, <2>7, <3>1, <3>2 DEF WholeInv, Stalled, BreakCameLate
      <3>4. TopInv'
        BY <1>1, <3>2 DEF TopInv, Stalled
      <3> QED
        BY <2>5, <3>3, <3>4 DEF LateInv
    <2>9. CASE ~CanRead(Top, 1)
      <3>1. r.err = "unexpected_eof"
        BY <2>9 DEF PreparseValue, Result, r
      <3>2. WholeInv'
        BY <1>1, <2>1, <2>3, <2>6, <2>7, <3>1 DEF WholeInv, Stalled, CutAtBreak
      <3>3. TopInv'
        BY <1>1, <1>2, <1>4, <2>3, <3>1 DEF TopInv, Stalled
      <3> QED
        BY <2>5, <3>2, <3>3 DEF LateInv
    <2> QED
      BY <2>8, <2>9
  <1> QED
    BY <1>1, <1>6, <1>7 DEF LateInv, WholeInv

-----------------------------------------------------------------------------
LEMMA ArrivalInit ==
  ASSUME Init PROVE LateInv
  <1>1. /\ buf = << >> /\ rest \in Seq(Byte) /\ phase = "items"
        /\ spine = << ParserInit.it >> /\ err = ParserInit.err
        /\ whole = [spine |-> << All!ParserInit.it >>, err |-> All!ParserInit.err]
    BY CursorAssumption DEF Init
  <1>2. buf \in Seq(Byte)
    BY <1>1
  <1>3. Start \in Cursors /\ Within(Start) /\ Start.ptr = 1 /\ Start.remaining = 1
    BY <1>2, StartType, BufferType DEF Within
  <1> DEFINE r == PreparseValue(Start)
             all == All!PreparseValue(Start)
  <1>4. ParserInit = r /\ All!ParserInit = all
    BY SameShape DEF ParserInit, All!ParserInit
  <1>5. /\ r.it \in Cursors /\ SameSlot(r.it, Start)
        /\ r.err = "unexpected_eof" => All!PreparseValue(r.it) = all
    BY <1>1, <1>2, <1>3, PreparseValueProperties, ValueResumes
  <1>6. r.err = "unexpected_eof"
    <2>1. ~CanRead(Start, 1)
      BY <1>1, <1>3 DEF CanRead, Limit
    <2> QED
      BY <2>1 DEF PreparseValue, Result
  <1> HIDE DEF r, all
  <1>7. r.it \in Placed /\ r.it.remaining # 0
    BY <1>3, <1>5 DEF Placed, Within, SameSlot
  <1>8. spine \in Seq(Placed) /\ Len(spine) = 1 /\ spine # << >> /\ Top = r.it
    BY <1>1, <1>4, <1>7 DEF Top, Last
  <1>9. SpineInv /\ TopInv
    BY <1>1, <1>2, <1>4, <1>6, <1>7, <1>8 DEF SpineInv, TopInv, Stalled
  <1>10. Front(spine) = << >>
    BY <1>8, SubSeqEmpty DEF Front
  <1>11. OnTop(spine, all) = [spine |-> << all.it >>, err |-> all.err]
    BY <1>10 DEF OnTop
  <1>12. WholeInv
    BY <1>1, <1>4, <1>5, <1>6, <1>8, <1>11 DEF WholeInv, Stalled
  <1> QED
    BY <1>9, <1>12 DEF LateInv

LEMMA ArrivalStuttering ==
  ASSUME LateInv, UNCHANGED arrivalVars PROVE LateInv'
  <1>1. UNCHANGED << buf, rest, spine, err, phase, whole >>
    BY DEF arrivalVars
  <1>2. Top' = Top /\ Placed' = Placed /\ Stood' = Stood
    BY <1>1, PlacesStay DEF Top
  <1>3. /\ All!PreparseValue(Top)' = All!PreparseValue(Top)
        /\ All!GetChunk(Top)' = All!GetChunk(Top)
        /\ All!AtBreak(Top)' <=> All!AtBreak(Top)
        /\ AtBreak(Top)' <=> AtBreak(Top)
    BY <1>1, <1>2, AllStays DEF AtBreak, CanRead, HeadByte, Limit
  <1>4. SpineInv' /\ TopInv'
    BY <1>1, <1>2, <1>3 DEF LateInv, SpineInv, TopInv, Stalled
  <1>5. WholeInv'
    BY <1>1, <1>2, <1>3 DEF LateInv, WholeInv, Stalled, BreakCameLate, CutAtBreak, OnTop
  <1> QED
    BY <1>4, <1>5 DEF LateInv

LEMMA ArrivalInvariant ==
  Spec => []LateInv
  <1>1. Init => LateInv
    BY ArrivalInit
  <1>2. LateInv /\ [Next]_arrivalVars => LateInv'
    <2> SUFFICES ASSUME LateInv, [Next]_arrivalVars PROVE LateInv'
      OBVIOUS
    <2>1. CASE Arrives
      BY <2>1, ArrivesStep
    <2>2. CASE AdvanceFixed
      BY <2>2, AdvanceFixedStep
    <2>3. CASE Enter
      BY <2>3, EnterStep
    <2>4. CASE Leave
      BY <2>4, LeaveStep
    <2>5. CASE BeginString
      BY <2>5, BeginStringStep
    <2>6. CASE NextChunk
      BY <2>6, NextChunkStep
    <2>7. CASE FinishString
      BY <2>7, FinishStringStep
    <2>8. CASE Reparse
      BY <2>8, ReparseStep
    <2>9. CASE UNCHANGED arrivalVars
      BY <2>9, ArrivalStuttering
    <2> QED
      BY <2>1, <2>2, <2>3, <2>4, <2>5, <2>6, <2>7, <2>8, <2>9 DEF Next, Call
  <1> QED
    BY <1>1, <1>2, PTL DEF Spec

(* When everything has arrived there is only one document. *)
LEMMA NothingMissing ==
  ASSUME buf \in Seq(Byte), rest = << >>
  PROVE  \A c : /\ All!PreparseValue(c) = PreparseValue(c)
                /\ All!GetChunk(c) = GetChunk(c)
                /\ All!AtBreak(c) <=> AtBreak(c)
  <1> SUFFICES ASSUME NEW c
               PROVE  /\ All!PreparseValue(c) = PreparseValue(c)
                      /\ All!GetChunk(c) = GetChunk(c)
                      /\ All!AtBreak(c) <=> AtBreak(c)
    OBVIOUS
  <1>1. buf \o rest = buf
    BY ConcatEmptySeq
  <1>2. All!HeadByte(c) = HeadByte(c) /\ \A x, n : All!CanRead(x, n) <=> CanRead(x, n)
    BY <1>1 DEF All!HeadByte, HeadByte, All!CanRead, CanRead, All!Limit, Limit
  <1>3. All!Decoded(c) = Decoded(c)
    BY <1>1, <1>2, DecodingIs, AllDecodingIs
  <1>4. All!Overlong(Decoded(c)) <=> Overlong(Decoded(c))
    BY <1>1, SameCodec DEF All!Overlong, Overlong, All!HeadByte, HeadByte
  <1>5. All!PreparseValue(c) = PreparseValue(c)
    BY <1>2, <1>3, <1>4, DecodingIs, AllDecodingIs DEF Decoding
  <1>6. All!ChunkSize(c) = ChunkSize(c)
    BY <1>1, <1>2, SizingIs DEF Sizing
  <1>7. All!GetChunk(c) = GetChunk(c)
    <2> DEFINE size == ChunkSize(c)
               past == Advanced(c, size.offset)
               done == [Advanced(past, size.len) EXCEPT !.first = FALSE]
    <2>1. GetChunk(c) = IF size.err # "ok" THEN Result(size.err, c)
                        ELSE IF ~CanRead(past, size.len) THEN Result("unexpected_eof", past)
                        ELSE Result("ok", done)
      BY DEF GetChunk
    <2>2. All!GetChunk(c) = IF size.err # "ok" THEN Result(size.err, c)
                            ELSE IF ~All!CanRead(past, size.len)
                            THEN Result("unexpected_eof", past)
                            ELSE Result("ok", done)
      <3> HIDE DEF size
      <3> QED
        BY <1>6, AllGetChunkIs DEF size
    <2> HIDE DEF size, past, done
    <2> QED
      BY <1>2, <2>1, <2>2
  <1>8. All!AtBreak(c) <=> AtBreak(c)
    BY <1>2, SameCodec DEF All!AtBreak, AtBreak
  <1> QED
    BY <1>5, <1>7, <1>8

-----------------------------------------------------------------------------
LEMMA LateInvSeesWhole ==
  ASSUME LateInv PROVE SeesWhole
  <1>1. ~Stalled /\ ~BreakCameLate =>
          err = whole.err /\ (err \in {"ok", "no_more_chunks"} => spine = whole.spine)
    BY DEF LateInv, WholeInv
  <1>2. ASSUME Stalled, rest = << >>
        PROVE  LET again == IF phase = "items" THEN Reparsed(Top) ELSE ReaderChunk(Top)
               IN  again.err = "unexpected_eof" => whole.err = "unexpected_eof"
    <2>1. buf \in Seq(Byte) /\ Top \in Cursors /\ Within(Top) /\ phase \in {"items", "string"}
      BY SpineIs DEF LateInv, SpineInv
    <2>2. /\ All!PreparseValue(Top) = PreparseValue(Top) /\ All!GetChunk(Top) = GetChunk(Top)
          /\ All!AtBreak(Top) <=> AtBreak(Top)
      BY <1>2, <2>1, NothingMissing
    <2>3. CASE phase = "items"
      <3>1. CASE whole = OnTop(spine, All!PreparseValue(Top))
        BY <2>2, <2>3, <3>1 DEF OnTop, Reparsed
      <3>2. CASE CutAtBreak(Top, whole.err)
        <4>1. PreparseValue(Top).err = "unexpected_break"
          BY <2>1, <2>2, <3>2, BreakIsNoValue DEF CutAtBreak
        <4> QED
          BY <2>3, <4>1 DEF Reparsed
      <3> QED
        BY <1>2, <2>3, <3>1, <3>2 DEF LateInv, WholeInv
    <2>4. CASE phase = "string"
      <3>1. Top.remaining # 0 /\ whole = OnTop(spine, All!GetChunk(Top))
        BY <1>2, <2>4 DEF LateInv, TopInv, WholeInv
      <3>2. ReaderChunk(Top).err = "unexpected_eof" => GetChunk(Top).err = "unexpected_eof"
        BY <2>1, <3>1, SpineIs, ChunkOutcome
      <3> QED
        BY <2>2, <2>4, <3>1, <3>2 DEF OnTop
    <2> QED
      BY <2>1, <2>3, <2>4
  <1> QED
    BY <1>1, <1>2 DEF SeesWhole

(* Late bytes change nothing: for every document, however it is cut and    *)
(* however often a call is made again, the client gets the answers and the *)
(* cursors it would have got at once (parser.rs: cbor_value_reparse,       *)
(* get_string_chunk), but for the break that came late; and it waits for   *)
(* nothing that is not missing.                                            *)
THEOREM ArrivalSeesWhole == Spec => []SeesWhole
  <1>1. LateInv => SeesWhole
    BY LateInvSeesWhole
  <1> QED
    BY <1>1, ArrivalInvariant, PTL
=============================================================================
