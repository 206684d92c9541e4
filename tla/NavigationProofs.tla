-------------------------- MODULE NavigationProofs --------------------------
(***************************************************************************)
(* Proofs about the navigation calls for every document, every order of    *)
(* calls and every limit of the recursion.                                 *)
(*                                                                         *)
(* That the cursors stay inside the buffer is not inductive: where a call  *)
(* goes depends on what its cursor stands on.  NavInv says that of every   *)
(* point at which the library can be: between the calls on a decoded head  *)
(* or at the end of a container, in a string before a chunk or a break, in *)
(* the walk at an item of every container that is still open.  A call that *)
(* fails only has to leave its cursor inside the buffer.                   *)
(*                                                                         *)
(* CourseInv adds where, by the grammar, everything ends: the container of *)
(* each cursor of the client and of each frame of the walk where the item  *)
(* it was entered through does, the scan's levels as in FastScanProofs.    *)
(* Each of these holds twice: with the levels of nesting that are left,    *)
(* which is what makes an error owed, and with as many as one likes, which *)
(* is what makes the end of the document the right one.  Every operation   *)
(* is shown once to leave an end where it was (Owes, Follows, Continues)   *)
(* or to answer for the item it passed (Answers); the steps of the client  *)
(* and of the library then differ only in whose cursor they move.          *)
(***************************************************************************)
EXTENDS NavigationContract, FastScanProofs

(* The head as one would decode it who knows no more than the position. *)
FreshHead(c) == PreparseValue([Start EXCEPT !.ptr = c.ptr])
Current(c) ==
  c.remaining # 0 =>
    /\ FreshHead(c).err = "ok"
    /\ c = [FreshHead(c).it EXCEPT !.remaining = c.remaining, !.map = c.map, !.key = c.key]

Ready == {c \in Stood : Current(c)}
Ending == {c \in Cursors : c.unknown => AtBreak(c)}

(* What an operation leaves behind. *)
Outcome(r) == r.it \in Placed /\ (r.err = "ok" => r.it \in Ready)

CursorsInv ==
  /\ buf \in Seq(Byte) /\ reader \in BOOLEAN
  /\ cursors \in Seq(Placed) /\ cursors # << >>
  /\ \A i \in 1 .. Len(cursors) - 1 : cursors[i].remaining # 0
  /\ walk \in Seq(Placed) /\ Len(walk) <= MAX_RECURSIONS + 1

(* Between the calls, and in those that work on the client's own cursor.   *)
ClientInv ==
  /\ phase \in {"client", "string", "scan", "walk", "chunks", "tags"}
  /\ phase = "client" /\ err = "ok" => Innermost \in Ready
  /\ phase = "string" =>
       Innermost.remaining # 0 /\ (err = "no_more_chunks" => Innermost \in Ending)
  /\ phase = "scan" => Innermost.remaining # 0 /\ Innermost \in Stood
  /\ phase = "tags" => Innermost.type = "tag" /\ Innermost \in Stood

(* The containers of the walk are open, and it is at one of their items. *)
OpenFrames(frames) ==
  /\ frames \in Seq(Placed) /\ frames # << >> /\ Len(frames) <= MAX_RECURSIONS + 1
  /\ \A i \in 1 .. Len(frames) - 1 : frames[i].remaining # 0
WalkInv ==
  /\ phase \in {"walk", "chunks"} => OpenFrames(walk)
  /\ phase = "walk" => Here \in Stood /\ (Len(walk) = 1 => Here.remaining # 0)
  /\ phase = "chunks" => Here.remaining # 0

NavInv == ScanInv /\ CursorsInv /\ ClientInv /\ WalkInv

-----------------------------------------------------------------------------
(* Decoding depends on the position alone. *)
Twins(x, y) ==
  /\ x.ptr = y.ptr /\ x.extra = y.extra /\ x.wide = y.wide /\ x.type = y.type
  /\ x.unknown = y.unknown /\ x.first = y.first /\ x.iterating = y.iterating

LEMMA TypedTwins ==
  ASSUME NEW x \in Cursors, NEW y \in Cursors, x.ptr = y.ptr, NEW type, NEW extra
  PROVE  LET tx == [Blank(x) EXCEPT !.type = type, !.extra = extra]
             ty == [Blank(y) EXCEPT !.type = type, !.extra = extra]
         IN  /\ Twins(tx, ty) /\ tx.type = type /\ ty.type = type
             /\ Twins([tx EXCEPT !.unknown = TRUE], [ty EXCEPT !.unknown = TRUE])
  BY DEF Blank, Cursors, Twins

LEMMA DecodedTwins ==
  ASSUME NEW x \in Cursors, NEW y \in Cursors, x.ptr = y.ptr
  PROVE  Twins(Decoded(x), Decoded(y))
  <1> DEFINE d == Descriptor(HeadByte(x))
             need == BytesNeeded(d)
             type == MajorOf(HeadByte(x))
             extra == IF need = 0 THEN d
                      ELSE IF need <= ExtraBytes THEN BeLoad(buf, x.ptr + 1, need) ELSE 0
             wide == IF need <= ExtraBytes THEN 0 ELSE need
  <1>1. HeadByte(y) = HeadByte(x)
    BY DEF HeadByte
  <1>2. /\ Decoded(x) = [Blank(x) EXCEPT !.type = type, !.extra = extra, !.wide = wide]
        /\ Decoded(y) = [Blank(y) EXCEPT !.type = type, !.extra = extra, !.wide = wide]
    BY <1>1 DEF Decoded
  <1> HIDE DEF type, extra, wide
  <1> QED
    BY <1>2 DEF Blank, Cursors, Twins

LEMMA PreparseTwins ==
  ASSUME NEW x \in Cursors, NEW y \in Cursors, x.ptr = y.ptr
  PROVE  /\ PreparseValue(x).err = PreparseValue(y).err
         /\ PreparseValue(x).err = "ok" => Twins(PreparseValue(x).it, PreparseValue(y).it)
  <1> DEFINE d == Descriptor(HeadByte(x))
             type == MajorOf(HeadByte(x))
             tx == [Blank(x) EXCEPT !.type = type, !.extra = d]
             ty == [Blank(y) EXCEPT !.type = type, !.extra = d]
             ix == [Decoded(x) EXCEPT !.type = "invalid"]
             iy == [Decoded(y) EXCEPT !.type = "invalid"]
  <1>1. HeadByte(y) = HeadByte(x) /\ \A n \in Nat : CanRead(y, n) <=> CanRead(x, n)
    BY DEF HeadByte, CanRead
  <1>2. /\ Twins(tx, ty) /\ tx.type = type /\ ty.type = type
        /\ Twins([tx EXCEPT !.unknown = TRUE], [ty EXCEPT !.unknown = TRUE])
    BY TypedTwins
  <1>3. Twins(Decoded(x), Decoded(y))
    BY DecodedTwins
  <1>4. Overlong(Decoded(x)) <=> Overlong(Decoded(y))
    BY <1>3 DEF Overlong, Twins, HeadByte
  <1>5. (CanRead(x, 1) <=> CanRead(y, 1))
        /\ (CanRead(x, BytesNeeded(d) + 1) <=> CanRead(y, BytesNeeded(d) + 1))
    BY DEF CanRead
  <1>6. PreparseValue(x) =
          IF ~CanRead(x, 1) THEN Result("unexpected_eof", Blank(x))
          ELSE CASE d = IndefiniteLength -> IndefiniteHead(x, tx)
                 [] d > Value64Bit /\ d # IndefiniteLength -> ReservedHead(tx)
                 [] OTHER ->
                      IF ~CanRead(x, BytesNeeded(d) + 1) THEN Result("unexpected_eof", tx)
                      ELSE IF Overlong(Decoded(x)) THEN Result("illegal_simple_type", ix)
                      ELSE Result("ok", Decoded(x))
    BY DEF PreparseValue
  <1>7. PreparseValue(y) =
          IF ~CanRead(y, 1) THEN Result("unexpected_eof", Blank(y))
          ELSE CASE d = IndefiniteLength -> IndefiniteHead(y, ty)
                 [] d > Value64Bit /\ d # IndefiniteLength -> ReservedHead(ty)
                 [] OTHER ->
                      IF ~CanRead(y, BytesNeeded(d) + 1) THEN Result("unexpected_eof", ty)
                      ELSE IF Overlong(Decoded(y)) THEN Result("illegal_simple_type", iy)
                      ELSE Result("ok", Decoded(y))
    BY <1>1 DEF PreparseValue
  <1> HIDE DEF tx, ty, ix, iy, d, type
  <1>8. CASE ~CanRead(x, 1)
    BY <1>5, <1>6, <1>7, <1>8 DEF Result
  <1>9. CASE CanRead(x, 1) /\ d = IndefiniteLength
    <2>1. PreparseValue(x) = IndefiniteHead(x, tx) /\ PreparseValue(y) = IndefiniteHead(y, ty)
      BY <1>5, <1>6, <1>7, <1>9
    <2>2. (IsString(tx) \/ IsContainer(tx)) <=> (IsString(ty) \/ IsContainer(ty))
      BY <1>2 DEF IsString, IsContainer
    <2>3. CASE IsString(tx) \/ IsContainer(tx)
      BY <1>2, <2>1, <2>2, <2>3 DEF IndefiniteHead, Result
    <2>4. CASE ~(IsString(tx) \/ IsContainer(tx))
      BY <1>2, <2>1, <2>2, <2>4 DEF IndefiniteHead, Result
    <2> QED
      BY <2>3, <2>4
  <1>10. CASE CanRead(x, 1) /\ d # IndefiniteLength /\ d > Value64Bit
    <2>1. PreparseValue(x) = ReservedHead(tx) /\ PreparseValue(y) = ReservedHead(ty)
      BY <1>5, <1>6, <1>7, <1>10
    <2> QED
      BY <1>2, <2>1 DEF ReservedHead, Result
  <1>11. CASE CanRead(x, 1) /\ d # IndefiniteLength /\ ~(d > Value64Bit)
    BY <1>3, <1>4, <1>5, <1>6, <1>7, <1>11 DEF Result
  <1> QED
    BY <1>8, <1>9, <1>10, <1>11

LEMMA PreparseCurrent ==
  ASSUME buf \in Seq(Byte), NEW it \in Cursors, Within(it), PreparseValue(it).err = "ok"
  PROVE  Current(PreparseValue(it).it)
  <1> DEFINE c == PreparseValue(it).it
             y == [Start EXCEPT !.ptr = c.ptr]
             f == PreparseValue(y).it
             g == [f EXCEPT !.remaining = c.remaining, !.map = c.map, !.key = c.key]
  <1>1. c \in Cursors /\ c.ptr = it.ptr
    BY PreparseValueProperties DEF SameSlot
  <1>2. y \in Cursors /\ y.ptr = it.ptr
    BY <1>1, StartType DEF Cursors
  <1>3. PreparseValue(y).err = "ok" /\ Twins(c, f)
    <2> HIDE DEF y
    <2> QED
      BY <1>2, PreparseTwins
  <1>4. f \in Cursors
    <2> HIDE DEF y
    <2> QED
      BY <1>2, PreparseValueProperties DEF Within
  <1>5. FreshHead(c) = PreparseValue(y)
    BY DEF FreshHead
  <1> HIDE DEF c, f, y
  <1>6. g \in Cursors /\ g.remaining = c.remaining /\ g.map = c.map /\ g.key = c.key
        /\ Twins(g, f)
    BY <1>1, <1>4 DEF Cursors, Twins
  <1> HIDE DEF g
  <1>7. c = g
    BY <1>1, <1>3, <1>6, CursorsEqual DEF Twins
  <1> QED
    BY <1>3, <1>5, <1>7 DEF Current, g, f, c

(* What each operation of the cursor leaves behind. *)
LEMMA NoDecrementOutcome ==
  ASSUME buf \in Seq(Byte), NEW it \in Placed, it.remaining # 0
  PROVE  Outcome(PreparseNoDecrement(it))
  <1> DEFINE r == PreparseNoDecrement(it)
  <1>1. /\ it \in Cursors /\ Within(it)
        /\ r.it \in Cursors /\ r.it.ptr = it.ptr /\ (r.err = "ok" => Standing(r.it))
    BY NoDecrementProperties DEF Placed
  <1>2. r.err = "ok" => Current(r.it)
    <2>1. CASE it.remaining = U32Max /\ AtBreak(it)
      <3>1. r = IF BreakForbidden(it) THEN Result("unexpected_break", it)
                ELSE Result("ok", [it EXCEPT !.type = "invalid", !.remaining = 0, !.unknown = TRUE])
        BY <2>1 DEF PreparseNoDecrement
      <3>2. r.err = "ok" => r.it.remaining = 0
        BY <1>1, <3>1 DEF Result, Cursors
      <3> QED
        BY <3>2 DEF Current
    <2>2. CASE ~(it.remaining = U32Max /\ AtBreak(it))
      <3>1. r = PreparseValue(it)
        BY <2>2 DEF PreparseNoDecrement
      <3> QED
        BY <1>1, <3>1, PreparseCurrent
    <2> QED
      BY <2>1, <2>2
  <1> HIDE DEF r
  <1> QED
    BY <1>1, <1>2 DEF Outcome, Placed, Stood, Ready, Within, r

LEMMA NextOutcome ==
  ASSUME buf \in Seq(Byte), NEW it \in Placed, it.remaining # 0
  PROVE  Outcome(PreparseNext(it))
  <1> DEFINE r == PreparseNext(it)
             left == IF it.remaining = U32Max THEN it.remaining ELSE it.remaining - 1
             flipped == ~it.key
             counted == [it EXCEPT !.remaining = left, !.key = flipped]
             ended == [it EXCEPT !.type = "invalid", !.remaining = 0, !.unknown = FALSE]
  <1>1. it \in Cursors /\ Within(it)
    BY DEF Placed
  <1>2. CASE ~CountsAsItem(it)
    BY <1>2, NoDecrementOutcome DEF PreparseNext
  <1>3. CASE CountsAsItem(it) /\ it.remaining = 1
    <2>1. r = Result("ok", ended)
      BY <1>3 DEF PreparseNext
    <2>2. ended.remaining = 0
      BY <1>1 DEF Cursors
    <2> HIDE DEF ended
    <2>4. r.it.remaining = 0
      BY <2>1, <2>2 DEF Result
    <2>3. r.it \in Cursors /\ r.it.ptr = it.ptr /\ (r.err = "ok" => Standing(r.it))
      BY <1>1, NextProperties
    <2> HIDE DEF r
    <2> QED
      BY <1>1, <2>3, <2>4 DEF Outcome, Placed, Stood, Ready, Within, Current, r
  <1>4. CASE CountsAsItem(it) /\ it.remaining # 1
    <2>1. r = PreparseNoDecrement(counted)
      BY <1>4 DEF PreparseNext
    <2>2. left \in 0 .. U32Max /\ left # 0 /\ flipped \in BOOLEAN
      BY <1>1, <1>4, CursorAssumption DEF Cursors
    <2> HIDE DEF left, flipped
    <2>3. counted \in Cursors /\ counted.ptr = it.ptr /\ counted.remaining = left
      BY <1>1, <2>2 DEF Cursors
    <2>4. counted \in Placed
      BY <1>1, <2>3 DEF Placed, Within
    <2> HIDE DEF counted
    <2> QED
      BY <2>1, <2>2, <2>3, <2>4, NoDecrementOutcome
  <1> QED
    BY <1>2, <1>3, <1>4

LEMMA StoodIs ==
  ASSUME NEW it \in Stood
  PROVE  /\ it \in Cursors /\ it \in Placed /\ Within(it) /\ Standing(it)
         /\ it.remaining # 0 => HeadHere(it)
         /\ it.remaining = 0 => it.type = "invalid"
  BY DEF Stood, Placed, Standing

LEMMA StoodType ==
  ASSUME buf \in Seq(Byte), NEW it \in Stood
  PROVE  it.type = "invalid" <=> it.remaining = 0
  BY StoodIs, HeadProperties

LEMMA AdvanceOutcome ==
  ASSUME buf \in Seq(Byte), NEW it \in Stood, it.remaining # 0,
         ~IsString(it), ~IsContainer(it)
  PROVE  Outcome(AdvanceInternal(it))
  <1>1. HeadHere(it) /\ it \in Cursors
    BY StoodIs
  <1>2. ~it.unknown
    BY <1>1, HeadProperties
  <1>3. PastHead(it) \in Placed /\ PastHead(it).remaining # 0
    BY <1>1, <1>2, HeadProperties DEF Placed
  <1>4. AdvanceInternal(it) = PreparseNext(PastHead(it))
    BY DEF AdvanceInternal
  <1> QED
    BY <1>3, <1>4, NextOutcome

LEMMA EnterOutcome ==
  ASSUME buf \in Seq(Byte), NEW it \in Stood, IsContainer(it)
  PROVE  Outcome(EnterContainer(it))
  <1> DEFINE r == EnterContainer(it)
             items == IF it.type = "map" THEN 2 * Int64(it) ELSE Int64(it)
             past == PastHead(it)
             unknown == [Inside(Advanced(it, 1)) EXCEPT !.remaining = U32Max]
             known == [Inside(past) EXCEPT !.remaining = items]
  <1>1. it.remaining # 0 /\ HeadHere(it) /\ it \in Cursors
    <2>1. it.type # "invalid"
      BY DEF IsContainer, ContainerMajors
    <2> QED
      BY <2>1, StoodIs
  <1>2. r.it \in Cursors /\ Within(r.it) /\ (r.err = "ok" => Standing(r.it))
    BY <1>1, EnterProperties
  <1>3. r.err = "ok" => Current(r.it)
    <2>1. CASE it.unknown
      <3>1. Advanced(it, 1) \in Cursors /\ Within(Advanced(it, 1))
        BY <1>1, HeadProperties
      <3>2. unknown \in Placed /\ unknown.remaining # 0
        <4> DEFINE a == Advanced(it, 1)
        <4>1. a \in Cursors /\ Within(a) /\ U32Max \in 0 .. U32Max /\ U32Max # 0
          BY <3>1, CursorAssumption
        <4> HIDE DEF a
        <4> QED
          BY <4>1, InsideIs DEF Placed, Within, a
      <3>3. r = PreparseNoDecrement(unknown)
        BY <2>1 DEF EnterContainer
      <3> HIDE DEF unknown
      <3> QED
        BY <3>2, <3>3, NoDecrementOutcome DEF Outcome, Ready
    <2>2. CASE ~it.unknown /\ TooLarge(it)
      BY <2>2 DEF EnterContainer, Result
    <2>3. CASE ~it.unknown /\ ~TooLarge(it) /\ items = 0
      <3> DEFINE empty == [past EXCEPT !.remaining = 0, !.type = "invalid"]
      <3>1. r = Result("ok", empty)
        BY <2>3 DEF EnterContainer
      <3>2. past \in Cursors
        BY <1>1, <2>3, HeadProperties
      <3> HIDE DEF past, r
      <3>3. empty.remaining = 0
        BY <3>2 DEF Cursors
      <3> HIDE DEF empty
      <3>4. r.it.remaining = 0
        BY <3>1, <3>3 DEF Result
      <3> QED
        BY <3>4 DEF Current, r
    <2>4. CASE ~it.unknown /\ ~TooLarge(it) /\ items # 0
      <3>1. r = PreparseNoDecrement(known)
        BY <2>4 DEF EnterContainer
      <3>2. past \in Cursors /\ Within(past) /\ Int64(it) \in Nat
        BY <1>1, <2>4, HeadProperties
      <3>3. items \in 0 .. U32Max
        <4> DEFINE n == Int64(it)
        <4>1. U32Max \in Nat /\ U32Max = 2 * (U32Max \div 2) + 1
          BY CursorAssumption
        <4>2. n \in Nat /\ n < U32Max /\ (it.type = "map" => n <= U32Max \div 2)
          BY <2>4, <3>2, <4>1 DEF TooLarge
        <4>3. items = IF it.type = "map" THEN 2 * n ELSE n
          OBVIOUS
        <4> HIDE DEF n, items
        <4> QED
          BY <4>1, <4>2, <4>3
      <3> HIDE DEF past, items
      <3>4. known \in Placed /\ known.remaining # 0
        BY <2>4, <3>2, <3>3, InsideIs DEF Placed, Within
      <3> HIDE DEF known
      <3> QED
        BY <3>1, <3>4, NoDecrementOutcome DEF Outcome, Ready
    <2> QED
      BY <2>1, <2>2, <2>3, <2>4
  <1> HIDE DEF r
  <1> QED
    BY <1>2, <1>3 DEF Outcome, Placed, Stood, Ready, r

LEMMA LeaveOutcome ==
  ASSUME buf \in Seq(Byte), NEW it \in Placed, it.remaining # 0,
         NEW recursed \in Stood, recursed.remaining = 0
  PROVE  Outcome(LeaveContainer(it, recursed))
  <1> DEFINE at == ResumeAt(recursed)
             moved == [it EXCEPT !.ptr = at]
  <1>1. at \in 1 .. Limit
    BY StoodIs, ResumeProperties
  <1>2. LeaveContainer(it, recursed) = PreparseNext(moved)
    BY DEF LeaveContainer
  <1> HIDE DEF at
  <1>3. moved \in Placed /\ moved.remaining # 0
    BY <1>1, BufferType DEF Cursors, Placed, Within
  <1> HIDE DEF moved
  <1> QED
    BY <1>2, <1>3, NextOutcome

LEMMA FinishOutcome ==
  ASSUME buf \in Seq(Byte), NEW it \in Placed, it.remaining # 0, it \in Ending
  PROVE  Outcome(FinishStringIteration(it))
  <1> DEFINE past == Advanced(it, 1)
             at == IF it.unknown THEN past ELSE it
  <1>1. it \in Cursors /\ Within(it) /\ (it.unknown => AtBreak(it))
    BY DEF Placed, Ending
  <1>2. past \in Cursors /\ past.ptr = it.ptr + 1 /\ past.remaining = it.remaining
    BY <1>1, AdvancedIs
  <1>3. it.unknown => it.ptr < Limit
    BY <1>1, CanReadIs, BufferType DEF AtBreak, Within
  <1> HIDE DEF past
  <1>4. at \in Placed /\ at.remaining # 0
    BY <1>1, <1>2, <1>3, BufferType DEF Placed, Within
  <1>5. FinishStringIteration(it) = PreparseNext(at)
    BY DEF FinishStringIteration, past
  <1> HIDE DEF at
  <1> QED
    BY <1>4, <1>5, NextOutcome

(* The chunks of a string stay inside the buffer. *)
LEMMA ChunkOutcome ==
  ASSUME buf \in Seq(Byte), NEW it \in Placed, it.remaining # 0
  PROVE  LET chunk == GetChunk(it)
         IN  /\ chunk.it \in Placed /\ chunk.it.remaining # 0
             /\ chunk.err = "no_more_chunks" => it \in Ending
  <1>1. it \in Cursors /\ Within(it) /\ it.ptr # 0
    BY DEF Placed, Within
  <1> QED
    BY <1>1, ChunkProperties DEF Placed, Ending

LEMMA BeginOutcome ==
  ASSUME buf \in Seq(Byte), NEW it \in Stood, IsString(it)
  PROVE  BeginStringIteration(it) \in Placed /\ BeginStringIteration(it).remaining # 0
  <1>1. it.remaining # 0 /\ HeadHere(it) /\ it \in Cursors
    <2>1. it.type # "invalid"
      BY DEF IsString, StringMajors
    <2> QED
      BY <2>1, StoodIs
  <1>2. it.ptr \in 1 .. Limit /\ it.ptr < Limit
    BY <1>1, HeadProperties DEF Within
  <1> DEFINE b == BeginStringIteration(it)
  <1>3. /\ b \in Cursors /\ b.ptr = (IF it.unknown THEN it.ptr + 1 ELSE it.ptr)
        /\ b.remaining = it.remaining
    BY <1>1, BeginProperties
  <1>4. Limit \in Nat
    BY BufferType
  <1> HIDE DEF b
  <1>5. b \in Placed /\ b.remaining # 0
    BY <1>1, <1>2, <1>3, <1>4 DEF Placed, Within
  <1> QED
    BY <1>5 DEF b

-----------------------------------------------------------------------------
(* The buffer does not change, so neither does what a cursor stands on. *)
LEMMA SetsStay ==
  ASSUME buf' = buf
  PROVE  Placed' = Placed /\ Stood' = Stood /\ Ready' = Ready /\ Ending' = Ending
  <1>3. Placed' = Placed /\ Stood' = Stood
    BY PlacesStay
  <1>4. ASSUME NEW c PROVE PreparseValue(c)' = PreparseValue(c)
    <2>1. /\ CanRead(c, 1)' = CanRead(c, 1) /\ HeadByte(c)' = HeadByte(c)
          /\ CanRead(c, BytesNeeded(Descriptor(HeadByte(c))) + 1)'
               = CanRead(c, BytesNeeded(Descriptor(HeadByte(c))) + 1)
      BY DEF CanRead, Limit, HeadByte
    <2>2. Decoded(c)' = Decoded(c)
      BY DEF Decoded, HeadByte
    <2>3. Overlong(Decoded(c))' = Overlong(Decoded(c))
      BY <2>2 DEF Overlong, HeadByte
    <2> QED
      BY <2>1, <2>2, <2>3 DEF PreparseValue
  <1>5. ASSUME NEW c PROVE Current(c)' <=> Current(c)
    BY <1>4 DEF Current, FreshHead
  <1>6. Ready' = Ready
    BY <1>3, <1>5 DEF Ready
  <1>7. Ending' = Ending
    BY DEF Ending, AtBreak, CanRead, HeadByte, Limit
  <1> QED
    BY <1>3, <1>6, <1>7

(* Sequences: the last of them, and what is around it. *)
LEMMA FrontIs ==
  ASSUME NEW S, NEW s \in Seq(S), s # << >>
  PROVE  /\ Front(s) \in Seq(S) /\ Len(Front(s)) = Len(s) - 1
         /\ Len(s) \in Nat \ {0}
         /\ \A i \in 1 .. Len(s) - 1 : Front(s)[i] = s[i]
  BY AllButLast DEF Front

LEMMA LastIs ==
  ASSUME NEW S, NEW s \in Seq(S), s # << >>
  PROVE  Last(s) \in S /\ Last(s) = s[Len(s)] /\ Len(s) \in Nat \ {0}
  BY EmptySeq, LenProperties, ElementOfSeq DEF Last

LEMMA InnermostIs ==
  ASSUME NavInv
  PROVE  /\ buf \in Seq(Byte) /\ Innermost \in Placed /\ Len(cursors) \in Nat \ {0}
         /\ Innermost = cursors[Len(cursors)]
         /\ Idle => Innermost \in Ready /\ Innermost \in Stood
  <1>1. cursors \in Seq(Placed) /\ cursors # << >>
    BY DEF NavInv, CursorsInv
  <1>2. Innermost \in Placed /\ Innermost = cursors[Len(cursors)] /\ Len(cursors) \in Nat \ {0}
    BY <1>1, LastIs DEF Innermost
  <1> QED
    BY <1>2 DEF NavInv, CursorsInv, ClientInv, Idle, Ready

LEMMA HereIs ==
  ASSUME NavInv, phase \in {"walk", "chunks"}
  PROVE  /\ Here \in Placed /\ Here = walk[Len(walk)] /\ Len(walk) \in Nat \ {0}
         /\ OpenFrames(walk)
  <1>1. OpenFrames(walk)
    BY DEF NavInv, WalkInv
  <1> QED
    BY <1>1, LastIs DEF Here, OpenFrames

-----------------------------------------------------------------------------
(* The client's innermost cursor is replaced. *)
LEMMA CursorReplaced ==
  ASSUME NavInv, buf' = buf, reader' = reader, NEW c \in Placed,
         cursors' = [cursors EXCEPT ![Len(cursors)] = c],
         walk' \in Seq(Placed), Len(walk') <= MAX_RECURSIONS + 1
  PROVE  CursorsInv' /\ Innermost' = c
  <1>1. cursors \in Seq(Placed) /\ cursors # << >> /\ Placed' = Placed
    BY SetsStay DEF NavInv, CursorsInv
  <1>2. /\ cursors' \in Seq(Placed) /\ cursors' # << >> /\ Len(cursors') = Len(cursors)
        /\ cursors'[Len(cursors')] = c
        /\ \A i \in 1 .. Len(cursors) - 1 : cursors'[i] = cursors[i]
    BY <1>1, LastReplaced
  <1>3. Innermost' = c
    BY <1>2 DEF Innermost, Last
  <1> QED
    BY <1>1, <1>2, <1>3 DEF NavInv, CursorsInv

LEMMA EmptyWalk == << >> \in Seq(Placed) /\ Len(<< >>) <= MAX_RECURSIONS + 1
  BY AdvanceAssumption

(* A call ends. *)
LEMMA Returns ==
  ASSUME NavInv, ScanInv', buf' = buf, reader' = reader,
         NEW r, Outcome(r), ReturnToClient(r)
  PROVE  NavInv'
  <1>1. /\ cursors' = [cursors EXCEPT ![Len(cursors)] = r.it] /\ err' = r.err
        /\ phase' = "client" /\ walk' = << >> /\ r.it \in Placed
    BY DEF ReturnToClient, Outcome
  <1>2. CursorsInv' /\ Innermost' = r.it
    BY <1>1, EmptyWalk, CursorReplaced
  <1>3. ClientInv'
    BY <1>1, <1>2, SetsStay DEF ClientInv, Outcome
  <1>4. WalkInv'
    BY <1>1 DEF WalkInv
  <1> QED
    BY <1>2, <1>3, <1>4 DEF NavInv

(* The walk goes on with other frames. *)
LEMMA WalksOn ==
  ASSUME NavInv, ScanInv', buf' = buf, reader' = reader, UNCHANGED callVars,
         OpenFrames(walk'), phase' \in {"walk", "chunks"},
         phase' = "walk" => Last(walk') \in Stood /\ (Len(walk') = 1 => Last(walk').remaining # 0),
         phase' = "chunks" => Last(walk').remaining # 0
  PROVE  NavInv'
  <1>1. Placed' = Placed /\ Stood' = Stood
    BY SetsStay
  <1>2. CursorsInv'
    BY <1>1 DEF NavInv, CursorsInv, callVars, OpenFrames
  <1>3. ClientInv'
    BY DEF ClientInv
  <1>4. WalkInv'
    BY <1>1 DEF WalkInv, OpenFrames, Here, Last
  <1> QED
    BY <1>2, <1>3, <1>4 DEF NavInv

(* One level of the walk ends. *)
LEMMA ReturnsFrom ==
  ASSUME NavInv, ScanInv', buf' = buf, reader' = reader,
         NEW frames, OpenFrames(frames), NEW r, Outcome(r), ReturnFrom(frames, r)
  PROVE  NavInv'
  <1>1. /\ frames \in Seq(Placed) /\ frames # << >> /\ Len(frames) <= MAX_RECURSIONS + 1
        /\ Len(frames) \in Nat \ {0}
        /\ \A i \in 1 .. Len(frames) - 1 : frames[i].remaining # 0
    BY LastIs DEF OpenFrames
  <1>2. CASE Len(frames) = 1
    BY <1>2, Returns DEF ReturnFrom
  <1>3. CASE Len(frames) # 1 /\ r.err # "ok"
    <2>1. ReturnToClient(Result(r.err, frames[1]))
      BY <1>3 DEF ReturnFrom
    <2>2. frames[1] \in Placed
      BY <1>1, ElementOfSeq
    <2>3. Outcome(Result(r.err, frames[1]))
      BY <1>3, <2>2 DEF Outcome, Result
    <2> QED
      BY <2>1, <2>3, Returns
  <1>4. CASE Len(frames) # 1 /\ r.err = "ok"
    <2>1. /\ phase' = "walk" /\ walk' = [frames EXCEPT ![Len(frames)] = r.it]
          /\ UNCHANGED callVars
      BY <1>4 DEF ReturnFrom
    <2>2. r.it \in Placed /\ r.it \in Stood
      BY <1>4 DEF Outcome, Ready
    <2>3. /\ walk' \in Seq(Placed) /\ walk' # << >> /\ Len(walk') = Len(frames)
          /\ walk'[Len(walk')] = r.it
          /\ \A i \in 1 .. Len(frames) - 1 : walk'[i] = frames[i]
      BY <1>1, <2>1, <2>2, LastReplaced
    <2>4. OpenFrames(walk')
      BY <1>1, <2>3 DEF OpenFrames
    <2>5. Last(walk') \in Stood /\ Len(walk') # 1
      BY <1>4, <2>2, <2>3 DEF Last
    <2> QED
      BY <2>1, <2>4, <2>5, WalksOn
  <1> QED
    BY <1>2, <1>3, <1>4

-----------------------------------------------------------------------------
(* The scan beside the calls: at rest, begun on a cursor, or put away. *)
LEMMA ScanRests == ScanInv /\ UNCHANGED << buf, scanVars >> => ScanInv'
  BY ScanNextInv

LEMMA ScanBegins ==
  ASSUME ScanInv, buf' = buf, NEW c \in Placed, NEW at \in {"running"}, ScanFrom(c, at)
  PROVE  ScanInv'
  <1>1. /\ p' = c.ptr /\ cur' = Top /\ stack' = << >> /\ afterTag' = FALSE
        /\ chunks' = "none" /\ scan' = at
    BY DEF ScanFrom
  <1>2. stack' \in Seq(GoodLevel) /\ Len(stack') <= FAST_SCAN_DEPTH
    BY <1>1, FastScanAssumption
  <1>3. p' \in 1 .. Limit /\ Limit' = Limit
    BY <1>1 DEF Placed, Within, Limit
  <1> QED
    BY <1>1, <1>2, <1>3, TopGood DEF ScanInv

LEMMA ScanPutAway ==
  ASSUME ScanInv, buf' = buf, ResetScan
  PROVE  ScanInv'
  <1>1. /\ p' = 1 /\ cur' = Top /\ stack' = << >> /\ afterTag' = FALSE
        /\ chunks' = "none" /\ scan' = "idle"
    BY DEF ResetScan
  <1>2. stack' \in Seq(GoodLevel) /\ Len(stack') <= FAST_SCAN_DEPTH
    BY <1>1, FastScanAssumption
  <1>3. 1 \in 1 .. Limit /\ Limit' = Limit
    BY BufferType DEF ScanInv, Limit
  <1> QED
    BY <1>1, <1>2, <1>3, TopGood DEF ScanInv

-----------------------------------------------------------------------------
(* advance(). *)
LEMMA PastEndStep ==
  ASSUME NavInv, UNCHANGED << buf, reader >>, AdvancePastEnd
  PROVE  NavInv'
  <1>1. ReturnToClient(Result("advance_past_eof", Innermost)) /\ UNCHANGED scanVars
    BY DEF AdvancePastEnd
  <1>2. ScanInv'
    BY <1>1, ScanRests DEF NavInv
  <1>3. Outcome(Result("advance_past_eof", Innermost))
    BY InnermostIs DEF Outcome, Result
  <1> QED
    BY <1>1, <1>2, <1>3, Returns

(* The walk begins on the client's cursor. *)
LEMMA WalkStarts ==
  ASSUME NavInv, ScanInv', buf' = buf, reader' = reader, UNCHANGED callVars,
         Innermost \in Stood, Innermost.remaining # 0,
         phase' = "walk", walk' = << Innermost >>
  PROVE  NavInv'
  <1> DEFINE c == Innermost
  <1>1. c \in Placed
    BY InnermostIs
  <1>2. walk' = << c >>
    OBVIOUS
  <1> HIDE DEF c
  <1>3. walk' \in Seq(Placed) /\ Len(walk') = 1 /\ walk' # << >> /\ walk'[1] = c
    BY <1>1, <1>2
  <1>4. OpenFrames(walk')
    BY <1>3, AdvanceAssumption DEF OpenFrames
  <1>5. Last(walk') = Innermost
    BY <1>3 DEF Last, c
  <1> QED
    BY <1>4, <1>5, WalksOn

LEMMA CallAdvanceStep ==
  ASSUME NavInv, UNCHANGED << buf, reader >>, Idle, CallAdvance
  PROVE  NavInv'
  <1>1. Innermost.remaining # 0 /\ UNCHANGED callVars
    BY DEF CallAdvance
  <1>2. Innermost \in Stood /\ Innermost \in Placed
    BY InnermostIs
  <1>3. CASE reader \/ Innermost.type = "tag"
    <2>1. phase' = "walk" /\ walk' = << Innermost >> /\ UNCHANGED scanVars
      BY <1>3 DEF CallAdvance
    <2>2. ScanInv'
      BY <2>1, ScanRests DEF NavInv
    <2> QED
      BY <1>1, <1>2, <2>1, <2>2, WalkStarts
  <1>4. CASE ~(reader \/ Innermost.type = "tag")
    <2>1. phase' = "scan" /\ UNCHANGED walk /\ ScanFrom(Innermost, "running")
      BY <1>4 DEF CallAdvance
    <2>2. ScanInv'
      BY <1>2, <2>1, ScanBegins DEF NavInv
    <2>3. Innermost' = Innermost
      BY <1>1 DEF Innermost, Last, callVars
    <2>4. CursorsInv'
      BY <1>1, <2>1, SetsStay DEF NavInv, CursorsInv, callVars
    <2>5. ClientInv'
      BY <1>1, <1>2, <2>1, <2>3, SetsStay DEF ClientInv
    <2>6. WalkInv'
      BY <2>1 DEF WalkInv
    <2> QED
      BY <2>2, <2>4, <2>5, <2>6 DEF NavInv
  <1> QED
    BY <1>3, <1>4

LEMMA ScanningStep ==
  ASSUME NavInv, Scanning PROVE NavInv'
  <1>1. /\ phase = "scan" /\ ScanStep /\ buf' = buf /\ reader' = reader
        /\ UNCHANGED << callVars, walkVars >>
    BY DEF Scanning, ScanStep
  <1>2. ScanInv'
    BY <1>1, ScanNextInv DEF ScanNext, NavInv
  <1>3. Innermost' = Innermost
    BY <1>1 DEF Innermost, Last, callVars
  <1>4. CursorsInv'
    BY <1>1, SetsStay DEF NavInv, CursorsInv, callVars, walkVars
  <1>5. ClientInv'
    BY <1>1, <1>3, SetsStay DEF NavInv, ClientInv, callVars, walkVars
  <1>6. WalkInv'
    BY <1>1 DEF WalkInv, walkVars
  <1> QED
    BY <1>2, <1>4, <1>5, <1>6 DEF NavInv

LEMMA AnsweredStep ==
  ASSUME NavInv, ScanAnswered PROVE NavInv'
  <1> DEFINE moved == [Innermost EXCEPT !.ptr = p]
  <1>1. /\ phase = "scan" /\ ReturnToClient(PreparseNext(moved))
        /\ ResetScan /\ buf' = buf /\ reader' = reader
    BY DEF ScanAnswered
  <1>2. Innermost \in Placed /\ Innermost.remaining # 0 /\ buf \in Seq(Byte)
    BY <1>1, InnermostIs DEF NavInv, ClientInv
  <1>3. moved \in Placed /\ moved.remaining # 0
    <2> DEFINE c == Innermost
    <2>1. c \in Cursors /\ p \in 1 .. Limit /\ Limit \in Nat /\ c.remaining # 0
      BY <1>2, BufferType DEF Placed, NavInv, ScanInv
    <2>2. moved = [c EXCEPT !.ptr = p]
      OBVIOUS
    <2> HIDE DEF c, moved
    <2>3. moved \in Cursors /\ moved.ptr = p /\ moved.remaining = c.remaining
      BY <2>1, <2>2 DEF Cursors
    <2> QED
      BY <2>1, <2>3 DEF Placed, Within
  <1> HIDE DEF moved
  <1>4. Outcome(PreparseNext(moved))
    BY <1>2, <1>3, NextOutcome
  <1>5. ScanInv'
    BY <1>1, ScanPutAway DEF NavInv
  <1> QED
    BY <1>1, <1>4, <1>5, Returns

LEMMA GaveUpStep ==
  ASSUME NavInv, ScanGaveUp PROVE NavInv'
  <1>1. /\ phase = "scan" /\ phase' = "walk" /\ walk' = << Innermost >> /\ ResetScan
        /\ UNCHANGED callVars /\ buf' = buf /\ reader' = reader
    BY DEF ScanGaveUp
  <1>2. Innermost \in Stood /\ Innermost.remaining # 0
    BY <1>1 DEF NavInv, ClientInv
  <1>3. ScanInv'
    BY <1>1, ScanPutAway DEF NavInv
  <1> QED
    BY <1>1, <1>2, <1>3, WalkStarts

-----------------------------------------------------------------------------
(* advance_recursive. *)
LEMMA WalkAtItem ==
  ASSUME NavInv, Walking
  PROVE  Here \in Stood /\ Here.remaining # 0 /\ OpenFrames(walk)
  <1>1. /\ phase = "walk" /\ ~(Len(walk) > 1 /\ Here.type = "invalid")
        /\ Here \in Stood /\ (Len(walk) = 1 => Here.remaining # 0)
    BY DEF Walking, AtLoopEnd, NavInv, WalkInv
  <1>2. Len(walk) \in Nat \ {0} /\ OpenFrames(walk)
    BY <1>1, HereIs
  <1>3. Here.remaining = 0 => Here.type = "invalid"
    BY <1>1, StoodIs
  <1>4. Len(walk) # 1 => Len(walk) > 1
    <2> DEFINE n == Len(walk)
    <2>1. n \in Nat \ {0}
      BY <1>2
    <2> HIDE DEF n
    <2>2. n # 1 => n > 1
      BY <2>1
    <2> QED
      BY <2>2 DEF n
  <1> QED
    BY <1>1, <1>2, <1>3, <1>4

LEMMA WalkFixedStep ==
  ASSUME NavInv, WalkFixed, UNCHANGED << buf, reader, scanVars >>
  PROVE  NavInv'
  <1>1. Walking /\ ~IsString(Here) /\ ~IsContainer(Here)
        /\ ReturnFrom(walk, AdvanceInternal(Here))
    BY DEF WalkFixed
  <1>2. Here \in Stood /\ Here.remaining # 0 /\ OpenFrames(walk) /\ buf \in Seq(Byte)
    BY <1>1, WalkAtItem, InnermostIs
  <1>3. Outcome(AdvanceInternal(Here))
    BY <1>1, <1>2, AdvanceOutcome
  <1>4. ScanInv'
    BY ScanRests DEF NavInv
  <1> QED
    BY <1>1, <1>2, <1>3, <1>4, ReturnsFrom

(* The cursor that is walked is replaced. *)
LEMMA HereReplaced ==
  ASSUME NavInv, UNCHANGED << buf, reader, scanVars >>, UNCHANGED callVars,
         phase \in {"walk", "chunks"}, phase' = "chunks",
         NEW c \in Placed, c.remaining # 0, walk' = [walk EXCEPT ![Len(walk)] = c]
  PROVE  NavInv'
  <1>1. OpenFrames(walk)
    BY HereIs
  <1>2. /\ walk' \in Seq(Placed) /\ walk' # << >> /\ Len(walk') = Len(walk)
        /\ walk'[Len(walk')] = c
        /\ \A i \in 1 .. Len(walk) - 1 : walk'[i] = walk[i]
    BY <1>1, LastReplaced DEF OpenFrames
  <1>3. OpenFrames(walk') /\ Last(walk') = c
    BY <1>1, <1>2 DEF OpenFrames, Last
  <1>4. ScanInv'
    BY ScanRests DEF NavInv
  <1> QED
    BY <1>3, <1>4, WalksOn

LEMMA WalkIntoStringStep ==
  ASSUME NavInv, WalkIntoString, UNCHANGED << buf, reader, scanVars >>
  PROVE  NavInv'
  <1>1. /\ Walking /\ phase = "walk" /\ IsString(Here) /\ phase' = "chunks"
        /\ walk' = [walk EXCEPT ![Len(walk)] = BeginStringIteration(Here)]
        /\ UNCHANGED callVars
    BY DEF WalkIntoString, Walking
  <1>2. Here \in Stood /\ buf \in Seq(Byte)
    BY <1>1, WalkAtItem, InnermostIs
  <1>3. BeginStringIteration(Here) \in Placed /\ BeginStringIteration(Here).remaining # 0
    BY <1>1, <1>2, BeginOutcome
  <1> QED
    BY <1>1, <1>3, HereReplaced

LEMMA WalkChunkStep ==
  ASSUME NavInv, WalkChunk, UNCHANGED << buf, reader, scanVars >>
  PROVE  NavInv'
  <1> DEFINE chunk == GetChunk(Here)
  <1>1. phase = "chunks"
    BY DEF WalkChunk
  <1>2. /\ Here \in Placed /\ Here.remaining # 0 /\ OpenFrames(walk) /\ buf \in Seq(Byte)
    BY <1>1, HereIs, InnermostIs DEF NavInv, WalkInv
  <1>3. /\ chunk.it \in Placed /\ chunk.it.remaining # 0
        /\ chunk.err = "no_more_chunks" => Here \in Ending
    BY <1>2, ChunkOutcome
  <1>4. ScanInv'
    BY ScanRests DEF NavInv
  <1>5. CASE chunk.err = "no_more_chunks"
    <2>1. ReturnFrom(walk, FinishStringIteration(Here))
      BY <1>5 DEF WalkChunk
    <2>2. Outcome(FinishStringIteration(Here))
      BY <1>2, <1>3, <1>5, FinishOutcome
    <2> QED
      BY <1>2, <1>4, <2>1, <2>2, ReturnsFrom
  <1>6. CASE chunk.err = "ok"
    <2>1. walk' = [walk EXCEPT ![Len(walk)] = chunk.it] /\ UNCHANGED << callVars, phase >>
      BY <1>6 DEF WalkChunk
    <2> QED
      BY <1>1, <1>3, <2>1, HereReplaced
  <1>7. CASE chunk.err # "no_more_chunks" /\ chunk.err # "ok"
    <2>1. ReturnFrom(walk, chunk)
      BY <1>7 DEF WalkChunk
    <2>2. Outcome(chunk)
      BY <1>3, <1>7 DEF Outcome
    <2> QED
      BY <1>2, <1>4, <2>1, <2>2, ReturnsFrom
  <1> QED
    BY <1>5, <1>6, <1>7

LEMMA WalkContainerStep ==
  ASSUME NavInv, WalkTooDeep \/ WalkIntoContainer, UNCHANGED << buf, reader, scanVars >>
  PROVE  NavInv'
  <1> DEFINE entered == EnterContainer(Here)
  <1>1. Walking /\ IsContainer(Here) /\ phase = "walk"
    BY DEF WalkTooDeep, WalkIntoContainer, Walking
  <1>2. /\ Here \in Stood /\ Here \in Placed /\ Here.remaining # 0
        /\ OpenFrames(walk) /\ buf \in Seq(Byte)
        /\ Here = walk[Len(walk)] /\ Len(walk) \in Nat \ {0}
    BY <1>1, WalkAtItem, HereIs, InnermostIs
  <1>3. ScanInv'
    BY ScanRests DEF NavInv
  <1>4. ASSUME NEW e, e # "ok", ReturnFrom(walk, Result(e, Here)) PROVE NavInv'
    <2>1. Outcome(Result(e, Here))
      BY <1>2, <1>4 DEF Outcome, Result
    <2> QED
      BY <1>2, <1>3, <1>4, <2>1, ReturnsFrom
  <1>5. CASE WalkTooDeep
    BY <1>4, <1>5 DEF WalkTooDeep
  <1>6. CASE WalkIntoContainer /\ entered.err # "ok"
    BY <1>4, <1>6 DEF WalkIntoContainer
  <1>7. CASE WalkIntoContainer /\ entered.err = "ok"
    <2>1. /\ Len(walk) <= MAX_RECURSIONS /\ walk' = Append(walk, entered.it)
          /\ UNCHANGED << callVars, phase >>
      BY <1>7 DEF WalkIntoContainer
    <2>2. entered.it \in Stood /\ entered.it \in Placed
      BY <1>1, <1>2, <1>7, EnterOutcome DEF Outcome, Ready
    <2> HIDE DEF entered
    <2>3. /\ walk' \in Seq(Placed) /\ walk' # << >> /\ Len(walk') = Len(walk) + 1
          /\ walk'[Len(walk')] = entered.it
          /\ \A i \in 1 .. Len(walk) : walk'[i] = walk[i]
      BY <1>2, <2>1, <2>2, LastAppended DEF OpenFrames
    <2>4. OpenFrames(walk')
      BY <1>2, <2>1, <2>3, AdvanceAssumption DEF OpenFrames
    <2>5. Last(walk') \in Stood /\ Len(walk') # 1
      BY <1>2, <2>2, <2>3 DEF Last
    <2> QED
      BY <1>1, <1>3, <2>1, <2>4, <2>5, WalksOn
  <1> QED
    BY <1>5, <1>6, <1>7

LEMMA WalkOutStep ==
  ASSUME NavInv, WalkOut, UNCHANGED << buf, reader, scanVars >>
  PROVE  NavInv'
  <1> DEFINE outer == walk[Len(walk) - 1]
  <1>1. /\ phase = "walk" /\ Len(walk) > 1 /\ Here.type = "invalid"
        /\ ReturnFrom(Front(walk), LeaveContainer(outer, Here))
    BY DEF WalkOut, AtLoopEnd
  <1>2. /\ Here \in Stood /\ OpenFrames(walk) /\ buf \in Seq(Byte)
        /\ Len(walk) \in Nat \ {0}
    BY <1>1, HereIs, InnermostIs DEF NavInv, WalkInv
  <1>3. Here.remaining = 0
    BY <1>1, <1>2, StoodType
  <1>4. outer \in Placed /\ outer.remaining # 0
    BY <1>1, <1>2, ElementOfSeq DEF OpenFrames
  <1>5. Outcome(LeaveContainer(outer, Here))
    BY <1>2, <1>3, <1>4, LeaveOutcome
  <1>6. OpenFrames(Front(walk))
    <2>1. /\ Front(walk) \in Seq(Placed) /\ Len(Front(walk)) = Len(walk) - 1
          /\ \A i \in 1 .. Len(walk) - 1 : Front(walk)[i] = walk[i]
      BY <1>2, FrontIs DEF OpenFrames
    <2> QED
      BY <1>1, <1>2, <2>1, AdvanceAssumption DEF OpenFrames
  <1>7. ScanInv'
    BY ScanRests DEF NavInv
  <1> QED
    BY <1>1, <1>5, <1>6, <1>7, ReturnsFrom

-----------------------------------------------------------------------------
(* The calls that work on the client's own cursor. *)
LEMMA FixedStep ==
  ASSUME NavInv, AdvanceFixed PROVE NavInv'
  <1>1. /\ Idle /\ ~IsString(Innermost) /\ ~IsContainer(Innermost)
        /\ Innermost.remaining # 0 /\ ReturnToClient(AdvanceInternal(Innermost))
        /\ buf' = buf /\ reader' = reader /\ UNCHANGED scanVars
    BY DEF AdvanceFixed, Quiet
  <1>2. Innermost \in Stood /\ buf \in Seq(Byte)
    BY <1>1, InnermostIs
  <1>3. Outcome(AdvanceInternal(Innermost))
    BY <1>1, <1>2, AdvanceOutcome
  <1>4. ScanInv'
    BY <1>1, ScanRests DEF NavInv
  <1> QED
    BY <1>1, <1>3, <1>4, Returns

(* Nothing moves but the phase. *)
LEMMA CallSkipTagStep ==
  ASSUME NavInv, CallSkipTag PROVE NavInv'
  <1>1. /\ Idle /\ Innermost.type = "tag" /\ phase' = "tags" /\ UNCHANGED << callVars, walk >>
        /\ buf' = buf /\ reader' = reader /\ UNCHANGED scanVars
    BY DEF CallSkipTag, Quiet
  <1>2. Innermost \in Stood
    BY <1>1, InnermostIs
  <1>3. Innermost' = Innermost
    BY <1>1 DEF Innermost, Last, callVars
  <1>4. ScanInv'
    BY <1>1, ScanRests DEF NavInv
  <1>5. CursorsInv'
    BY <1>1, SetsStay DEF NavInv, CursorsInv, callVars
  <1>6. ClientInv'
    BY <1>1, <1>2, <1>3, SetsStay DEF ClientInv
  <1>7. WalkInv'
    BY <1>1 DEF WalkInv
  <1> QED
    BY <1>4, <1>5, <1>6, <1>7 DEF NavInv

LEMMA SkipTagTurnStep ==
  ASSUME NavInv, SkipTagTurn PROVE NavInv'
  <1> DEFINE r == AdvanceInternal(Innermost)
  <1>1. phase = "tags" /\ buf' = buf /\ reader' = reader /\ UNCHANGED scanVars
    BY DEF SkipTagTurn, Quiet
  <1>2. /\ Innermost.type = "tag" /\ Innermost \in Stood /\ buf \in Seq(Byte)
        /\ Innermost \in Placed
    BY <1>1, InnermostIs DEF NavInv, ClientInv
  <1>3. /\ Innermost.remaining # 0 /\ ~IsString(Innermost) /\ ~IsContainer(Innermost)
    BY <1>2, StoodType DEF IsString, IsContainer, StringMajors, ContainerMajors
  <1>4. Outcome(r)
    BY <1>2, <1>3, AdvanceOutcome
  <1>5. /\ cursors' = [cursors EXCEPT ![Len(cursors)] = r.it] /\ err' = r.err
        /\ phase' = IF r.err = "ok" /\ r.it.type = "tag" THEN "tags" ELSE "client"
        /\ UNCHANGED walk
    BY <1>3 DEF SkipTagTurn
  <1> HIDE DEF r
  <1>6. ScanInv'
    BY <1>1, ScanRests DEF NavInv
  <1>7. CursorsInv' /\ Innermost' = r.it
    BY <1>1, <1>4, <1>5, CursorReplaced DEF NavInv, CursorsInv, Outcome
  <1>8. ClientInv'
    BY <1>1, <1>4, <1>5, <1>7, SetsStay DEF ClientInv, Outcome, Ready
  <1>9. WalkInv'
    BY <1>5 DEF WalkInv
  <1> QED
    BY <1>6, <1>7, <1>8, <1>9 DEF NavInv

LEMMA EnterStep ==
  ASSUME NavInv, ClientEnter PROVE NavInv'
  <1> DEFINE entered == EnterContainer(Innermost)
  <1>1. /\ Idle /\ phase = "client" /\ IsContainer(Innermost)
        /\ cursors' = Append(cursors, entered.it)
        /\ err' = entered.err /\ UNCHANGED walkVars
        /\ buf' = buf /\ reader' = reader /\ UNCHANGED scanVars
    BY DEF ClientEnter, Quiet, Idle
  <1>2. /\ Innermost \in Stood /\ buf \in Seq(Byte) /\ Len(cursors) \in Nat \ {0}
        /\ Innermost = cursors[Len(cursors)]
    BY <1>1, InnermostIs
  <1>3. Outcome(entered)
    BY <1>1, <1>2, EnterOutcome
  <1>4. Innermost.remaining # 0
    BY <1>1, <1>2, StoodType DEF IsContainer, ContainerMajors
  <1> HIDE DEF entered
  <1>5. /\ cursors' \in Seq(Placed) /\ cursors' # << >> /\ Len(cursors') = Len(cursors) + 1
        /\ cursors'[Len(cursors')] = entered.it
        /\ \A i \in 1 .. Len(cursors) : cursors'[i] = cursors[i]
    BY <1>1, <1>3, LastAppended DEF NavInv, CursorsInv, Outcome
  <1>6. \A i \in 1 .. Len(cursors') - 1 : cursors'[i].remaining # 0
    BY <1>2, <1>4, <1>5 DEF NavInv, CursorsInv
  <1>7. Innermost' = entered.it
    BY <1>5 DEF Innermost, Last
  <1>8. CursorsInv'
    BY <1>1, <1>5, <1>6, SetsStay DEF NavInv, CursorsInv, walkVars
  <1>9. ClientInv'
    BY <1>1, <1>3, <1>7, SetsStay DEF ClientInv, Outcome, walkVars
  <1>10. WalkInv'
    BY <1>1 DEF WalkInv, walkVars
  <1>11. ScanInv'
    BY <1>1, ScanRests DEF NavInv
  <1> QED
    BY <1>8, <1>9, <1>10, <1>11 DEF NavInv

LEMMA LeaveStep ==
  ASSUME NavInv, ClientLeave PROVE NavInv'
  <1> DEFINE outer == cursors[Len(cursors) - 1]
             around == Front(Front(cursors))
             r == LeaveContainer(outer, Innermost)
  <1>1. /\ Idle /\ phase = "client" /\ Len(cursors) > 1 /\ Innermost.remaining = 0
        /\ cursors' = Append(around, r.it)
        /\ err' = r.err /\ UNCHANGED walkVars
        /\ buf' = buf /\ reader' = reader /\ UNCHANGED scanVars
    BY DEF ClientLeave, Quiet, Idle
  <1>2. /\ Innermost \in Stood /\ buf \in Seq(Byte) /\ Len(cursors) \in Nat \ {0}
        /\ cursors \in Seq(Placed) /\ cursors # << >>
        /\ \A i \in 1 .. Len(cursors) - 1 : cursors[i].remaining # 0
    BY <1>1, InnermostIs DEF NavInv, CursorsInv
  <1>3. outer \in Placed /\ outer.remaining # 0
    BY <1>1, <1>2, ElementOfSeq
  <1>4. Outcome(r)
    BY <1>1, <1>2, <1>3, LeaveOutcome
  <1> DEFINE n == Len(cursors)
  <1>5. /\ around \in Seq(Placed) /\ Len(around) = n - 2
        /\ \A i \in 1 .. n - 2 : around[i] = cursors[i]
    <2>1. /\ Front(cursors) \in Seq(Placed) /\ Len(Front(cursors)) = n - 1
          /\ \A i \in 1 .. n - 1 : Front(cursors)[i] = cursors[i]
      BY <1>2, FrontIs
    <2>2. Front(cursors) # << >>
      BY <1>1, <2>1
    <2> DEFINE f == Front(cursors)
    <2> HIDE DEF f
    <2>3. /\ Front(f) \in Seq(Placed) /\ Len(Front(f)) = Len(f) - 1
          /\ \A i \in 1 .. Len(f) - 1 : Front(f)[i] = f[i]
      BY <2>1, <2>2, FrontIs DEF f
    <2> QED
      BY <1>2, <2>1, <2>3 DEF f
  <1> HIDE DEF r, around, outer
  <1>6. /\ cursors' \in Seq(Placed) /\ cursors' # << >> /\ Len(cursors') = n - 1
        /\ cursors'[Len(cursors')] = r.it
        /\ \A i \in 1 .. n - 2 : cursors'[i] = cursors[i]
    <2>1. r.it \in Placed
      BY <1>4 DEF Outcome
    <2>2. /\ cursors' \in Seq(Placed) /\ cursors' # << >>
          /\ Len(cursors') = Len(around) + 1
          /\ cursors'[Len(cursors')] = r.it
          /\ \A i \in 1 .. Len(around) : cursors'[i] = around[i]
      BY <1>1, <1>5, <2>1, LastAppended
    <2>3. n \in Nat \ {0}
      BY <1>2
    <2> HIDE DEF n
    <2>4. n - 2 + 1 = n - 1
      BY <2>3
    <2> QED
      BY <1>5, <2>2, <2>4
  <1>7. \A i \in 1 .. Len(cursors') - 1 : cursors'[i].remaining # 0
    BY <1>2, <1>6
  <1>8. Innermost' = r.it
    BY <1>6 DEF Innermost, Last
  <1>9. CursorsInv'
    BY <1>1, <1>6, <1>7, SetsStay DEF NavInv, CursorsInv, walkVars
  <1>10. ClientInv'
    BY <1>1, <1>4, <1>8, SetsStay DEF ClientInv, Outcome, walkVars
  <1>11. WalkInv'
    BY <1>1 DEF WalkInv, walkVars
  <1>12. ScanInv'
    BY <1>1, ScanRests DEF NavInv
  <1> QED
    BY <1>9, <1>10, <1>11, <1>12 DEF NavInv

LEMMA BeginStringStep ==
  ASSUME NavInv, BeginString PROVE NavInv'
  <1> DEFINE begun == BeginStringIteration(Innermost)
  <1>1. /\ Idle /\ IsString(Innermost) /\ phase' = "string"
        /\ cursors' = [cursors EXCEPT ![Len(cursors)] = begun]
        /\ UNCHANGED << err, walk >> /\ err = "ok"
        /\ buf' = buf /\ reader' = reader /\ UNCHANGED scanVars
    BY DEF BeginString, Quiet, Idle
  <1>2. Innermost \in Stood /\ buf \in Seq(Byte)
    BY <1>1, InnermostIs
  <1>3. begun \in Placed /\ begun.remaining # 0
    BY <1>1, <1>2, BeginOutcome
  <1> HIDE DEF begun
  <1>4. CursorsInv' /\ Innermost' = begun
    BY <1>1, <1>3, CursorReplaced DEF NavInv, CursorsInv
  <1>5. ClientInv'
    BY <1>1, <1>3, <1>4 DEF ClientInv
  <1>6. WalkInv'
    BY <1>1 DEF WalkInv
  <1>7. ScanInv'
    BY <1>1, ScanRests DEF NavInv
  <1> QED
    BY <1>4, <1>5, <1>6, <1>7 DEF NavInv

LEMMA GetChunkStep ==
  ASSUME NavInv, GetStringChunk PROVE NavInv'
  <1> DEFINE chunk == GetChunk(Innermost)
  <1>1. /\ phase = "string" /\ err' = chunk.err /\ UNCHANGED walkVars
        /\ cursors' = IF chunk.err = "ok"
                      THEN [cursors EXCEPT ![Len(cursors)] = chunk.it] ELSE cursors
        /\ buf' = buf /\ reader' = reader /\ UNCHANGED scanVars
    BY DEF GetStringChunk, Quiet, InString
  <1>2. Innermost \in Placed /\ Innermost.remaining # 0 /\ buf \in Seq(Byte)
    BY <1>1, InnermostIs DEF NavInv, ClientInv
  <1>3. /\ chunk.it \in Placed /\ chunk.it.remaining # 0
        /\ chunk.err = "no_more_chunks" => Innermost \in Ending
    BY <1>2, ChunkOutcome
  <1> HIDE DEF chunk
  <1>4. ScanInv'
    BY <1>1, ScanRests DEF NavInv
  <1>5. WalkInv'
    BY <1>1 DEF WalkInv, walkVars
  <1>6. CASE chunk.err = "ok"
    <2>1. CursorsInv' /\ Innermost' = chunk.it
      BY <1>1, <1>3, <1>6, CursorReplaced DEF NavInv, CursorsInv, walkVars
    <2>2. ClientInv'
      BY <1>1, <1>3, <1>6, <2>1 DEF ClientInv, walkVars
    <2> QED
      BY <1>4, <1>5, <2>1, <2>2 DEF NavInv
  <1>7. CASE chunk.err # "ok"
    <2>1. Innermost' = Innermost
      BY <1>1, <1>7 DEF Innermost, Last
    <2>2. CursorsInv'
      BY <1>1, <1>7, SetsStay DEF NavInv, CursorsInv, walkVars
    <2>3. ClientInv'
      BY <1>1, <1>2, <1>3, <1>7, <2>1, SetsStay DEF ClientInv, walkVars
    <2> QED
      BY <1>4, <1>5, <2>2, <2>3 DEF NavInv
  <1> QED
    BY <1>6, <1>7

LEMMA FinishStep ==
  ASSUME NavInv, FinishString PROVE NavInv'
  <1>1. /\ phase = "string" /\ err = "no_more_chunks"
        /\ ReturnToClient(FinishStringIteration(Innermost))
        /\ buf' = buf /\ reader' = reader /\ UNCHANGED scanVars
    BY DEF FinishString, Quiet, InString
  <1>2. /\ Innermost \in Placed /\ Innermost.remaining # 0 /\ Innermost \in Ending
        /\ buf \in Seq(Byte)
    BY <1>1, InnermostIs DEF NavInv, ClientInv
  <1>3. Outcome(FinishStringIteration(Innermost))
    BY <1>2, FinishOutcome
  <1>4. ScanInv'
    BY <1>1, ScanRests DEF NavInv
  <1> QED
    BY <1>1, <1>3, <1>4, Returns

-----------------------------------------------------------------------------
LEMMA NavInitInv == Init => NavInv
  <1> SUFFICES ASSUME Init PROVE NavInv
    OBVIOUS
  <1> DEFINE c == ParserInit.it
  <1>1. ScanInv
    BY ScanInitInv DEF Init, ScanInit
  <1>2. buf \in Seq(Byte)
    BY <1>1 DEF ScanInv
  <1>3. c \in Placed /\ (ParserInit.err = "ok" => Standing(c))
    BY <1>2, ParserInitProperties DEF Placed
  <1>4. ParserInit.err = "ok" => Current(c)
    <2>1. Start \in Cursors /\ Within(Start)
      BY <1>2, StartType, BufferType DEF Within
    <2> QED
      BY <1>2, <2>1, PreparseCurrent DEF ParserInit
  <1>5. ParserInit.err = "ok" => c \in Ready
    BY <1>3, <1>4 DEF Ready, Stood
  <1>6. /\ cursors = << c >> /\ err = ParserInit.err /\ phase = "client" /\ walk = << >>
        /\ reader \in BOOLEAN
    BY DEF Init
  <1> HIDE DEF c
  <1>7. /\ cursors \in Seq(Placed) /\ cursors # << >> /\ Len(cursors) = 1 /\ cursors[1] = c
    BY <1>3, <1>6
  <1>8. CursorsInv
    BY <1>2, <1>6, <1>7, EmptyWalk DEF CursorsInv
  <1>9. ClientInv
    BY <1>5, <1>6, <1>7 DEF ClientInv, Innermost, Last
  <1>10. WalkInv
    BY <1>6 DEF WalkInv
  <1> QED
    BY <1>1, <1>8, <1>9, <1>10 DEF NavInv

LEMMA NavStutter == NavInv /\ UNCHANGED vars => NavInv'
  <1> SUFFICES ASSUME NavInv, UNCHANGED vars PROVE NavInv'
    OBVIOUS
  <1>1. /\ buf' = buf /\ reader' = reader /\ cursors' = cursors /\ err' = err
        /\ phase' = phase /\ walk' = walk /\ UNCHANGED scanVars
    BY DEF vars
  <1>2. ScanInv'
    BY <1>1, ScanRests DEF NavInv
  <1>3. Placed' = Placed /\ Stood' = Stood /\ Ready' = Ready /\ Ending' = Ending
    BY <1>1, SetsStay
  <1>4. CursorsInv'
    BY <1>1, <1>3 DEF NavInv, CursorsInv
  <1>5. ClientInv'
    BY <1>1, <1>3 DEF NavInv, ClientInv, Innermost, Last
  <1>6. WalkInv'
    BY <1>1, <1>3 DEF NavInv, WalkInv, OpenFrames, Here, Last
  <1> QED
    BY <1>2, <1>4, <1>5, <1>6 DEF NavInv

LEMMA NavNextInv == NavInv /\ [Next]_vars => NavInv'
  <1> SUFFICES ASSUME NavInv, [Next]_vars PROVE NavInv'
    OBVIOUS
  <1>1. CASE UNCHANGED vars
    BY <1>1, NavStutter
  <1>2. CASE AdvanceStep
    <2>1. CASE Scanning \/ ScanAnswered \/ ScanGaveUp
      BY <2>1, ScanningStep, AnsweredStep, GaveUpStep
    <2>2. CASE WalkStep
      BY <2>2, WalkFixedStep, WalkIntoStringStep, WalkChunkStep, WalkContainerStep,
         WalkOutStep DEF WalkStep
    <2> QED
      BY <1>2, <2>1, <2>2 DEF AdvanceStep
  <1>3. CASE SkipTagTurn
    BY <1>3, SkipTagTurnStep
  <1>4. CASE ClientAdvance
    BY <1>4, PastEndStep, CallAdvanceStep DEF ClientAdvance
  <1>5. CASE AdvanceFixed
    BY <1>5, FixedStep
  <1>6. CASE CallSkipTag
    BY <1>6, CallSkipTagStep
  <1>7. CASE ClientEnter
    BY <1>7, EnterStep
  <1>8. CASE ClientLeave
    BY <1>8, LeaveStep
  <1>9. CASE BeginString
    BY <1>9, BeginStringStep
  <1>10. CASE GetStringChunk
    BY <1>10, GetChunkStep
  <1>11. CASE FinishString
    BY <1>11, FinishStep
  <1> QED
    BY <1>1, <1>2, <1>3, <1>4, <1>5, <1>6, <1>7, <1>8, <1>9, <1>10, <1>11 DEF Next, Library

LEMMA NavInvariant == Spec => []NavInv
  BY NavInitInv, NavNextInv, PTL DEF Spec

(* No order of calls, on no document, takes a cursor of the client or of   *)
(* advance_recursive out of the buffer, or the recursion past              *)
(* MAX_RECURSIONS.                                                         *)
THEOREM NavigationTypeCorrect == Spec => []TypeOK
  <1>1. NavInv => TypeOK
    <2> SUFFICES ASSUME NavInv PROVE TypeOK
      OBVIOUS
    <2>1. ASSUME NEW c \in Placed PROVE c \in CursorRecord
      BY DEF Placed, Cursors, Within, CursorRecord, Types
    <2>2. /\ cursors \in Seq(Placed) /\ walk \in Seq(Placed) /\ reader \in BOOLEAN
          /\ Len(walk) <= MAX_RECURSIONS + 1 /\ Len(cursors) > 0
      BY InnermostIs DEF NavInv, CursorsInv
    <2>3. /\ \A i \in 1 .. Len(cursors) : cursors[i] \in CursorRecord
          /\ \A i \in 1 .. Len(walk) : walk[i] \in CursorRecord
      BY <2>1, <2>2, ElementOfSeq
    <2> QED
      BY <2>2, <2>3, ScanInvImplies DEF NavInv, TypeOK
  <1> QED
    BY <1>1, NavInvariant, PTL

(* Between its calls a client reads of its cursor what the bytes under it  *)
(* say, whatever it did before (preparse_value clears all but the map's    *)
(* flags).                                                                 *)
THEOREM NavigationHeadCurrent == Spec => []HeadCurrent
  <1>1. NavInv => HeadCurrent
    BY InnermostIs DEF HeadCurrent, Ready, Current, FreshHead
  <1> QED
    BY <1>1, NavInvariant, PTL

-----------------------------------------------------------------------------
(* A cursor the library is ready at has its head read, with its argument.  *)
LEMMA ReadyRead ==
  ASSUME buf \in Seq(Byte), NEW c \in Ready, c.remaining # 0
  PROVE  c \in Cursors /\ HeadRead(c)
  <1> DEFINE y == [Start EXCEPT !.ptr = c.ptr]
             f == PreparseValue(y)
             g == [f.it EXCEPT !.remaining = c.remaining, !.map = c.map, !.key = c.key]
  <1>1. c \in Stood /\ c \in Cursors /\ Within(c) /\ HeadHere(c) /\ Current(c)
    BY StoodIs DEF Ready
  <1>2. f.err = "ok" /\ c = g
    BY <1>1 DEF Current, FreshHead
  <1>3. y \in Cursors /\ y.ptr = c.ptr
    BY <1>1, StartType DEF Cursors
  <1> HIDE DEF y
  <1>4. Within(y) /\ f.it \in Cursors
    BY <1>1, <1>3, PreparseValueProperties DEF Within
  <1>5. f.err = "ok" /\ ~f.it.unknown => PlainHead(y.ptr) /\ Int64(f.it) = Argument(buf, y.ptr)
    BY <1>3, <1>4, ValueIs
  <1>6. SameSlot(f.it, y)
    BY <1>3, <1>4, PreparseValueProperties
  <1> HIDE DEF f
  <1>7. /\ g.unknown = f.it.unknown /\ g.wide = f.it.wide /\ g.extra = f.it.extra
        /\ g.ptr = f.it.ptr
    BY <1>4 DEF Cursors
  <1>8. Int64(g) = Int64(f.it)
    BY <1>3, <1>6, <1>7 DEF Int64, SameSlot
  <1> HIDE DEF g
  <1>9. ~c.unknown => PlainHead(c.ptr) /\ Int64(c) = Argument(buf, c.ptr)
    BY <1>2, <1>3, <1>5, <1>7, <1>8
  <1> QED
    BY <1>1, <1>9 DEF HeadRead

(* What a call must come to that gets past the item under c.               *)
Answers(r, c) ==
  LET owed == Owed(c)
  IN  IF owed.err = "malformed" THEN r.err # "ok"
      ELSE r.err = owed.err /\ Visible(r.it) = Visible(owed.it)

LEMMA AnswersIf ==
  ASSUME NEW r, NEW c, SeenAlike(r, Owed(c))
  PROVE  Answers(r, c)
  BY DEF SeenAlike, SameSight, Answers, Visible

LEMMA AnswersError ==
  ASSUME NEW r, NEW c, c.type # "tag", ItemEnd(c.ptr, MAX_RECURSIONS) = Malformed, r.err # "ok"
  PROVE  Answers(r, c)
  BY DEF Answers, Owed, Result

(* d goes on in the container where c was, and still gets to its end with  *)
(* the levels the library takes; and a call that leaves r in the place of  *)
(* c succeeds if there is such an end.                                     *)
Follows(d, inside, c, iterating) ==
  /\ ContainerEnd(d, inside, Unlimited) = ContainerEnd(c, iterating, Unlimited)
  /\ ContainerEnd(c, iterating, MAX_RECURSIONS) # Malformed =>
       ContainerEnd(d, inside, MAX_RECURSIONS) # Malformed
  /\ Rooted(c) => Rooted(d)
Continues(r, c, iterating) ==
  IF r.err = "ok" THEN Follows(r.it, FALSE, c, iterating)
  ELSE ContainerEnd(c, iterating, MAX_RECURSIONS) = Malformed

LEMMA Limits ==
  ASSUME buf \in Seq(Byte)
  PROVE  MAX_RECURSIONS \in Nat /\ Unlimited \in Nat /\ Unlimited = Limit /\ Limit \in Nat \ {0}
  BY AdvanceAssumption, BufferType DEF Unlimited

LEMMA OwesContinues ==
  ASSUME NEW r, NEW c, NEW iterating \in BOOLEAN,
         ContainerEnd(c, iterating, MAX_RECURSIONS) # Malformed =>
           Owes(r, ContainerEnd(c, iterating, MAX_RECURSIONS), MAX_RECURSIONS),
         r.err = "ok" => Owes(r, ContainerEnd(c, iterating, Unlimited), Unlimited),
         r.err = "ok" /\ Rooted(c) => Rooted(r.it)
  PROVE  Continues(r, c, iterating)
  BY DEF Owes, Continues, Follows

(* What is seen of a cursor tells how it goes on. *)
LEMMA VisibleEnds ==
  ASSUME NEW x, NEW y, Visible(x) = Visible(y), NEW nest
  PROVE  /\ ContainerEnd(x, FALSE, nest) = ContainerEnd(y, FALSE, nest)
         /\ Rooted(x) <=> Rooted(y)
  <1>1. /\ x.ptr = y.ptr /\ x.remaining = y.remaining /\ x.unknown = y.unknown
        /\ x.map = y.map /\ x.key = y.key
    BY DEF Visible
  <1>2. ThisEnd(x, FALSE, nest) = ItemEnd(x.ptr, nest) /\ ThisEnd(y, FALSE, nest) = ItemEnd(y.ptr, nest)
    BY DEF ThisEnd
  <1>3. \A e : AfterThis(e, x, nest) = AfterThis(e, y, nest)
    BY <1>1, SameContainer
  <1>4. ResumeAt(x) = ResumeAt(y)
    BY <1>1 DEF ResumeAt
  <1> QED
    BY <1>1, <1>2, <1>3, <1>4 DEF ContainerEnd, Rooted

(* An item that ends with few levels to spare ends there with as many as   *)
(* one likes.                                                              *)
LEMMA ItemGrows ==
  ASSUME buf \in Seq(Byte), NEW q \in 1 .. Limit, NEW nest \in Nat, ItemEnd(q, nest) # Malformed
  PROVE  ItemEnd(q, Unlimited) = ItemEnd(q, nest) /\ ItemEnd(q, nest + 1) = ItemEnd(q, nest)
  <1>1. "item" \in Pieces /\ 0 \in Nat
    BY DEF Pieces
  <1>2. Unlimited \in Nat /\ Unlimited >= Limit - q /\ nest + 1 \in Nat /\ nest + 1 >= nest
    BY Limits
  <1>3. EndOf[Goal("item", q, 0, nest)] # Malformed
    BY DEF ItemEnd
  <1> DEFINE deeper == nest + 1
  <1> HIDE DEF deeper
  <1>4. deeper \in Nat /\ deeper >= nest
    BY <1>2 DEF deeper
  <1>5. EndOf[Goal("item", q, 0, Unlimited)] = EndOf[Goal("item", q, 0, nest)]
    BY <1>1, <1>2, <1>3, NestGrows
  <1>6. EndOf[Goal("item", q, 0, deeper)] = EndOf[Goal("item", q, 0, nest)]
    BY <1>1, <1>4, <1>3, NestGrows
  <1> QED
    BY <1>5, <1>6 DEF ItemEnd, deeper

LEMMA NoDeeper ==
  ASSUME buf \in Seq(Byte), NEW q \in 1 .. Limit
  PROVE  ItemEnd(q, Unlimited + 1) = ItemEnd(q, Unlimited)
  <1> DEFINE U == Unlimited
             deeper == U + 1
  <1>1. U \in Nat /\ U >= Limit - q /\ deeper \in Nat /\ deeper >= Limit - q
    BY Limits
  <1> HIDE DEF deeper, U
  <1>2. "item" \in Pieces /\ 0 \in Nat
    BY DEF Pieces
  <1>3. EndOf[Goal("item", q, 0, deeper)] = EndOf[Goal("item", q, 0, U)]
    BY <1>1, <1>2, NestGrows
  <1> QED
    BY <1>3 DEF ItemEnd, deeper, U

LEMMA AnswersAs ==
  ASSUME NEW r, NEW o, NEW c,
         IF o.err = "malformed" THEN r.err # "ok"
         ELSE r.err = o.err /\ Visible(r.it) = Visible(o.it),
         Owes(o, ContainerEnd(c, FALSE, MAX_RECURSIONS), MAX_RECURSIONS),
         o.err = "ok" => Owes(o, ContainerEnd(c, FALSE, Unlimited), Unlimited),
         o.err = "ok" /\ Rooted(c) => Rooted(o.it)
  PROVE  Continues(r, c, FALSE)
  <1>1. CASE r.err = "ok"
    <2>1. o.err = "ok" /\ Visible(r.it) = Visible(o.it)
      BY <1>1
    <2>2. /\ ContainerEnd(o.it, FALSE, MAX_RECURSIONS) = ContainerEnd(c, FALSE, MAX_RECURSIONS)
          /\ ContainerEnd(o.it, FALSE, Unlimited) = ContainerEnd(c, FALSE, Unlimited)
      BY <2>1 DEF Owes
    <2>3. /\ ContainerEnd(r.it, FALSE, MAX_RECURSIONS) = ContainerEnd(o.it, FALSE, MAX_RECURSIONS)
          /\ ContainerEnd(r.it, FALSE, Unlimited) = ContainerEnd(o.it, FALSE, Unlimited)
          /\ Rooted(r.it) <=> Rooted(o.it)
      BY <2>1, VisibleEnds
    <2> QED
      BY <1>1, <2>1, <2>2, <2>3 DEF Continues, Follows
  <1>2. CASE r.err # "ok"
    <2>1. o.err # "ok"
      BY <1>2
    <2> QED
      BY <1>2, <2>1 DEF Owes, Continues
  <1> QED
    BY <1>1, <1>2

(* What advance_internal makes of an item that is its head. *)
LEMMA FixedContinues ==
  ASSUME buf \in Seq(Byte), NEW c \in Cursors, HeadRead(c), ~IsString(c), ~IsContainer(c)
  PROVE  LET r == AdvanceInternal(c)
         IN  /\ \A nest \in Nat : Owes(r, ContainerEnd(c, FALSE, nest), nest)
             /\ Rooted(c) => Rooted(r.it)
             /\ Continues(r, c, FALSE)
             /\ c.type = "tag" => r = Owed(c)
  <1> DEFINE r == AdvanceInternal(c)
             past == PastHead(c)
  <1>1. \A nest \in Nat : Owes(r, ContainerEnd(c, FALSE, nest), nest)
    BY FixedOwes
  <1>2. ~c.unknown /\ c.remaining # 0
    BY FixedEnd, Limits DEF HeadRead
  <1>3. past \in Cursors /\ Within(past) /\ past.remaining = c.remaining /\ past.type = c.type
    BY <1>2, HeadReadIs
  <1>4. r = PreparseNext(past)
    BY DEF AdvanceInternal
  <1>5. c.type = "tag" => r = Owed(c)
    BY <1>3, <1>4 DEF PreparseNext, CountsAsItem, Owed
  <1>6. Rooted(c) => Rooted(r.it)
    <2> HIDE DEF past
    <2> QED
      BY <1>2, <1>3, <1>4, NextRooted DEF Rooted
  <1>7. Continues(r, c, FALSE)
    <2> HIDE DEF r
    <2> QED
      BY <1>1, <1>6, Limits, OwesContinues
  <1> QED
    BY <1>1, <1>5, <1>6, <1>7

LEMMA AnswersContinue ==
  ASSUME buf \in Seq(Byte), NEW c \in Ready, c.remaining # 0, NEW r, Answers(r, c)
  PROVE  Continues(r, c, FALSE)
  <1> DEFINE o == Owed(c)
             M == MAX_RECURSIONS
             at == ItemEnd(c.ptr, M)
             moved == [c EXCEPT !.ptr = at]
  <1>1. c \in Cursors /\ HeadRead(c) /\ c.ptr \in 1 .. Limit
    BY ReadyRead, HeadReadIs
  <1>2. M \in Nat /\ Unlimited \in Nat
    BY Limits
  <1>3. IF o.err = "malformed" THEN r.err # "ok"
        ELSE r.err = o.err /\ Visible(r.it) = Visible(o.it)
    BY DEF Answers
  <1>4. ContainerEnd(c, FALSE, M) = AfterThis(at, c, M)
        /\ ContainerEnd(c, FALSE, Unlimited) = AfterThis(ItemEnd(c.ptr, Unlimited), c, Unlimited)
    BY DEF ContainerEnd, ThisEnd
  <1>5. CASE c.type = "tag"
    <2>1. ~IsString(c) /\ ~IsContainer(c)
      BY <1>5 DEF IsString, IsContainer, StringMajors, ContainerMajors
    <2>2. /\ \A nest \in Nat : Owes(o, ContainerEnd(c, FALSE, nest), nest)
          /\ Rooted(c) => Rooted(o.it)
      BY <1>1, <1>5, <2>1, FixedContinues
    <2>3. Owes(o, ContainerEnd(c, FALSE, M), M) /\ Owes(o, ContainerEnd(c, FALSE, Unlimited), Unlimited)
      BY <1>2, <2>2
    <2> HIDE DEF o
    <2> QED
      BY <1>3, <2>2, <2>3, AnswersAs
  <1>6. CASE c.type # "tag" /\ at = Malformed
    <2>1. o.err = "malformed"
      BY <1>6 DEF Owed, Result
    <2>2. ContainerEnd(c, FALSE, M) = Malformed
      BY <1>4, <1>6, AfterNothing
    <2> QED
      BY <1>3, <2>1, <2>2 DEF Continues
  <1>7. CASE c.type # "tag" /\ at # Malformed
    <2>1. at \in 1 .. Limit
      BY <1>1, <1>2, <1>7, ItemEndIs
    <2>2. o = PreparseNext(moved)
      BY <1>7 DEF Owed
    <2>3. ItemEnd(c.ptr, Unlimited) = at
      BY <1>1, <1>2, <1>7, ItemGrows
    <2> HIDE DEF at
    <2>4. \A nest \in Nat : Owes(o, AfterThis(at, c, nest), nest)
      BY <1>1, <1>7, <2>1, <2>2, MovedOwes
    <2>5. Owes(o, ContainerEnd(c, FALSE, M), M) /\ Owes(o, ContainerEnd(c, FALSE, Unlimited), Unlimited)
      BY <1>2, <1>4, <2>3, <2>4
    <2>6. moved \in Cursors /\ Within(moved) /\ moved.remaining = c.remaining
      BY <1>1, <2>1, BufferType DEF Cursors, Within
    <2> HIDE DEF moved
    <2>7. Rooted(c) => Rooted(o.it)
      BY <2>2, <2>6, NextRooted DEF Rooted
    <2> HIDE DEF o
    <2> QED
      BY <1>3, <2>5, <2>7, AnswersAs
  <1> QED
    BY <1>5, <1>6, <1>7

-----------------------------------------------------------------------------
(* The same for the calls of the client that are not advance.              *)
LEMMA SeenFollows ==
  ASSUME buf \in Seq(Byte), NEW d, NEW c, SameSight(d, c), c.remaining # 0, NEW iterating,
         \A nest \in Nat : ThisEnd(d, TRUE, nest) = ThisEnd(c, iterating, nest)
  PROVE  Follows(d, TRUE, c, iterating)
  <1>1. ASSUME NEW nest \in Nat PROVE ContainerEnd(d, TRUE, nest) = ContainerEnd(c, iterating, nest)
    <2>1. ThisEnd(d, TRUE, nest) = ThisEnd(c, iterating, nest)
      OBVIOUS
    <2>2. d.remaining = c.remaining /\ d.map = c.map /\ d.key = c.key
      BY DEF SameSight
    <2>3. \A e : AfterThis(e, d, nest) = AfterThis(e, c, nest)
      BY <2>2, SameContainer
    <2> QED
      BY <2>1, <2>2, <2>3 DEF ContainerEnd
  <1>2. Rooted(c) => Rooted(d)
    BY DEF SameSight, Rooted
  <1> QED
    BY <1>1, <1>2, Limits DEF Follows

LEMMA BeginFollows ==
  ASSUME buf \in Seq(Byte), NEW c \in Ready, IsString(c)
  PROVE  LET begun == BeginStringIteration(c)
         IN  /\ Iterated(begun) /\ SameSight(begun, c)
             /\ \A nest \in Nat : ThisEnd(begun, TRUE, nest) = ItemEnd(c.ptr, nest)
             /\ Follows(begun, TRUE, c, FALSE)
  <1> DEFINE begun == BeginStringIteration(c)
  <1>1. c.remaining # 0
    BY StoodType DEF Ready, IsString, StringMajors
  <1>2. c \in Cursors /\ HeadRead(c)
    BY <1>1, ReadyRead
  <1>3. /\ Iterated(begun) /\ SameSight(begun, c)
        /\ \A nest \in Nat : ThisEnd(begun, TRUE, nest) = ItemEnd(c.ptr, nest)
    BY <1>2, BeginEnds
  <1>4. \A nest \in Nat : ThisEnd(begun, TRUE, nest) = ThisEnd(c, FALSE, nest)
    BY <1>3 DEF ThisEnd
  <1> HIDE DEF begun
  <1>5. Follows(begun, TRUE, c, FALSE)
    BY <1>1, <1>3, <1>4, SeenFollows
  <1> QED
    BY <1>3, <1>5 DEF begun

LEMMA BrokenChunks ==
  ASSUME NEW c, Iterated(c), NEW nest, ThisEnd(c, TRUE, nest) = Malformed
  PROVE  ContainerEnd(c, TRUE, nest) = Malformed
  BY AfterNothing DEF Iterated, ContainerEnd

LEMMA ChunkFollows ==
  ASSUME buf \in Seq(Byte), NEW c, Iterated(c)
  PROVE  LET chunk == GetChunk(c)
         IN  /\ chunk.err = "ok" => Iterated(chunk.it) /\ Follows(chunk.it, TRUE, c, TRUE)
             /\ chunk.err = "no_more_chunks" => ChunksOver(c)
             /\ chunk.err \notin {"ok", "no_more_chunks"} =>
                  ContainerEnd(c, TRUE, MAX_RECURSIONS) = Malformed
  <1> DEFINE chunk == GetChunk(c)
  <1>1. /\ chunk.err = "ok" =>
             /\ Iterated(chunk.it) /\ SameSight(chunk.it, c)
             /\ \A nest \in Nat : ThisEnd(chunk.it, TRUE, nest) = ThisEnd(c, TRUE, nest)
        /\ chunk.err = "no_more_chunks" => ChunksOver(c)
        /\ chunk.err \notin {"ok", "no_more_chunks"} =>
             \A nest \in Nat : ThisEnd(c, TRUE, nest) = Malformed
    BY ChunkEnds
  <1>2. c.remaining # 0
    BY DEF Iterated
  <1> HIDE DEF chunk
  <1>3. chunk.err = "ok" => Follows(chunk.it, TRUE, c, TRUE)
    BY <1>1, <1>2, SeenFollows
  <1>4. chunk.err \notin {"ok", "no_more_chunks"} => ContainerEnd(c, TRUE, MAX_RECURSIONS) = Malformed
    BY <1>1, BrokenChunks, Limits
  <1> QED
    BY <1>1, <1>3, <1>4 DEF chunk

LEMMA FinishContinues ==
  ASSUME buf \in Seq(Byte), NEW c, Iterated(c), ChunksOver(c)
  PROVE  Continues(FinishStringIteration(c), c, TRUE)
  <1> DEFINE r == FinishStringIteration(c)
  <1>1. Owes(r, ContainerEnd(c, TRUE, MAX_RECURSIONS), MAX_RECURSIONS)
        /\ Owes(r, ContainerEnd(c, TRUE, Unlimited), Unlimited)
    BY FinishOwes, Limits
  <1>2. Rooted(c) => Rooted(r.it)
    <2>1. PICK x \in Cursors : /\ r = PreparseNext(x) /\ SameSight(x, c) /\ x.ptr \in 1 .. Limit
      BY FinishIs
    <2>2. x.remaining = c.remaining /\ c.remaining # 0 /\ Within(x)
      BY <2>1 DEF SameSight, Iterated, Within
    <2> QED
      BY <2>1, <2>2, NextRooted DEF Rooted
  <1> HIDE DEF r
  <1>3. Continues(r, c, TRUE)
    BY <1>1, <1>2, OwesContinues
  <1> QED
    BY <1>3 DEF r

LEMMA LeaveContinues ==
  ASSUME buf \in Seq(Byte), NEW outer \in Cursors, Within(outer), outer.remaining # 0, outer.type # "tag",
         NEW at \in 1 .. Limit, at = ItemEnd(outer.ptr, Unlimited)
  PROVE  Continues(PreparseNext([outer EXCEPT !.ptr = at]), outer, FALSE)
  <1> DEFINE moved == [outer EXCEPT !.ptr = at]
             r == PreparseNext(moved)
             M == MAX_RECURSIONS
  <1>1. M \in Nat /\ Unlimited \in Nat
    BY Limits
  <1>2. \A nest \in Nat : Owes(r, AfterThis(at, outer, nest), nest)
    BY MovedOwes
  <1>3. \A nest : ContainerEnd(outer, FALSE, nest) = AfterThis(ItemEnd(outer.ptr, nest), outer, nest)
    BY DEF ContainerEnd, ThisEnd
  <1>4. Owes(r, ContainerEnd(outer, FALSE, Unlimited), Unlimited)
    BY <1>1, <1>2, <1>3
  <1>5. moved \in Cursors /\ Within(moved) /\ moved.remaining = outer.remaining
    BY BufferType DEF Cursors, Within
  <1>6. Rooted(outer) => Rooted(r.it)
    <2> HIDE DEF moved
    <2> QED
      BY <1>5, NextRooted DEF Rooted
  <1>7. ItemEnd(outer.ptr, M) # Malformed => Owes(r, ContainerEnd(outer, FALSE, M), M)
    <2>1. ItemEnd(outer.ptr, M) # Malformed => ItemEnd(outer.ptr, M) = at
      BY <1>1, ItemGrows DEF Within
    <2> QED
      BY <1>1, <1>2, <1>3, <2>1
  <1>8. ContainerEnd(outer, FALSE, M) # Malformed => ItemEnd(outer.ptr, M) # Malformed
    BY <1>3, AfterNothing
  <1> HIDE DEF r
  <1>9. Continues(r, outer, FALSE)
    BY <1>4, <1>6, <1>7, <1>8, OwesContinues
  <1> QED
    BY <1>9 DEF r

-----------------------------------------------------------------------------
(* The client's cursors: each one's container ends where the item it was   *)
(* entered through does.  `shallow` documents do so within the library's   *)
(* limit.                                                                  *)
EndsAt(c, iterating, q) ==
  /\ ContainerEnd(c, iterating, Unlimited) = ItemEnd(q, Unlimited)
  /\ ItemEnd(1, MAX_RECURSIONS) # Malformed =>
       ContainerEnd(c, iterating, MAX_RECURSIONS) # Malformed
Opening(s, k) == IF k = 1 THEN 1 ELSE s[k - 1].ptr
Waits(c, q) == c.type # "tag" /\ EndsAt(c, FALSE, q)
Nested(s) == \A k \in 1 .. Len(s) - 1 : Waits(s[k], Opening(s, k))
Stacked(s, iterating) ==
  Nested(s) /\ Rooted(s[1]) /\ EndsAt(Last(s), iterating, Opening(s, Len(s)))

LEMMA FollowsEnds ==
  ASSUME NEW d, NEW inside, NEW c, NEW iterating, NEW q,
         EndsAt(c, iterating, q), Follows(d, inside, c, iterating)
  PROVE  EndsAt(d, inside, q)
  BY DEF EndsAt, Follows

(* The last cursor is replaced by one that goes on from it, ...            *)
LEMMA TopChanged ==
  ASSUME NEW n \in Nat \ {0}, NEW s, NEW t, Len(s) = n, Len(t) = n,
         \A i \in 1 .. n - 1 : t[i] = s[i],
         NEW iterating, Stacked(s, iterating), NEW inside, Follows(Last(t), inside, Last(s), iterating)
  PROVE  Stacked(t, inside)
  <1>1. \A k \in 1 .. n : Opening(t, k) = Opening(s, k)
    BY DEF Opening
  <1>2. Nested(t)
    BY <1>1 DEF Stacked, Nested
  <1>3. EndsAt(Last(t), inside, Opening(t, n))
    BY <1>1, FollowsEnds DEF Stacked
  <1>4. Rooted(t[1])
    <2>1. CASE n = 1
      BY <2>1 DEF Stacked, Follows, Last
    <2>2. CASE n # 1
      BY <2>2 DEF Stacked
    <2> QED
      BY <2>1, <2>2
  <1> QED
    BY <1>2, <1>3, <1>4 DEF Stacked

(* ... taken away, ...                                                     *)
LEMMA TopTaken ==
  ASSUME NEW n \in Nat \ {0, 1}, NEW s, NEW t, Len(s) = n, Len(t) = n - 1,
         \A i \in 1 .. n - 1 : t[i] = s[i],
         NEW iterating, Stacked(s, iterating)
  PROVE  Stacked(t, FALSE) /\ Last(t) = s[n - 1] /\ s[n - 1].type # "tag"
  <1>1. \A k \in 1 .. n - 1 : Opening(t, k) = Opening(s, k)
    BY DEF Opening
  <1>2. Nested(t)
    BY <1>1 DEF Stacked, Nested
  <1>3. Last(t) = s[n - 1]
    BY DEF Last
  <1>4. Waits(Last(t), Opening(t, n - 1))
    BY <1>1, <1>3 DEF Stacked, Nested
  <1>5. EndsAt(Last(t), FALSE, Opening(t, n - 1)) /\ s[n - 1].type # "tag"
    BY <1>3, <1>4 DEF Waits
  <1>6. Rooted(t[1])
    BY DEF Stacked
  <1> QED
    BY <1>2, <1>3, <1>5, <1>6 DEF Stacked

(* ... or has another put on top of it.                                    *)
LEMMA TopPushed ==
  ASSUME NEW n \in Nat \ {0}, NEW s, NEW t, Len(s) = n, Len(t) = n + 1,
         \A i \in 1 .. n : t[i] = s[i],
         Stacked(s, FALSE), s[n].type # "tag", EndsAt(Last(t), FALSE, s[n].ptr)
  PROVE  Stacked(t, FALSE)
  <1>1. /\ \A k \in 1 .. n : Opening(t, k) = Opening(s, k)
        /\ Opening(t, n + 1) = s[n].ptr
    BY DEF Opening
  <1>2. Waits(s[n], Opening(s, n))
    BY DEF Stacked, Last, Waits
  <1>3. \A k \in 1 .. n : Waits(s[k], Opening(s, k))
    BY <1>2 DEF Stacked, Nested
  <1>4. Nested(t)
    BY <1>1, <1>3 DEF Nested
  <1>5. Rooted(t[1])
    BY DEF Stacked
  <1> QED
    BY <1>1, <1>4, <1>5 DEF Stacked

(* A container is entered. *)
LEMMA EnterEnds ==
  ASSUME buf \in Seq(Byte), NEW c \in Ready, IsContainer(c)
  PROVE  LET r == EnterContainer(c)
         IN  /\ r.err = "ok" => ContainerEnd(r.it, FALSE, Unlimited) = ItemEnd(c.ptr, Unlimited)
             /\ ItemEnd(c.ptr, MAX_RECURSIONS) # Malformed =>
                  r.err = "ok" /\ ContainerEnd(r.it, FALSE, MAX_RECURSIONS) # Malformed
             /\ \A nest \in Nat : Owes(r, ItemEnd(c.ptr, nest + 1), nest)
  <1> DEFINE r == EnterContainer(c)
             M == MAX_RECURSIONS
             U == Unlimited
  <1>1. c.remaining # 0
    BY StoodType DEF Ready, IsContainer, ContainerMajors
  <1>2. c \in Cursors /\ HeadRead(c) /\ c.ptr \in 1 .. Limit
    BY <1>1, ReadyRead, HeadReadIs
  <1>3. \A nest \in Nat : Owes(r, ItemEnd(c.ptr, nest + 1), nest)
    BY <1>2, EnterOwes
  <1> HIDE DEF r
  <1>4. M \in Nat /\ U \in Nat /\ U >= Limit - c.ptr
    BY <1>2, Limits
  <1>5. ItemEnd(c.ptr, U + 1) = ItemEnd(c.ptr, U)
    BY <1>2, NoDeeper
  <1>6. ItemEnd(c.ptr, M) # Malformed => ItemEnd(c.ptr, M + 1) # Malformed
    BY <1>2, <1>4, ItemGrows
  <1>7. Owes(r, ItemEnd(c.ptr, U), U) /\ Owes(r, ItemEnd(c.ptr, M + 1), M)
    BY <1>3, <1>4, <1>5
  <1> QED
    BY <1>3, <1>6, <1>7 DEF Owes, r

-----------------------------------------------------------------------------
(* The library's part.  The frames of the walk from `first` on: each goes  *)
(* on, with the levels left to it, in the container that was entered       *)
(* through the one before.                                                 *)
FrameEnds(w, k, inside) ==
  ContainerEnd(w[k], inside, MAX_RECURSIONS + 1 - k) = ItemEnd(w[k - 1].ptr, MAX_RECURSIONS + 2 - k)
Frames(w) ==
  /\ \A k \in 1 .. Len(w) - 1 : w[k].type # "tag" /\ w[k].remaining # 0
  /\ \A k \in 2 .. Len(w) - 1 : FrameEnds(w, k, FALSE)
Walked(w, c) ==
  /\ Frames(w) /\ Last(w) \in Ready
  /\ w[1] = c
  /\ Len(w) > 1 => FrameEnds(w, Len(w), FALSE)
Amid(x, c) ==
  SameSight(x, c) /\ \A nest \in Nat : ThisEnd(x, TRUE, nest) = ItemEnd(c.ptr, nest)
Chunked(w, c) ==
  /\ Frames(w) /\ Iterated(Last(w))
  /\ IF Len(w) > 1 THEN w[1] = c /\ FrameEnds(w, Len(w), TRUE) ELSE Amid(w[1], c)

(* The scan, as long as it runs, is in the item under c. *)
ScanOn(c) ==
  /\ Len(stack) < p /\ Grounded
  /\ afterTag => ~Finished(cur) /\ chunks = "none"
  /\ Chain(c.ptr, MAX_RECURSIONS)

StackCourse == Unfailed => Stacked(cursors, phase = "string")
ErrorCourse ==
  ItemEnd(1, MAX_RECURSIONS) # Malformed => Unfailed \/ err = "advance_past_eof"
CallCourse ==
  /\ Busy => err = "ok" /\ Innermost \in Ready
  /\ phase \in {"scan", "walk", "chunks"} => Innermost.remaining # 0
  /\ phase \notin {"walk", "chunks"} => walk = << >>
  /\ phase = "string" =>
       Iterated(Innermost) /\ (err = "no_more_chunks" => ChunksOver(Innermost))
ScanCourse ==
  phase = "scan" =>
    /\ Innermost.type # "tag"
    /\ scan = "running" => ScanOn(Innermost)
    /\ scan = "some" => p = ItemEnd(Innermost.ptr, MAX_RECURSIONS)
WalkCourse ==
  /\ phase = "walk" => Walked(walk, Innermost)
  /\ phase = "chunks" => Chunked(walk, Innermost)

CourseInv == NavInv /\ StackCourse /\ ErrorCourse /\ CallCourse /\ ScanCourse /\ WalkCourse

-----------------------------------------------------------------------------
(* None of it depends on more than the bytes. *)
LEMMA EndsStay ==
  ASSUME buf \in Seq(Byte), buf' = buf
  PROVE  /\ Limit' = Limit /\ Unlimited' = Unlimited
         /\ \A q, nest : ItemEnd(q, nest)' = ItemEnd(q, nest)
         /\ \A q, nest : ChunksEnd(q, nest)' = ChunksEnd(q, nest)
         /\ \A c, iterating, nest : ThisEnd(c, iterating, nest)' = ThisEnd(c, iterating, nest)
         /\ \A c, iterating, nest :
              ContainerEnd(c, iterating, nest)' = ContainerEnd(c, iterating, nest)
  <1>1. EndOf' = EndOf
    BY EndOfStays
  <1>2. Limit' = Limit /\ Unlimited' = Unlimited
    BY DEF Limit, Unlimited
  <1>3. \A q, nest : ItemEnd(q, nest)' = ItemEnd(q, nest)
    BY <1>1 DEF ItemEnd
  <1>4. \A q, nest : ChunksEnd(q, nest)' = ChunksEnd(q, nest)
    BY <1>1 DEF ChunksEnd
  <1>5. \A c, iterating, nest : ThisEnd(c, iterating, nest)' = ThisEnd(c, iterating, nest)
    BY <1>3, <1>4 DEF ThisEnd
  <1>6. \A e, c, nest : AfterThis(e, c, nest)' = AfterThis(e, c, nest)
    BY <1>1 DEF AfterThis, BreakEnd, ItemsEnd
  <1>7. \A c, iterating, nest :
          ContainerEnd(c, iterating, nest)' = ContainerEnd(c, iterating, nest)
    BY <1>5, <1>6 DEF ContainerEnd
  <1> QED
    BY <1>2, <1>3, <1>4, <1>5, <1>7

LEMMA StackStays ==
  ASSUME buf \in Seq(Byte), buf' = buf
  PROVE  \A s, iterating : Stacked(s, iterating)' <=> Stacked(s, iterating)
  <1>1. \A c, iterating, q : EndsAt(c, iterating, q)' <=> EndsAt(c, iterating, q)
    BY EndsStay DEF EndsAt
  <1>2. \A s : Nested(s)' <=> Nested(s)
    BY <1>1 DEF Nested, Waits, Opening
  <1>3. \A c : Rooted(c)' <=> Rooted(c)
    BY DEF Rooted
  <1> QED
    BY <1>1, <1>2, <1>3 DEF Stacked, Opening, Last

LEMMA StringsStay ==
  ASSUME buf \in Seq(Byte), buf' = buf
  PROVE  \A c : (Iterated(c)' <=> Iterated(c)) /\ (ChunksOver(c)' <=> ChunksOver(c))
  <1>1. \A q : PlainHead(q)' <=> PlainHead(q)
    BY DEF PlainHead, HeadLength, Limit
  <1>2. \A c : Iterated(c)' <=> Iterated(c)
    BY <1>1 DEF Iterated, Within, Limit
  <1>3. \A c : ChunksOver(c)' <=> ChunksOver(c)
    BY DEF ChunksOver, BreakAt, Limit
  <1> QED
    BY <1>2, <1>3

LEMMA WalkStays ==
  ASSUME buf \in Seq(Byte), buf' = buf
  PROVE  \A w, c : (Walked(w, c)' <=> Walked(w, c)) /\ (Chunked(w, c)' <=> Chunked(w, c))
  <1>1. \A w, k, inside : FrameEnds(w, k, inside)' <=> FrameEnds(w, k, inside)
    BY EndsStay DEF FrameEnds
  <1>2. \A w : Frames(w)' <=> Frames(w)
    BY <1>1 DEF Frames
  <1>3. \A w, c : Walked(w, c)' <=> Walked(w, c)
    BY <1>1, <1>2, SetsStay DEF Walked, Last
  <1>4. \A x, c : Amid(x, c)' <=> Amid(x, c)
    <2>1. \A c, nest : ThisEnd(c, TRUE, nest)' = ThisEnd(c, TRUE, nest)
      BY EndsStay DEF ThisEnd
    <2>2. \A q, nest : ItemEnd(q, nest)' = ItemEnd(q, nest)
      BY EndsStay
    <2> QED
      BY <2>1, <2>2 DEF Amid, SameSight
  <1>5. \A w, k : FrameEnds(w, k, TRUE)' <=> FrameEnds(w, k, TRUE)
    BY <1>1
  <1>6. \A w, c : Chunked(w, c)' <=> Chunked(w, c)
    BY <1>2, <1>4, <1>5, StringsStay DEF Chunked, Last
  <1> QED
    BY <1>3, <1>6

-----------------------------------------------------------------------------
(* The innermost cursor is replaced: what becomes of the stack.            *)
LEMMA InnermostChanged ==
  ASSUME CourseInv, NavInv', buf' = buf, Unfailed,
         NEW iterating \in BOOLEAN, iterating = (phase = "string"),
         NEW d \in Placed, cursors' = [cursors EXCEPT ![Len(cursors)] = d],
         NEW inside \in BOOLEAN, inside = (phase' = "string"),
         Follows(d, inside, Innermost, iterating)
  PROVE  Stacked(cursors, phase = "string")' /\ Innermost' = d
  <1>1. NavInv /\ buf \in Seq(Byte)
    BY DEF CourseInv, NavInv, CursorsInv
  <1> PICK t : t = cursors'
    OBVIOUS
  <1> PICK n : n = Len(cursors)
    OBVIOUS
  <1>2. /\ n \in Nat \ {0} /\ Len(t) = n /\ Last(t) = d
        /\ \A i \in 1 .. n - 1 : t[i] = cursors[i]
    BY <1>1, InnermostIs, LastReplaced DEF NavInv, CursorsInv, Last
  <1>3. Stacked(cursors, iterating) /\ Innermost = Last(cursors)
    BY DEF CourseInv, StackCourse, Innermost
  <1>4. Stacked(t, inside)
    <2>1. Follows(Last(t), inside, Last(cursors), iterating)
      BY <1>2, <1>3
    <2> QED
      BY <1>2, <1>3, <2>1, TopChanged
  <1>5. Stacked(t, inside)'
    BY <1>1, <1>4, StackStays
  <1> QED
    BY <1>2, <1>5 DEF Innermost, Last

(* Documents that the library can get to the end of. *)
LEMMA ShallowGoesOn ==
  ASSUME CourseInv, Unfailed, NEW iterating \in BOOLEAN, iterating = (phase = "string"),
         ItemEnd(1, MAX_RECURSIONS) # Malformed
  PROVE  ContainerEnd(Innermost, iterating, MAX_RECURSIONS) # Malformed
  <1>1. Stacked(cursors, iterating) /\ Innermost = Last(cursors)
    BY DEF CourseInv, StackCourse, Innermost
  <1> QED
    BY <1>1 DEF Stacked, EndsAt

(* A call ends, or goes on over tags, on a cursor that goes on from the    *)
(* one it was made on.                                                     *)
LEMMA CursorGoesOn ==
  ASSUME CourseInv, NavInv', buf' = buf, Unfailed,
         NEW iterating \in BOOLEAN, iterating = (phase = "string"),
         NEW r, Outcome(r), Continues(r, Innermost, iterating),
         cursors' = [cursors EXCEPT ![Len(cursors)] = r.it], err' = r.err, walk' = << >>,
         phase' = "client" \/ (phase' = "tags" /\ r.err = "ok")
  PROVE  CourseInv'
  <1>1. r.it \in Placed /\ buf \in Seq(Byte)
    BY DEF Outcome, CourseInv, NavInv, CursorsInv
  <1>2. r.err = "ok" => Stacked(cursors, phase = "string")' /\ Innermost' = r.it
    <2>1. FALSE = (phase' = "string")
      OBVIOUS
    <2>2. r.err = "ok" => Follows(r.it, FALSE, Innermost, iterating)
      BY DEF Continues
    <2> QED
      BY <1>1, <2>1, <2>2, InnermostChanged
  <1>3. StackCourse'
    <2>1. Unfailed' => r.err = "ok"
      BY DEF Unfailed, InString
    <2> QED
      BY <1>2, <2>1 DEF StackCourse
  <1>4. ErrorCourse'
    <2>1. ItemEnd(1, MAX_RECURSIONS) # Malformed => r.err = "ok"
      BY ShallowGoesOn DEF Continues
    <2>2. ItemEnd(1, MAX_RECURSIONS)' = ItemEnd(1, MAX_RECURSIONS)
      BY <1>1, EndsStay
    <2> QED
      BY <2>1, <2>2 DEF ErrorCourse, Unfailed
  <1>5. CallCourse'
    <2>1. phase' = "tags" => err' = "ok" /\ Innermost' \in Ready'
      BY <1>2, SetsStay DEF Outcome
    <2> QED
      BY <2>1 DEF CallCourse, Busy
  <1>6. ScanCourse' /\ WalkCourse'
    BY DEF ScanCourse, WalkCourse
  <1> QED
    BY <1>3, <1>4, <1>5, <1>6 DEF CourseInv

LEMMA CallEnds ==
  ASSUME CourseInv, ScanInv', buf' = buf, reader' = reader, Unfailed,
         NEW iterating \in BOOLEAN, iterating = (phase = "string"),
         NEW r, Outcome(r), Continues(r, Innermost, iterating), ReturnToClient(r)
  PROVE  CourseInv'
  <1>1. NavInv'
    BY Returns DEF CourseInv
  <1> QED
    BY <1>1, CursorGoesOn DEF ReturnToClient

-----------------------------------------------------------------------------
(* The client's own calls. *)
LEMMA CoursePastEnd ==
  ASSUME CourseInv, NavInv', UNCHANGED << buf, reader >>, AdvancePastEnd
  PROVE  CourseInv'
  <1>1. /\ err' = "advance_past_eof" /\ phase' = "client" /\ walk' = << >>
    BY DEF AdvancePastEnd, ReturnToClient, Result
  <1>2. StackCourse' /\ ErrorCourse' /\ CallCourse' /\ ScanCourse' /\ WalkCourse'
    BY <1>1 DEF StackCourse, ErrorCourse, CallCourse, ScanCourse, WalkCourse, Unfailed, InString, Busy
  <1> QED
    BY <1>2 DEF CourseInv

LEMMA IdleIs ==
  ASSUME CourseInv, Idle
  PROVE  /\ Unfailed /\ buf \in Seq(Byte) /\ Innermost \in Ready /\ NavInv
         /\ FALSE = (phase = "string") /\ Stacked(cursors, FALSE) /\ walk = << >>
  <1>1. Unfailed /\ NavInv /\ buf \in Seq(Byte) /\ phase = "client"
    BY DEF CourseInv, NavInv, CursorsInv, Idle, Unfailed
  <1>2. Innermost \in Ready
    BY <1>1, InnermostIs
  <1>3. FALSE = (phase = "string")
    BY <1>1
  <1>4. Stacked(cursors, FALSE)
    BY <1>1, <1>3 DEF CourseInv, StackCourse
  <1>5. walk = << >>
    BY <1>1 DEF CourseInv, CallCourse
  <1> QED
    BY <1>1, <1>2, <1>3, <1>4, <1>5

LEMMA CourseFixed ==
  ASSUME CourseInv, AdvanceFixed PROVE CourseInv'
  <1>1. /\ Idle /\ ~IsString(Innermost) /\ ~IsContainer(Innermost)
        /\ Innermost.remaining # 0 /\ ReturnToClient(AdvanceInternal(Innermost))
        /\ buf' = buf /\ reader' = reader /\ UNCHANGED scanVars
    BY DEF AdvanceFixed, Quiet
  <1>2. /\ Unfailed /\ buf \in Seq(Byte) /\ Innermost \in Ready /\ NavInv
        /\ FALSE = (phase = "string")
    BY <1>1, IdleIs
  <1>3. Innermost \in Cursors /\ HeadRead(Innermost) /\ Innermost \in Stood
    BY <1>1, <1>2, ReadyRead DEF Ready
  <1>4. Outcome(AdvanceInternal(Innermost)) /\ Continues(AdvanceInternal(Innermost), Innermost, FALSE)
    BY <1>1, <1>2, <1>3, AdvanceOutcome, FixedContinues
  <1>5. ScanInv'
    BY <1>1, <1>2, ScanRests DEF NavInv
  <1> QED
    BY <1>1, <1>2, <1>4, <1>5, CallEnds

LEMMA CourseCallSkipTag ==
  ASSUME CourseInv, CallSkipTag PROVE CourseInv'
  <1>1. /\ Idle /\ phase = "client" /\ err = "ok" /\ phase' = "tags" /\ cursors' = cursors /\ err' = err
        /\ walk' = walk /\ buf' = buf
    BY DEF CallSkipTag, Quiet, callVars, Idle
  <1>2. /\ buf \in Seq(Byte) /\ Innermost \in Ready /\ Stacked(cursors, FALSE) /\ walk = << >>
    BY <1>1, IdleIs
  <1>3. NavInv'
    BY CallSkipTagStep DEF CourseInv
  <1> PICK t : t = cursors
    OBVIOUS
  <1>4. Stacked(t, FALSE)'
    <2>1. Stacked(t, FALSE)
      BY <1>2
    <2> QED
      BY <1>1, <1>2, <2>1, StackStays
  <1>5. StackCourse'
    BY <1>1, <1>4 DEF StackCourse
  <1>6. ErrorCourse'
    BY <1>1 DEF ErrorCourse, Unfailed
  <1>7. CallCourse'
    BY <1>1, <1>2, SetsStay DEF CallCourse, Innermost, Last
  <1>8. ScanCourse' /\ WalkCourse'
    BY <1>1 DEF ScanCourse, WalkCourse
  <1> QED
    BY <1>3, <1>5, <1>6, <1>7, <1>8 DEF CourseInv

LEMMA CourseSkipTagTurn ==
  ASSUME CourseInv, SkipTagTurn PROVE CourseInv'
  <1> DEFINE r == AdvanceInternal(Innermost)
  <1>1. phase = "tags" /\ buf' = buf /\ reader' = reader
    BY DEF SkipTagTurn, Quiet
  <1>2. /\ buf \in Seq(Byte) /\ Innermost \in Ready /\ Innermost \in Stood
        /\ Innermost.type = "tag" /\ err = "ok" /\ walk = << >>
    BY <1>1 DEF CourseInv, NavInv, CursorsInv, ClientInv, CallCourse, Busy
  <1>3. Innermost.remaining # 0 /\ ~IsString(Innermost) /\ ~IsContainer(Innermost)
    BY <1>2, StoodType DEF IsString, IsContainer, StringMajors, ContainerMajors
  <1>4. Innermost \in Cursors /\ HeadRead(Innermost)
    BY <1>2, <1>3, ReadyRead
  <1>5. Outcome(r) /\ Continues(r, Innermost, FALSE)
    BY <1>2, <1>3, <1>4, AdvanceOutcome, FixedContinues
  <1>6. /\ cursors' = [cursors EXCEPT ![Len(cursors)] = r.it] /\ err' = r.err /\ walk' = walk
        /\ phase' = IF r.err = "ok" /\ r.it.type = "tag" THEN "tags" ELSE "client"
    BY <1>3 DEF SkipTagTurn
  <1> HIDE DEF r
  <1>7. NavInv'
    BY SkipTagTurnStep DEF CourseInv
  <1>8. Unfailed /\ FALSE = (phase = "string")
    BY <1>1, <1>2 DEF Unfailed
  <1> QED
    BY <1>1, <1>2, <1>5, <1>6, <1>7, <1>8, CursorGoesOn

(* A client that steps in or out has its stack replaced, and no call fails *)
(* on a document that is not too deep.                                     *)
LEMMA Restacked ==
  ASSUME NavInv', buf \in Seq(Byte), buf' = buf, phase' = "client", walk' = << >>,
         err' = "ok" => \E t : t = cursors' /\ Stacked(t, FALSE),
         ItemEnd(1, MAX_RECURSIONS) # Malformed => err' = "ok"
  PROVE  CourseInv'
  <1>1. StackCourse'
    <2>1. Unfailed' => err' = "ok"
      BY DEF Unfailed, InString
    <2>2. err' = "ok" => Stacked(cursors, FALSE)'
      BY StackStays
    <2> QED
      BY <2>1, <2>2 DEF StackCourse
  <1>2. ErrorCourse'
    BY EndsStay DEF ErrorCourse, Unfailed
  <1>3. CallCourse' /\ ScanCourse' /\ WalkCourse'
    BY DEF CallCourse, ScanCourse, WalkCourse, Busy
  <1> QED
    BY <1>1, <1>2, <1>3 DEF CourseInv

LEMMA CourseEnter ==
  ASSUME CourseInv, ClientEnter PROVE CourseInv'
  <1> DEFINE r == EnterContainer(Innermost)
             c == Innermost
  <1>1. /\ Idle /\ IsContainer(c) /\ cursors' = Append(cursors, r.it) /\ err' = r.err
        /\ phase' = "client" /\ walk' = walk /\ buf' = buf
    BY DEF ClientEnter, Quiet, walkVars, Idle
  <1>2. /\ Unfailed /\ buf \in Seq(Byte) /\ c \in Ready /\ c \in Stood /\ NavInv
        /\ Stacked(cursors, FALSE) /\ walk = << >> /\ FALSE = (phase = "string")
    BY <1>1, IdleIs DEF Ready
  <1>3. NavInv'
    BY EnterStep DEF CourseInv
  <1>4. /\ r.err = "ok" => ContainerEnd(r.it, FALSE, Unlimited) = ItemEnd(c.ptr, Unlimited)
        /\ ItemEnd(c.ptr, MAX_RECURSIONS) # Malformed =>
             r.err = "ok" /\ ContainerEnd(r.it, FALSE, MAX_RECURSIONS) # Malformed
    BY <1>1, <1>2, EnterEnds
  <1>5. Outcome(r)
    BY <1>1, <1>2, EnterOutcome
  <1> HIDE DEF r
  <1>6. ItemEnd(1, MAX_RECURSIONS) # Malformed => ItemEnd(c.ptr, MAX_RECURSIONS) # Malformed
    <2>1. ItemEnd(1, MAX_RECURSIONS) # Malformed => ContainerEnd(c, FALSE, MAX_RECURSIONS) # Malformed
      BY <1>2, ShallowGoesOn
    <2>2. c.remaining # 0
      BY <1>1, <1>2, StoodType DEF IsContainer, ContainerMajors
    <2>3. ContainerEnd(c, FALSE, MAX_RECURSIONS) =
            AfterThis(ItemEnd(c.ptr, MAX_RECURSIONS), c, MAX_RECURSIONS)
      BY <2>2 DEF ContainerEnd, ThisEnd
    <2> QED
      BY <2>1, <2>3, AfterNothing
  <1>7. r.err = "ok" => EndsAt(r.it, FALSE, c.ptr)
    BY <1>4, <1>6 DEF EndsAt
  <1> PICK t : t = cursors'
    OBVIOUS
  <1> PICK n : n = Len(cursors)
    OBVIOUS
  <1>8. /\ n \in Nat \ {0} /\ Len(t) = n + 1 /\ Last(t) = r.it
        /\ \A i \in 1 .. n : t[i] = cursors[i]
        /\ c = cursors[n]
    BY <1>1, <1>2, <1>5, InnermostIs, LastAppended DEF NavInv, CursorsInv, Last, Outcome
  <1>9. c.type # "tag"
    BY <1>1 DEF IsContainer, ContainerMajors
  <1> HIDE DEF c
  <1>10. r.err = "ok" => Stacked(t, FALSE)
    BY <1>2, <1>7, <1>8, <1>9, TopPushed
  <1> QED
    BY <1>1, <1>2, <1>3, <1>4, <1>6, <1>10, Restacked

LEMMA CourseLeave ==
  ASSUME CourseInv, ClientLeave PROVE CourseInv'
  <1> DEFINE outer == cursors[Len(cursors) - 1]
             around == Front(Front(cursors))
             at == ResumeAt(Innermost)
             r == LeaveContainer(outer, Innermost)
  <1>1. /\ Idle /\ Len(cursors) > 1 /\ Innermost.remaining = 0
        /\ cursors' = Append(around, r.it) /\ err' = r.err
        /\ phase' = "client" /\ walk' = walk /\ buf' = buf
    BY DEF ClientLeave, Quiet, walkVars, Idle
  <1>2. /\ Unfailed /\ buf \in Seq(Byte) /\ Innermost \in Stood /\ NavInv
        /\ Stacked(cursors, FALSE) /\ walk = << >> /\ FALSE = (phase = "string")
    BY <1>1, IdleIs DEF Ready
  <1>3. NavInv'
    BY LeaveStep DEF CourseInv
  <1> PICK n : n = Len(cursors)
    OBVIOUS
  <1>4. n \in Nat \ {0, 1} /\ Len(cursors) = n /\ n - 1 \in 1 .. n - 1
    BY <1>1, <1>2, InnermostIs
  <1>5. /\ Front(cursors) \in Seq(Placed) /\ Len(Front(cursors)) = n - 1
        /\ \A i \in 1 .. n - 1 : Front(cursors)[i] = cursors[i]
    BY <1>2, <1>4, FrontIs DEF NavInv, CursorsInv
  <1> PICK f : f = Front(cursors)
    OBVIOUS
  <1>6. /\ f \in Seq(Placed) /\ Len(f) = n - 1 /\ f # << >>
        /\ \A i \in 1 .. n - 1 : f[i] = cursors[i]
    BY <1>4, <1>5
  <1>7. Stacked(f, FALSE) /\ Last(f) = outer /\ outer.type # "tag"
    BY ZenonT(30), <1>2, <1>4, <1>6, TopTaken
  <1>8. outer \in Placed /\ outer.remaining # 0 /\ outer \in Cursors /\ Within(outer)
    BY <1>2, <1>4, ElementOfSeq DEF NavInv, CursorsInv, Placed
  <1>9. at = ItemEnd(outer.ptr, Unlimited) /\ at \in 1 .. Limit
    <2>1. ContainerEnd(Innermost, FALSE, Unlimited) = at
      BY <1>1 DEF ContainerEnd
    <2>2. Innermost = Last(cursors) /\ Opening(cursors, n) = outer.ptr
      BY <1>4 DEF Innermost, Opening
    <2>3. EndsAt(Innermost, FALSE, outer.ptr)
      BY <1>2, <1>4, <2>2 DEF Stacked
    <2>4. at \in 1 .. Limit
      BY <1>1, <1>2, StoodIs, ResumeProperties
    <2> QED
      BY <2>1, <2>3, <2>4 DEF EndsAt
  <1>10. r = PreparseNext([outer EXCEPT !.ptr = at])
    BY DEF LeaveContainer
  <1>11. Outcome(r)
    BY <1>1, <1>2, <1>8, LeaveOutcome
  <1> HIDE DEF at, outer
  <1>12. Continues(r, outer, FALSE)
    BY <1>2, <1>7, <1>8, <1>9, <1>10, LeaveContinues
  <1> HIDE DEF r
  <1>13. /\ Front(f) \in Seq(Placed) /\ Len(Front(f)) = n - 2
         /\ \A i \in 1 .. n - 2 : Front(f)[i] = f[i]
    BY <1>4, <1>6, FrontIs
  <1> PICK t : t = cursors'
    OBVIOUS
  <1> PICK g : g = Front(f)
    OBVIOUS
  <1>14. t = Append(g, r.it) /\ g \in Seq(Placed) /\ r.it \in Placed /\ Len(g) = n - 2
    BY <1>1, <1>11, <1>13 DEF Outcome
  <1>15. /\ Len(t) = n - 1 /\ Last(t) = r.it /\ \A i \in 1 .. n - 2 : t[i] = f[i]
    <2>1. /\ Len(t) = Len(g) + 1 /\ t[Len(t)] = r.it
          /\ \A i \in 1 .. Len(g) : t[i] = g[i]
      BY <1>14, LastAppended
    <2> QED
      BY <1>4, <1>13, <1>14, <2>1 DEF Last
  <1> PICK m : m = n - 1
    OBVIOUS
  <1>16. r.err = "ok" => Stacked(t, FALSE)
    <2>1. m \in Nat \ {0} /\ Len(f) = m /\ Len(t) = m /\ \A i \in 1 .. m - 1 : t[i] = f[i]
      BY <1>4, <1>6, <1>15
    <2>2. r.err = "ok" => Follows(Last(t), FALSE, Last(f), FALSE)
      BY <1>7, <1>12, <1>15 DEF Continues
    <2> QED
      BY <1>7, <2>1, <2>2, TopChanged
  <1>17. ItemEnd(1, MAX_RECURSIONS) # Malformed => r.err = "ok"
    <2>1. EndsAt(outer, FALSE, Opening(f, n - 1))
      BY <1>6, <1>7 DEF Stacked
    <2> QED
      BY <1>12, <2>1 DEF EndsAt, Continues
  <1> QED
    BY <1>1, <1>2, <1>3, <1>16, <1>17, Restacked

-----------------------------------------------------------------------------
(* The client iterates over a string. *)
LEMMA CourseBegin ==
  ASSUME CourseInv, BeginString PROVE CourseInv'
  <1> DEFINE d == BeginStringIteration(Innermost)
  <1>1. /\ Idle /\ IsString(Innermost) /\ phase' = "string" /\ err' = err /\ walk' = walk /\ buf' = buf
        /\ cursors' = [cursors EXCEPT ![Len(cursors)] = d] /\ err = "ok"
    BY DEF BeginString, Quiet, Idle
  <1>2. /\ Unfailed /\ buf \in Seq(Byte) /\ Innermost \in Ready
        /\ walk = << >> /\ FALSE = (phase = "string")
    BY <1>1, IdleIs
  <1>3. NavInv'
    BY BeginStringStep DEF CourseInv
  <1>4. Iterated(d) /\ Follows(d, TRUE, Innermost, FALSE)
    BY <1>1, <1>2, BeginFollows
  <1>5. d \in Placed
    BY <1>4 DEF Iterated, Placed
  <1> HIDE DEF d
  <1>6. Stacked(cursors, phase = "string")' /\ Innermost' = d
    <2>1. TRUE = (phase' = "string")
      BY <1>1
    <2> QED
      BY <1>1, <1>2, <1>3, <1>4, <1>5, <2>1, InnermostChanged
  <1>7. StackCourse'
    BY <1>6 DEF StackCourse
  <1>8. ErrorCourse'
    BY <1>1 DEF ErrorCourse, Unfailed
  <1>9. Iterated(Innermost)'
    BY <1>1, <1>2, <1>4, <1>6, StringsStay
  <1>10. CallCourse' /\ ScanCourse' /\ WalkCourse'
    BY <1>1, <1>2, <1>9 DEF CallCourse, ScanCourse, WalkCourse, Busy
  <1> QED
    BY <1>3, <1>7, <1>8, <1>10 DEF CourseInv

LEMMA InStringIs ==
  ASSUME CourseInv, InString
  PROVE  /\ Unfailed /\ buf \in Seq(Byte) /\ Iterated(Innermost) /\ NavInv
         /\ TRUE = (phase = "string") /\ Stacked(cursors, TRUE) /\ walk = << >>
         /\ err = "no_more_chunks" => ChunksOver(Innermost)
  <1>1. Unfailed /\ NavInv /\ buf \in Seq(Byte) /\ phase = "string"
    BY DEF CourseInv, NavInv, CursorsInv, InString, Unfailed
  <1>2. Iterated(Innermost) /\ (err = "no_more_chunks" => ChunksOver(Innermost)) /\ walk = << >>
    BY <1>1 DEF CourseInv, CallCourse
  <1>3. TRUE = (phase = "string")
    BY <1>1
  <1>4. Stacked(cursors, TRUE)
    BY <1>1, <1>3 DEF CourseInv, StackCourse
  <1> QED
    BY <1>1, <1>2, <1>3, <1>4

LEMMA CourseChunk ==
  ASSUME CourseInv, GetStringChunk PROVE CourseInv'
  <1> DEFINE chunk == GetChunk(Innermost)
  <1>1. /\ InString /\ err' = chunk.err /\ phase' = phase /\ phase = "string" /\ walk' = walk
        /\ buf' = buf
        /\ cursors' = IF chunk.err = "ok"
                      THEN [cursors EXCEPT ![Len(cursors)] = chunk.it] ELSE cursors
    BY DEF GetStringChunk, Quiet, InString, walkVars
  <1>2. /\ Unfailed /\ buf \in Seq(Byte) /\ Iterated(Innermost)
        /\ TRUE = (phase = "string") /\ Stacked(cursors, TRUE) /\ walk = << >>
    BY <1>1, InStringIs
  <1>3. NavInv'
    BY GetChunkStep DEF CourseInv
  <1>4. /\ chunk.err = "ok" => Iterated(chunk.it) /\ Follows(chunk.it, TRUE, Innermost, TRUE)
        /\ chunk.err = "no_more_chunks" => ChunksOver(Innermost)
        /\ chunk.err \notin {"ok", "no_more_chunks"} =>
             ContainerEnd(Innermost, TRUE, MAX_RECURSIONS) = Malformed
    BY <1>2, ChunkFollows
  <1> HIDE DEF chunk
  <1>5. ErrorCourse'
    <2>1. ItemEnd(1, MAX_RECURSIONS) # Malformed => chunk.err \in {"ok", "no_more_chunks"}
      BY <1>2, <1>4, ShallowGoesOn
    <2>2. ItemEnd(1, MAX_RECURSIONS)' = ItemEnd(1, MAX_RECURSIONS)
      BY <1>1, <1>2, EndsStay
    <2> QED
      BY <1>1, <2>1, <2>2 DEF ErrorCourse, Unfailed, InString
  <1>6. ScanCourse' /\ WalkCourse'
    BY <1>1 DEF ScanCourse, WalkCourse
  <1>7. CASE chunk.err = "ok"
    <2>1. chunk.it \in Placed
      BY <1>4, <1>7 DEF Iterated, Placed
    <2>2. Stacked(cursors, phase = "string")' /\ Innermost' = chunk.it
      <3>1. TRUE = (phase' = "string")
        BY <1>1
      <3> QED
        BY <1>1, <1>2, <1>3, <1>4, <1>7, <2>1, <3>1, InnermostChanged
    <2>3. Iterated(Innermost)'
      BY <1>1, <1>2, <1>4, <1>7, <2>2, StringsStay
    <2>4. StackCourse' /\ CallCourse'
      BY <1>1, <1>2, <1>7, <2>2, <2>3 DEF StackCourse, CallCourse, Busy
    <2> QED
      BY <1>3, <1>5, <1>6, <2>4 DEF CourseInv
  <1>8. CASE chunk.err # "ok"
    <2> PICK t : t = cursors
      OBVIOUS
    <2>1. Stacked(t, TRUE)
      BY <1>2
    <2>2. Stacked(t, TRUE)'
      BY <1>1, <1>2, <2>1, StackStays
    <2>3. StackCourse'
      <3>1. (phase = "string")' <=> TRUE
        BY <1>1
      <3> QED
        BY <1>1, <1>8, <2>2, <3>1 DEF StackCourse
    <2>4. Innermost' = Innermost
      BY <1>1, <1>8 DEF Innermost, Last
    <2> PICK c : c = Innermost
      OBVIOUS
    <2>5. Iterated(c)' /\ (chunk.err = "no_more_chunks" => ChunksOver(c)')
      <3>1. Iterated(c) /\ (chunk.err = "no_more_chunks" => ChunksOver(c))
        BY <1>2, <1>4
      <3> QED
        BY <1>1, <1>2, <3>1, StringsStay
    <2>6. CallCourse'
      BY <1>1, <1>2, <2>4, <2>5 DEF CallCourse, Busy
    <2> QED
      BY <1>3, <1>5, <1>6, <2>3, <2>6 DEF CourseInv
  <1> QED
    BY <1>7, <1>8

LEMMA CourseFinish ==
  ASSUME CourseInv, FinishString PROVE CourseInv'
  <1>1. /\ InString /\ err = "no_more_chunks"
        /\ ReturnToClient(FinishStringIteration(Innermost))
        /\ buf' = buf /\ reader' = reader
    BY DEF FinishString, Quiet
  <1>2. /\ Unfailed /\ buf \in Seq(Byte) /\ Iterated(Innermost) /\ ChunksOver(Innermost) /\ NavInv
        /\ TRUE = (phase = "string")
    BY <1>1, InStringIs
  <1>3. Continues(FinishStringIteration(Innermost), Innermost, TRUE)
    BY <1>2, FinishContinues
  <1>4. Outcome(FinishStringIteration(Innermost))
    <2>1. /\ Innermost \in Placed /\ Innermost.remaining # 0 /\ Innermost \in Ending
      BY <1>1, <1>2, InnermostIs DEF InString, NavInv, ClientInv
    <2> QED
      BY <1>2, <2>1, FinishOutcome
  <1>5. ScanInv'
    BY <1>2, ScanRests DEF FinishString, Quiet, NavInv
  <1> QED
    BY <1>1, <1>2, <1>3, <1>4, <1>5, CallEnds

-----------------------------------------------------------------------------
(* advance() returns with what it owes, ...                                *)
Answered == \E r : Outcome(r) /\ Answers(r, Innermost) /\ ReturnToClient(r)
Advancing == phase \in {"scan", "walk", "chunks"}

LEMMA AdvancingIs ==
  ASSUME CourseInv, Advancing
  PROVE  /\ NavInv /\ buf \in Seq(Byte) /\ Unfailed /\ err = "ok" /\ FALSE = (phase = "string")
         /\ phase # "string" /\ Innermost \in Ready /\ Innermost.remaining # 0
         /\ Innermost \in Cursors /\ HeadRead(Innermost) /\ Innermost.ptr \in 1 .. Limit
  <1>1. /\ NavInv /\ buf \in Seq(Byte) /\ err = "ok" /\ phase # "string"
        /\ Innermost \in Ready /\ Innermost.remaining # 0
    BY DEF Advancing, CourseInv, CallCourse, Busy, NavInv, CursorsInv
  <1>2. Innermost \in Cursors /\ HeadRead(Innermost) /\ Innermost.ptr \in 1 .. Limit
    BY <1>1, ReadyRead, HeadReadIs
  <1>3. Unfailed /\ FALSE = (phase = "string")
    BY <1>1 DEF Unfailed
  <1> QED
    BY <1>1, <1>2, <1>3

LEMMA AnsweredCourse ==
  ASSUME CourseInv, Advancing, ScanInv', buf' = buf, reader' = reader, Answered
  PROVE  CourseInv'
  <1> PICK r : Outcome(r) /\ Answers(r, Innermost) /\ ReturnToClient(r)
    BY DEF Answered
  <1>1. /\ buf \in Seq(Byte) /\ Unfailed /\ FALSE = (phase = "string")
        /\ Innermost \in Ready /\ Innermost.remaining # 0
    BY AdvancingIs
  <1>2. Continues(r, Innermost, FALSE)
    BY <1>1, AnswersContinue
  <1> QED
    BY <1>1, <1>2, CallEnds

(* ... or is not done yet, the client's cursors as they were.              *)
LEMMA AdvanceGoesOn ==
  ASSUME CourseInv, NavInv', buf' = buf, UNCHANGED callVars,
         err = "ok", phase # "string", Innermost \in Ready, Innermost.remaining # 0,
         Advancing', phase' = "scan" => walk' = << >>, ScanCourse', WalkCourse'
  PROVE  CourseInv'
  <1>1. /\ NavInv /\ buf \in Seq(Byte) /\ Unfailed /\ FALSE = (phase = "string")
        /\ cursors' = cursors /\ err' = err
    BY DEF CourseInv, NavInv, CursorsInv, Unfailed, callVars
  <1>2. Stacked(cursors, FALSE)
    BY <1>1 DEF CourseInv, StackCourse
  <1> PICK t : t = cursors
    OBVIOUS
  <1>3. Stacked(t, FALSE)'
    <2>1. Stacked(t, FALSE)
      BY <1>2
    <2> QED
      BY <1>1, <2>1, StackStays
  <1>4. StackCourse'
    <2>1. ~(phase = "string")'
      BY DEF Advancing
    <2>2. (phase = "string")' <=> FALSE
      BY <2>1
    <2> QED
      BY <1>1, <1>3, <2>2 DEF StackCourse
  <1>5. ErrorCourse'
    BY <1>1 DEF ErrorCourse, Unfailed
  <1>6. Innermost' = Innermost
    BY <1>1 DEF Innermost, Last
  <1>7. CallCourse'
    BY <1>1, <1>6, SetsStay DEF CallCourse, Advancing
  <1> QED
    BY <1>4, <1>5, <1>7 DEF CourseInv

(* The walk begins. *)
LEMMA CourseWalkStarts ==
  ASSUME CourseInv, NavInv', buf' = buf, UNCHANGED callVars,
         err = "ok", phase # "string", Innermost \in Ready, Innermost.remaining # 0,
         phase' = "walk", walk' = << Innermost >>
  PROVE  CourseInv'
  <1>1. buf \in Seq(Byte) /\ Innermost' = Innermost
    BY DEF CourseInv, NavInv, CursorsInv, Innermost, Last, callVars
  <1> PICK c : c = Innermost
    OBVIOUS
  <1> PICK w : w = << c >>
    OBVIOUS
  <1>2. Len(w) = 1 /\ w[1] = c
    OBVIOUS
  <1>3. Walked(w, c)
    BY <1>2 DEF Walked, Frames, Last
  <1>4. Walked(w, c)'
    BY <1>1, <1>3, WalkStays
  <1>5. ScanCourse' /\ WalkCourse' /\ Advancing' /\ phase' # "scan"
    BY <1>1, <1>4 DEF ScanCourse, WalkCourse, Advancing
  <1> QED
    BY <1>5, AdvanceGoesOn

LEMMA CourseCallAdvance ==
  ASSUME CourseInv, UNCHANGED << buf, reader >>, Idle, CallAdvance
  PROVE  CourseInv'
  <1>1. /\ Innermost.remaining # 0 /\ UNCHANGED callVars /\ err = "ok" /\ phase # "string"
        /\ Innermost' = Innermost
    BY DEF CallAdvance, Idle, callVars, Innermost, Last
  <1>2. Innermost \in Ready /\ buf \in Seq(Byte) /\ walk = << >>
    BY IdleIs
  <1>3. NavInv'
    BY CallAdvanceStep DEF CourseInv
  <1>4. CASE reader \/ Innermost.type = "tag"
    <2>1. phase' = "walk" /\ walk' = << Innermost >>
      BY <1>4 DEF CallAdvance
    <2> QED
      BY <1>1, <1>2, <1>3, <2>1, CourseWalkStarts
  <1>5. CASE ~(reader \/ Innermost.type = "tag")
    <2>1. /\ phase' = "scan" /\ walk' = walk
          /\ p' = Innermost.ptr /\ cur' = Top /\ stack' = << >> /\ afterTag' = FALSE
          /\ chunks' = "none" /\ scan' = "running"
      BY <1>5 DEF CallAdvance, ScanFrom
    <2> PICK start : start = Innermost.ptr
      OBVIOUS
    <2> PICK N : N = MAX_RECURSIONS
      OBVIOUS
    <2>2. start \in 1 .. Limit /\ N \in Nat
      BY <1>1, <1>2, ReadyRead, HeadReadIs, AdvanceAssumption
    <2>3. Chain(start, N)'
      BY <1>2, <2>1, <2>2, ChainBegins
    <2>4. Chain(start, MAX_RECURSIONS)'
      BY <2>3
    <2>5. start = Innermost.ptr' /\ Innermost.type' # "tag"
      BY <1>1, <1>5
    <2>6. Chain(Innermost.ptr, MAX_RECURSIONS)'
      BY <2>4, <2>5 DEF Chain
    <2>7. Len(stack') < p' /\ ~afterTag' /\ Grounded'
      BY <2>1, <2>2 DEF Grounded, Top
    <2>8. ScanOn(Innermost)'
      BY <2>6, <2>7 DEF ScanOn
    <2>9. ScanCourse' /\ WalkCourse' /\ Advancing'
      BY <2>1, <2>5, <2>8 DEF ScanCourse, WalkCourse, Advancing
    <2> QED
      BY <1>1, <1>2, <1>3, <2>1, <2>9, AdvanceGoesOn
  <1> QED
    BY <1>4, <1>5

-----------------------------------------------------------------------------
(* The scan under a call: it stays in the item the call is on. *)
LEMMA ScanOnKept ==
  ASSUME ScanInv, buf' = buf, Moves, scan = "running", NEW c, c.ptr \in 1 .. Limit, ScanOn(c)
  PROVE  ScanOn(c)' /\ scan' = "running"
  <1>1. /\ Len(stack) < p /\ Grounded /\ (afterTag => ~Finished(cur) /\ chunks = "none")
        /\ Chain(c.ptr, MAX_RECURSIONS)
    BY DEF ScanOn
  <1>2. /\ Grounded' /\ Len(stack') < p' /\ scan' = scan
        /\ afterTag' => ~Finished(cur') /\ chunks' = "none"
    BY <1>1, GroundedKept
  <1>3. MAX_RECURSIONS \in Nat /\ Len(stack) < MAX_RECURSIONS
    BY AdvanceAssumption, FastScanAssumption, LenProperties DEF ScanInv
  <1>4. Chain(c.ptr, MAX_RECURSIONS)'
    <2> PICK start : start = c.ptr
      OBVIOUS
    <2>1. Chain(start, MAX_RECURSIONS)
      BY <1>1
    <2>2. Chain(start, MAX_RECURSIONS)'
      BY <1>1, <1>3, <2>1, ChainKept
    <2> QED
      BY <2>2
  <1>5. (afterTag => ~Finished(cur) /\ chunks = "none")'
    BY <1>2 DEF Finished
  <1> QED
    BY <1>2, <1>4, <1>5 DEF ScanOn

LEMMA CourseScanning ==
  ASSUME CourseInv, Scanning PROVE CourseInv'
  <1>1. /\ phase = "scan" /\ ScanStep /\ buf' = buf /\ UNCHANGED callVars
        /\ phase' = "scan" /\ walk' = walk /\ Innermost' = Innermost
    BY DEF Scanning, ScanStep, callVars, walkVars, Innermost, Last
  <1>2. /\ NavInv /\ buf \in Seq(Byte) /\ err = "ok" /\ phase # "string"
        /\ Innermost \in Ready /\ Innermost.remaining # 0 /\ Innermost.ptr \in 1 .. Limit
    BY <1>1, AdvancingIs DEF Advancing
  <1>3. NavInv'
    BY ScanningStep DEF CourseInv
  <1>4. /\ Innermost.type # "tag" /\ walk = << >>
        /\ scan = "running" => ScanOn(Innermost)
    BY <1>1 DEF CourseInv, CallCourse, ScanCourse
  <1> PICK c : c = Innermost
    OBVIOUS
  <1>5. ScanCourse'
    <2>1. CASE Moves
      <3>1. scan = "running"
        BY <2>1 DEF Moves, Unwind, Close, SkipFixed, SkipTag, SkipString, OpenString,
           SkipEmpty, OpenDefinite, OpenIndefinite, EndChunks, SkipChunk, AtItem, Running, InChunks
      <3>2. ScanOn(c)' /\ scan' = "running"
        BY <1>1, <1>2, <1>4, <2>1, <3>1, ScanOnKept DEF NavInv
      <3> QED
        BY <1>1, <1>4, <3>2 DEF ScanCourse, ScanOn, Chain
    <2>2. CASE Return
      <3>1. /\ scan = "running" /\ chunks = "none" /\ Finished(cur) /\ p' = p /\ scan' = "some"
        BY <2>2 DEF Return, Running
      <3>2. ~afterTag /\ Chain(c.ptr, MAX_RECURSIONS) /\ ScanInv /\ MAX_RECURSIONS \in Nat
        BY <1>2, <1>4, <3>1, AdvanceAssumption DEF ScanOn, NavInv
      <3>3. ItemEnd(c.ptr, MAX_RECURSIONS) = p
        BY <2>2, <3>2, ChainDone
      <3>4. ItemEnd(c.ptr, MAX_RECURSIONS)' = p'
        BY <1>1, <1>2, <3>1, <3>3, EndsStay
      <3> QED
        BY <1>1, <1>4, <3>1, <3>4 DEF ScanCourse
    <2>3. CASE GiveUp \/ GiveUpChunks
      <3>1. scan' = "none"
        BY <2>3 DEF GiveUp, GiveUpChunks
      <3> QED
        BY <1>1, <1>4, <3>1 DEF ScanCourse
    <2> QED
      BY <1>1, <2>1, <2>2, <2>3 DEF ScanStep, Moves
  <1>6. WalkCourse' /\ Advancing'
    BY <1>1 DEF WalkCourse, Advancing
  <1> QED
    BY <1>1, <1>2, <1>3, <1>4, <1>5, <1>6, AdvanceGoesOn

(* It has an answer. *)
LEMMA ScanAnswers ==
  ASSUME CourseInv, ScanAnswered
  PROVE  Answered /\ ScanInv' /\ buf' = buf /\ reader' = reader
  <1> DEFINE r == PreparseNext([Innermost EXCEPT !.ptr = p])
  <1>1. /\ phase = "scan" /\ scan = "some" /\ ReturnToClient(r)
        /\ ResetScan /\ buf' = buf /\ reader' = reader
    BY DEF ScanAnswered
  <1>2. /\ NavInv /\ buf \in Seq(Byte) /\ Innermost \in Ready /\ Innermost.remaining # 0
        /\ Innermost \in Cursors /\ Innermost.ptr \in 1 .. Limit
    BY <1>1, AdvancingIs DEF Advancing
  <1>3. Innermost.type # "tag" /\ p = ItemEnd(Innermost.ptr, MAX_RECURSIONS) /\ p \in 1 .. Limit
    BY <1>1, <1>2 DEF CourseInv, ScanCourse, NavInv, ScanInv
  <1>4. ScanInv'
    BY <1>1, <1>2, ScanPutAway DEF NavInv
  <1>5. r = Owed(Innermost)
    BY <1>3 DEF Owed, Malformed
  <1>6. Outcome(r)
    <2> DEFINE moved == [Innermost EXCEPT !.ptr = p]
    <2>1. moved \in Placed /\ moved.remaining # 0
      BY <1>2, <1>3, BufferType DEF Placed, Cursors, Within
    <2> HIDE DEF moved
    <2> QED
      BY <1>2, <2>1, NextOutcome DEF moved
  <1> HIDE DEF r
  <1>7. Answers(r, Innermost)
    BY <1>5 DEF Answers
  <1> QED
    BY <1>1, <1>4, <1>6, <1>7 DEF Answered

LEMMA CourseScanGaveUp ==
  ASSUME CourseInv, ScanGaveUp PROVE CourseInv'
  <1>1. /\ phase = "scan" /\ phase' = "walk" /\ walk' = << Innermost >>
        /\ UNCHANGED callVars /\ buf' = buf
    BY DEF ScanGaveUp
  <1>2. /\ err = "ok" /\ phase # "string" /\ Innermost \in Ready /\ Innermost.remaining # 0
    BY <1>1, AdvancingIs DEF Advancing
  <1>3. NavInv'
    BY GaveUpStep DEF CourseInv
  <1> QED
    BY <1>1, <1>2, <1>3, CourseWalkStarts

-----------------------------------------------------------------------------
(* advance_recursive: a container of the walk that has no end leaves none  *)
(* to those around it, up to the item the call is on.                      *)
LEMMA Climb ==
  ASSUME buf \in Seq(Byte), NEW n \in Nat \ {0, 1}, n <= MAX_RECURSIONS + 1,
         NEW w, Len(w) = n, Frames(w), ItemEnd(w[n - 1].ptr, MAX_RECURSIONS + 2 - n) = Malformed
  PROVE  ItemEnd(w[1].ptr, MAX_RECURSIONS) = Malformed
  <1> DEFINE Broken(k) == ItemEnd(w[k].ptr, MAX_RECURSIONS + 1 - k) = Malformed
             S == {k \in 1 .. n - 1 : Broken(k)}
  <1>1. MAX_RECURSIONS \in Nat
    BY AdvanceAssumption
  <1>2. n - 1 \in S
    <2>1. MAX_RECURSIONS + 1 - (n - 1) = MAX_RECURSIONS + 2 - n
      BY <1>1
    <2> QED
      BY <2>1
  <1>3. S \subseteq Nat /\ S # {}
    BY <1>2
  <1>4. \E k \in S : \A j \in S : k <= j
    <2> HIDE DEF S
    <2> QED
      BY <1>3, Least
  <1>5. PICK k : k \in S /\ \A j \in S : k <= j
    BY <1>4
  <1>6. k = 1
    <2> SUFFICES ASSUME k # 1 PROVE FALSE
      OBVIOUS
    <2>1. k \in 1 .. n - 1 /\ k \in 2 .. n - 1 /\ k - 1 \in 1 .. n - 1 /\ ~(k <= k - 1)
      BY <1>5
    <2>2. w[k].remaining # 0 /\ FrameEnds(w, k, FALSE)
      <3> HIDE DEF S
      <3> QED
        BY <2>1 DEF Frames
    <2>3. ItemEnd(w[k].ptr, MAX_RECURSIONS + 1 - k) = Malformed
      BY <1>5
    <2>4. ContainerEnd(w[k], FALSE, MAX_RECURSIONS + 1 - k) = Malformed
      BY <2>2, <2>3, AfterNothing DEF ContainerEnd, ThisEnd
    <2>5. ItemEnd(w[k - 1].ptr, MAX_RECURSIONS + 2 - k) = Malformed
      BY <2>2, <2>4 DEF FrameEnds
    <2>6. MAX_RECURSIONS + 1 - (k - 1) = MAX_RECURSIONS + 2 - k
      BY <1>1, <2>1
    <2>7. k - 1 \in S
      BY <2>1, <2>5, <2>6
    <2> QED
      BY <1>5, <2>1, <2>7
  <1>7. MAX_RECURSIONS + 1 - 1 = MAX_RECURSIONS
    BY <1>1
  <1> QED
    BY <1>5, <1>6, <1>7

(* The innermost frame is replaced, by one that goes on as it did. *)
LEMMA FramesKept ==
  ASSUME NEW n \in Nat \ {0, 1}, NEW w, Len(w) = n, Frames(w),
         NEW g, Len(g) = n, \A i \in 1 .. n - 1 : g[i] = w[i]
  PROVE  Frames(g) /\ g[1] = w[1] /\ g[n - 1] = w[n - 1]
  <1>1. \A k \in 1 .. n - 1 : g[k].type # "tag" /\ g[k].remaining # 0
    BY DEF Frames
  <1>2. ASSUME NEW k \in 2 .. n - 1 PROVE FrameEnds(g, k, FALSE)
    <2>1. k \in 1 .. n - 1 /\ k - 1 \in 1 .. n - 1
      OBVIOUS
    <2>2. FrameEnds(w, k, FALSE) /\ g[k] = w[k] /\ g[k - 1] = w[k - 1]
      BY <2>1 DEF Frames
    <2> QED
      BY <2>2 DEF FrameEnds
  <1>3. Frames(g)
    BY <1>1, <1>2 DEF Frames
  <1> QED
    BY <1>3

(* A level of the recursion returns. *)
LEMMA LevelReturns ==
  ASSUME buf \in Seq(Byte), NEW n \in Nat \ {0, 1}, n <= MAX_RECURSIONS + 1,
         NEW w, Len(w) = n, Frames(w), NEW r, Outcome(r),
         Owes(r, ItemEnd(w[n - 1].ptr, MAX_RECURSIONS + 2 - n), MAX_RECURSIONS + 1 - n)
  PROVE  /\ r.err # "ok" => Answers(Result(r.err, w[1]), w[1])
         /\ \A g : /\ r.err = "ok" /\ Len(g) = n /\ g[n] = r.it
                   /\ \A i \in 1 .. n - 1 : g[i] = w[i]
                   => Walked(g, w[1])
  <1>1. ASSUME r.err # "ok" PROVE Answers(Result(r.err, w[1]), w[1])
    <2>1. ItemEnd(w[n - 1].ptr, MAX_RECURSIONS + 2 - n) = Malformed
      BY <1>1 DEF Owes
    <2>2. ItemEnd(w[1].ptr, MAX_RECURSIONS) = Malformed
      BY <2>1, Climb
    <2>3. w[1].type # "tag" /\ Result(r.err, w[1]).err # "ok"
      BY <1>1 DEF Frames, Result
    <2> QED
      BY <2>2, <2>3, AnswersError
  <1>2. ASSUME NEW g, r.err = "ok", Len(g) = n, g[n] = r.it, \A i \in 1 .. n - 1 : g[i] = w[i]
        PROVE  Walked(g, w[1])
    <2>1. ContainerEnd(g[n], FALSE, MAX_RECURSIONS + 1 - n) =
            ItemEnd(w[n - 1].ptr, MAX_RECURSIONS + 2 - n)
      BY <1>2 DEF Owes
    <2>2. Frames(g) /\ g[1] = w[1] /\ g[n - 1] = w[n - 1]
      BY <1>2, FramesKept
    <2>3. FrameEnds(g, n, FALSE)
      BY <2>1, <2>2 DEF FrameEnds
    <2>4. Last(g) \in Ready
      BY <1>2 DEF Last, Outcome
    <2> QED
      BY <1>2, <2>2, <2>3, <2>4 DEF Walked
  <1> QED
    BY <1>1, <1>2

Walks == phase \in {"walk", "chunks"} /\ UNCHANGED << buf, reader, scanVars >>

LEMMA WalksIs ==
  ASSUME CourseInv, Walks
  PROVE  /\ Advancing /\ NavInv /\ buf \in Seq(Byte) /\ buf' = buf /\ reader' = reader /\ ScanInv'
         /\ err = "ok" /\ phase # "string" /\ Innermost \in Ready /\ Innermost.remaining # 0
         /\ Innermost \in Placed
         /\ OpenFrames(walk) /\ walk \in Seq(Placed) /\ Len(walk) \in Nat \ {0}
         /\ Len(walk) <= MAX_RECURSIONS + 1 /\ Here = walk[Len(walk)] /\ Here \in Placed
         /\ MAX_RECURSIONS \in Nat
  <1>1. Advancing /\ NavInv
    BY DEF Walks, Advancing, CourseInv
  <1>2. ScanInv'
    BY <1>1, ScanRests DEF Walks, NavInv
  <1> QED
    BY <1>1, <1>2, AdvancingIs, InnermostIs, HereIs, AdvanceAssumption DEF Walks, OpenFrames

LEMMA CourseReturns ==
  ASSUME CourseInv, Walks, NEW w, OpenFrames(w), NEW r, Outcome(r), ReturnFrom(w, r),
         Len(w) = 1 => Answers(r, Innermost),
         Len(w) # 1 =>
           /\ Frames(w) /\ w[1] = Innermost
           /\ Owes(r, ItemEnd(w[Len(w) - 1].ptr, MAX_RECURSIONS + 2 - Len(w)),
                   MAX_RECURSIONS + 1 - Len(w))
  PROVE  CourseInv' /\ (phase' = "client" => Answered)
  <1>1. /\ Advancing /\ NavInv /\ buf \in Seq(Byte) /\ buf' = buf /\ reader' = reader /\ ScanInv'
        /\ err = "ok" /\ phase # "string" /\ Innermost \in Ready /\ Innermost.remaining # 0
        /\ Innermost \in Placed
    BY WalksIs
  <1>2. Answered => CourseInv'
    BY <1>1, AnsweredCourse
  <1>3. CASE Len(w) = 1
    <2>1. ReturnToClient(r) /\ Answers(r, Innermost)
      BY <1>3 DEF ReturnFrom
    <2> QED
      BY <1>2, <2>1 DEF Answered
  <1>4. CASE Len(w) # 1
    <2> PICK n : n = Len(w)
      OBVIOUS
    <2>1. n \in Nat \ {0, 1} /\ n <= MAX_RECURSIONS + 1 /\ w \in Seq(Placed) /\ w # << >>
      BY <1>4, LastIs DEF OpenFrames
    <2>2. /\ Frames(w) /\ w[1] = Innermost
          /\ Owes(r, ItemEnd(w[n - 1].ptr, MAX_RECURSIONS + 2 - n), MAX_RECURSIONS + 1 - n)
      BY <1>4
    <2>3. /\ r.err # "ok" => Answers(Result(r.err, w[1]), w[1])
          /\ \A g : /\ r.err = "ok" /\ Len(g) = n /\ g[n] = r.it
                    /\ \A i \in 1 .. n - 1 : g[i] = w[i]
                    => Walked(g, w[1])
      BY <1>1, <2>1, <2>2, LevelReturns
    <2>4. CASE r.err # "ok"
      <3>1. ReturnToClient(Result(r.err, w[1]))
        BY <1>4, <2>4 DEF ReturnFrom
      <3>2. Outcome(Result(r.err, w[1]))
        BY <1>1, <2>2, <2>4 DEF Outcome, Result
      <3>3. Answers(Result(r.err, w[1]), Innermost)
        BY <2>2, <2>3, <2>4
      <3> QED
        BY <1>2, <3>1, <3>2, <3>3 DEF Answered
    <2>5. CASE r.err = "ok"
      <3>1. phase' = "walk" /\ walk' = [w EXCEPT ![n] = r.it] /\ UNCHANGED callVars
        BY <1>4, <2>5 DEF ReturnFrom
      <3> PICK g : g = walk'
        OBVIOUS
      <3> PICK c : c = Innermost
        OBVIOUS
      <3>2. Len(g) = n /\ g[n] = r.it /\ \A i \in 1 .. n - 1 : g[i] = w[i]
        <4>1. r.it \in Placed
          BY DEF Outcome
        <4> QED
          BY <2>1, <3>1, <4>1, LastReplaced
      <3>3. Walked(g, c)
        BY <2>2, <2>3, <2>5, <3>2
      <3>4. Walked(g, c)'
        BY <1>1, <3>3, WalkStays
      <3>5. NavInv'
        BY <1>1, ReturnsFrom
      <3>6. Innermost' = Innermost
        BY <3>1 DEF Innermost, Last, callVars
      <3>7. ScanCourse' /\ WalkCourse' /\ Advancing' /\ phase' # "scan"
        BY <3>1, <3>4, <3>6 DEF ScanCourse, WalkCourse, Advancing
      <3>8. CourseInv'
        BY <1>1, <3>1, <3>5, <3>7, AdvanceGoesOn
      <3> QED
        BY <3>1, <3>8
    <2> QED
      BY <2>4, <2>5
  <1> QED
    BY <1>3, <1>4

LEMMA WalkingIs ==
  ASSUME CourseInv, Walks, Walking
  PROVE  /\ phase = "walk" /\ Here \in Ready /\ Here \in Stood /\ Here.remaining # 0
         /\ Here \in Cursors /\ HeadRead(Here) /\ Here.ptr \in 1 .. Limit
         /\ Frames(walk) /\ walk[1] = Innermost
         /\ Len(walk) = 1 => Here = Innermost
         /\ Len(walk) # 1 => FrameEnds(walk, Len(walk), FALSE)
  <1>1. phase = "walk" /\ buf \in Seq(Byte) /\ Len(walk) \in Nat \ {0} /\ Here = walk[Len(walk)]
    BY WalksIs DEF Walking
  <1>2. Walked(walk, Innermost)
    BY <1>1 DEF CourseInv, WalkCourse
  <1>3. Here \in Ready /\ Here \in Stood /\ Here.remaining # 0
    BY <1>2, WalkAtItem DEF Walked, Here, CourseInv
  <1>4. Here \in Cursors /\ HeadRead(Here) /\ Here.ptr \in 1 .. Limit
    BY <1>1, <1>3, ReadyRead, HeadReadIs
  <1> PICK n : n = Len(walk)
    OBVIOUS
  <1>5. n # 1 => n > 1
    BY <1>1
  <1> QED
    BY <1>1, <1>2, <1>3, <1>4, <1>5 DEF Walked

LEMMA FixedIsOwed ==
  ASSUME buf \in Seq(Byte), NEW c \in Cursors, HeadRead(c), ~IsString(c), ~IsContainer(c)
  PROVE  AdvanceInternal(c) = Owed(c)
  <1>1. CASE c.type = "tag"
    BY <1>1, FixedContinues
  <1>2. CASE c.type # "tag"
    <2>1. ~c.unknown /\ ItemEnd(c.ptr, MAX_RECURSIONS) = PastHead(c).ptr
      BY <1>2, FixedEnd, Limits
    <2>2. /\ PastHead(c).ptr = c.ptr + HeadLength(c.ptr)
          /\ PastHead(c) = [c EXCEPT !.ptr = c.ptr + HeadLength(c.ptr)]
          /\ Within(PastHead(c))
      BY <2>1, HeadReadIs
    <2> DEFINE at == c.ptr + HeadLength(c.ptr)
    <2> PICK past : past = PastHead(c)
      OBVIOUS
    <2>3. past = [c EXCEPT !.ptr = at] /\ past.ptr = at /\ at # 0
      BY <2>2 DEF Within
    <2>4. AdvanceInternal(c) = PreparseNext(past)
      BY DEF AdvanceInternal
    <2> HIDE DEF at
    <2>5. ItemEnd(c.ptr, MAX_RECURSIONS) = at
      BY <2>1, <2>3
    <2>6. Owed(c) = PreparseNext([c EXCEPT !.ptr = at])
      BY <1>2, <2>3, <2>5 DEF Owed, Malformed
    <2> QED
      BY <2>3, <2>4, <2>6
  <1> QED
    BY <1>1, <1>2

LEMMA CourseWalkFixed ==
  ASSUME CourseInv, Walks, WalkFixed
  PROVE  CourseInv' /\ (phase' = "client" => Answered)
  <1> DEFINE r == AdvanceInternal(Here)
  <1>1. Walking /\ ~IsString(Here) /\ ~IsContainer(Here) /\ ReturnFrom(walk, r)
    BY DEF WalkFixed
  <1>2. /\ buf \in Seq(Byte) /\ OpenFrames(walk) /\ Len(walk) \in Nat \ {0}
        /\ Len(walk) <= MAX_RECURSIONS + 1 /\ Here = walk[Len(walk)] /\ MAX_RECURSIONS \in Nat
    BY WalksIs
  <1>3. /\ Here \in Stood /\ Here.remaining # 0 /\ Here \in Cursors /\ HeadRead(Here)
        /\ Frames(walk) /\ walk[1] = Innermost
        /\ Len(walk) = 1 => Here = Innermost
        /\ Len(walk) # 1 => FrameEnds(walk, Len(walk), FALSE)
    BY <1>1, WalkingIs
  <1>4. Outcome(r)
    BY <1>1, <1>2, <1>3, AdvanceOutcome
  <1>5. r = Owed(Here) /\ \A nest \in Nat : Owes(r, ContainerEnd(Here, FALSE, nest), nest)
    BY <1>1, <1>2, <1>3, FixedIsOwed, FixedOwes
  <1> HIDE DEF r
  <1>6. Len(walk) = 1 => Answers(r, Innermost)
    BY <1>3, <1>5 DEF Answers
  <1> PICK nest : nest = MAX_RECURSIONS + 1 - Len(walk)
    OBVIOUS
  <1>7. nest \in Nat
    BY <1>2
  <1>8. Owes(r, ContainerEnd(walk[Len(walk)], FALSE, nest), nest)
    BY <1>2, <1>5, <1>7
  <1>9. Len(walk) # 1 =>
          Owes(r, ItemEnd(walk[Len(walk) - 1].ptr, MAX_RECURSIONS + 2 - Len(walk)),
               MAX_RECURSIONS + 1 - Len(walk))
    BY <1>3, <1>8 DEF FrameEnds
  <1> QED
    BY <1>1, <1>2, <1>3, <1>4, <1>6, <1>9, CourseReturns

-----------------------------------------------------------------------------
(* A cursor on the same item, inside it. *)
StringEnds(c, nest) == ThisEnd(c, TRUE, nest)
RestEnds(c, nest) == ContainerEnd(c, TRUE, nest)

LEMMA SeenEnds ==
  ASSUME NEW d, NEW c, SameSight(d, c), c.remaining # 0, NEW nest
  PROVE  /\ StringEnds(d, nest) = ItemEnd(c.ptr, nest) =>
              RestEnds(d, nest) = ContainerEnd(c, FALSE, nest)
         /\ StringEnds(d, nest) = StringEnds(c, nest) => RestEnds(d, nest) = RestEnds(c, nest)
  <1>1. d.remaining = c.remaining /\ d.map = c.map /\ d.key = c.key
    BY DEF SameSight
  <1>2. \A e : AfterThis(e, d, nest) = AfterThis(e, c, nest)
    BY <1>1, SameContainer
  <1>3. ThisEnd(c, FALSE, nest) = ItemEnd(c.ptr, nest)
    BY DEF ThisEnd
  <1> QED
    BY <1>1, <1>2, <1>3 DEF ContainerEnd, StringEnds, RestEnds

(* The frames of a walk that is inside a string. *)
LEMMA ChunkedAlone ==
  ASSUME NEW g, Len(g) = 1, NEW c, Iterated(g[1]), Amid(g[1], c)
  PROVE  Chunked(g, c)
  <1>1. Frames(g)
    BY DEF Frames
  <1>2. Last(g) = g[1] /\ ~(Len(g) > 1)
    BY DEF Last
  <1> QED
    BY <1>1, <1>2 DEF Chunked

LEMMA ChunkedNested ==
  ASSUME NEW n \in Nat \ {0, 1}, NEW w, Len(w) = n, Frames(w),
         NEW g, Len(g) = n, \A i \in 1 .. n - 1 : g[i] = w[i], Iterated(g[n]),
         RestEnds(g[n], MAX_RECURSIONS + 1 - n) = ItemEnd(w[n - 1].ptr, MAX_RECURSIONS + 2 - n)
  PROVE  Chunked(g, w[1])
  <1>1. Frames(g) /\ g[1] = w[1] /\ g[n - 1] = w[n - 1]
    BY FramesKept
  <1>2. RestEnds(g[n], MAX_RECURSIONS + 1 - n) = ItemEnd(g[n - 1].ptr, MAX_RECURSIONS + 2 - n)
    BY <1>1
  <1>3. FrameEnds(g, n, TRUE)
    BY <1>2 DEF FrameEnds, RestEnds
  <1>4. Last(g) = g[n] /\ Len(g) > 1
    BY DEF Last
  <1> QED
    BY <1>1, <1>3, <1>4 DEF Chunked

(* The walk goes on inside a string. *)
LEMMA CourseHere ==
  ASSUME CourseInv, Walks, UNCHANGED callVars, phase' = "chunks",
         NEW d, Iterated(d), walk' = [walk EXCEPT ![Len(walk)] = d],
         Len(walk) = 1 => Amid(d, Innermost),
         Len(walk) # 1 =>
           /\ Frames(walk) /\ walk[1] = Innermost
           /\ RestEnds(d, MAX_RECURSIONS + 1 - Len(walk)) =
                ItemEnd(walk[Len(walk) - 1].ptr, MAX_RECURSIONS + 2 - Len(walk))
  PROVE  CourseInv'
  <1>1. /\ NavInv /\ buf \in Seq(Byte) /\ buf' = buf /\ reader' = reader
        /\ err = "ok" /\ phase # "string" /\ Innermost \in Ready /\ Innermost.remaining # 0
        /\ walk \in Seq(Placed) /\ Len(walk) \in Nat \ {0} /\ Here = walk[Len(walk)]
        /\ walk # << >> /\ phase \in {"walk", "chunks"}
    BY WalksIs DEF Walks
  <1>2. d \in Placed /\ d.remaining # 0
    BY DEF Iterated, Placed
  <1>3. NavInv'
    BY <1>1, <1>2, HereReplaced DEF Walks
  <1> PICK n : n = Len(walk)
    OBVIOUS
  <1> PICK w : w = walk
    OBVIOUS
  <1> PICK g : g = walk'
    OBVIOUS
  <1> PICK c : c = Innermost
    OBVIOUS
  <1>4. Len(g) = n /\ g[n] = d /\ \A i \in 1 .. n - 1 : g[i] = w[i]
    BY <1>1, <1>2, LastReplaced
  <1>5. Chunked(g, c)
    <2>1. CASE n = 1
      <3>1. Len(g) = 1 /\ g[1] = d /\ Amid(d, c)
        BY <1>4, <2>1
      <3> QED
        BY <3>1, ChunkedAlone
    <2>2. CASE n # 1
      <3>1. n \in Nat \ {0, 1} /\ Len(w) = n /\ Frames(w) /\ w[1] = c
        BY <1>1, <2>2
      <3>2. RestEnds(g[n], MAX_RECURSIONS + 1 - n) = ItemEnd(w[n - 1].ptr, MAX_RECURSIONS + 2 - n)
        BY <1>1, <1>4, <2>2
      <3>3. Len(g) = n /\ (\A i \in 1 .. n - 1 : g[i] = w[i]) /\ Iterated(g[n])
        BY <1>4
      <3>4. Chunked(g, w[1])
        BY <3>1, <3>2, <3>3, ChunkedNested
      <3> QED
        BY <3>1, <3>4
    <2> QED
      BY <2>1, <2>2
  <1>6. Chunked(g, c)' /\ Innermost' = Innermost
    BY <1>1, <1>5, WalkStays DEF Innermost, Last, callVars
  <1>7. ScanCourse' /\ WalkCourse' /\ Advancing' /\ phase' # "scan"
    BY <1>6 DEF ScanCourse, WalkCourse, Advancing
  <1> QED
    BY <1>1, <1>3, <1>7, AdvanceGoesOn

LEMMA CourseWalkIntoString ==
  ASSUME CourseInv, Walks, WalkIntoString
  PROVE  CourseInv' /\ phase' # "client"
  <1> DEFINE d == BeginStringIteration(Here)
  <1>1. /\ Walking /\ IsString(Here) /\ phase' = "chunks" /\ walk' = [walk EXCEPT ![Len(walk)] = d]
        /\ UNCHANGED callVars
    BY DEF WalkIntoString
  <1>2. /\ buf \in Seq(Byte) /\ Len(walk) \in Nat \ {0} /\ Here = walk[Len(walk)]
        /\ Len(walk) <= MAX_RECURSIONS + 1 /\ MAX_RECURSIONS \in Nat
    BY WalksIs
  <1>3. /\ Here \in Ready /\ Here.remaining # 0 /\ Frames(walk) /\ walk[1] = Innermost
        /\ Len(walk) = 1 => Here = Innermost
        /\ Len(walk) # 1 => FrameEnds(walk, Len(walk), FALSE)
    BY <1>1, WalkingIs
  <1>4. /\ Iterated(d) /\ SameSight(d, Here)
        /\ \A nest \in Nat : ThisEnd(d, TRUE, nest) = ItemEnd(Here.ptr, nest)
    BY <1>1, <1>2, <1>3, BeginFollows
  <1> HIDE DEF d
  <1>5. Len(walk) = 1 => Amid(d, Innermost)
    BY <1>3, <1>4 DEF Amid
  <1> PICK nest : nest = MAX_RECURSIONS + 1 - Len(walk)
    OBVIOUS
  <1>6. RestEnds(d, nest) = ContainerEnd(Here, FALSE, nest)
    <2>1. nest \in Nat
      BY <1>2
    <2>2. StringEnds(d, nest) = ItemEnd(Here.ptr, nest)
      BY <1>4, <2>1 DEF StringEnds
    <2> QED
      BY ZenonT(30), <1>3, <1>4, <2>2, SeenEnds
  <1>7. Len(walk) # 1 =>
          RestEnds(d, MAX_RECURSIONS + 1 - Len(walk)) =
            ItemEnd(walk[Len(walk) - 1].ptr, MAX_RECURSIONS + 2 - Len(walk))
    BY <1>2, <1>3, <1>6 DEF FrameEnds
  <1>8. CourseInv'
    BY <1>1, <1>3, <1>4, <1>5, <1>7, CourseHere
  <1> QED
    BY <1>1, <1>8

LEMMA ChunksIs ==
  ASSUME CourseInv, Walks, phase = "chunks"
  PROVE  /\ Iterated(Here) /\ Here.remaining # 0 /\ Frames(walk)
         /\ Len(walk) = 1 => Amid(Here, Innermost)
         /\ Len(walk) # 1 =>
              /\ walk[1] = Innermost
              /\ RestEnds(Here, MAX_RECURSIONS + 1 - Len(walk)) =
                   ItemEnd(walk[Len(walk) - 1].ptr, MAX_RECURSIONS + 2 - Len(walk))
  <1>1. Len(walk) \in Nat \ {0} /\ Here = walk[Len(walk)]
    BY WalksIs
  <1>2. Chunked(walk, Innermost)
    BY DEF CourseInv, WalkCourse
  <1>3. Iterated(Here) /\ Here.remaining # 0 /\ Frames(walk)
    BY <1>2 DEF Chunked, Here, Iterated
  <1>4. CASE Len(walk) = 1
    BY <1>1, <1>2, <1>3, <1>4 DEF Chunked
  <1>5. CASE Len(walk) # 1
    <2> PICK n : n = Len(walk)
      OBVIOUS
    <2>1. n > 1
      BY <1>1, <1>5
    <2>2. walk[1] = Innermost /\ FrameEnds(walk, n, TRUE)
      BY <1>2, <2>1 DEF Chunked
    <2>3. RestEnds(Here, MAX_RECURSIONS + 1 - n) = ItemEnd(walk[n - 1].ptr, MAX_RECURSIONS + 2 - n)
      BY <1>1, <2>2 DEF FrameEnds, RestEnds
    <2> QED
      BY <1>3, <1>5, <2>2, <2>3
  <1> QED
    BY <1>4, <1>5

(* The item the call is on is a string, and the walk is at its end. *)
LEMMA FinishIsOwed ==
  ASSUME buf \in Seq(Byte), NEW x, Iterated(x), ChunksOver(x), NEW c \in Cursors, Amid(x, c)
  PROVE  Answers(FinishStringIteration(x), c)
  <1>1. PICK y \in Cursors : /\ FinishStringIteration(x) = PreparseNext(y)
                             /\ SameSight(y, x) /\ y.ptr \in 1 .. Limit
                             /\ \A nest \in Nat : ThisEnd(x, TRUE, nest) = y.ptr
    BY FinishIs
  <1>2. ItemEnd(c.ptr, MAX_RECURSIONS) = y.ptr
    BY <1>1, Limits DEF Amid
  <1>3. SameSight(x, c) /\ x.remaining # 0 /\ IsString(x)
    BY DEF Amid, Iterated
  <1>4. c.type # "tag" /\ y.remaining # 0
    BY <1>1, <1>3 DEF SameSight, IsString, StringMajors
  <1> DEFINE moved == [c EXCEPT !.ptr = y.ptr]
  <1>5. moved \in Cursors /\ moved.ptr = y.ptr
    BY <1>1, BufferType DEF Cursors
  <1>6. SameSight(y, moved)
    BY <1>1, <1>3 DEF SameSight, Cursors
  <1>7. Owed(c) = PreparseNext(moved)
    BY <1>1, <1>2, <1>4 DEF Owed, Malformed
  <1> HIDE DEF moved
  <1>8. SeenAlike(PreparseNext(y), PreparseNext(moved))
    BY <1>4, <1>5, <1>6, NextSeen
  <1> QED
    BY <1>1, <1>7, <1>8, AnswersIf

LEMMA CourseWalkChunk ==
  ASSUME CourseInv, Walks, WalkChunk
  PROVE  CourseInv' /\ (phase' = "client" => Answered)
  <1> DEFINE chunk == GetChunk(Here)
  <1>1. phase = "chunks"
    BY DEF WalkChunk
  <1>2. /\ buf \in Seq(Byte) /\ OpenFrames(walk) /\ Len(walk) \in Nat \ {0} /\ Here \in Placed
        /\ Len(walk) <= MAX_RECURSIONS + 1 /\ Here = walk[Len(walk)] /\ MAX_RECURSIONS \in Nat
        /\ Innermost \in Placed /\ Innermost \in Cursors
    BY WalksIs DEF Placed
  <1>3. /\ Iterated(Here) /\ Here.remaining # 0 /\ Frames(walk)
        /\ Len(walk) = 1 => Amid(Here, Innermost)
        /\ Len(walk) # 1 =>
             /\ walk[1] = Innermost
             /\ RestEnds(Here, MAX_RECURSIONS + 1 - Len(walk)) =
                  ItemEnd(walk[Len(walk) - 1].ptr, MAX_RECURSIONS + 2 - Len(walk))
    BY <1>1, ChunksIs
  <1>4. /\ chunk.err = "ok" =>
             /\ Iterated(chunk.it) /\ SameSight(chunk.it, Here)
             /\ \A nest \in Nat : ThisEnd(chunk.it, TRUE, nest) = ThisEnd(Here, TRUE, nest)
        /\ chunk.err = "no_more_chunks" => ChunksOver(Here)
        /\ chunk.err \notin {"ok", "no_more_chunks"} =>
             \A nest \in Nat : ThisEnd(Here, TRUE, nest) = Malformed
    BY <1>2, <1>3, ChunkEnds
  <1>5. chunk.it \in Placed /\ (chunk.err = "no_more_chunks" => Here \in Ending)
    BY <1>2, <1>3, ChunkOutcome
  <1> PICK nest : nest = MAX_RECURSIONS + 1 - Len(walk)
    OBVIOUS
  <1>6. nest \in Nat
    BY <1>2
  <1>7. CASE chunk.err = "no_more_chunks"
    <2> DEFINE r == FinishStringIteration(Here)
    <2>1. ReturnFrom(walk, r)
      BY <1>7 DEF WalkChunk
    <2>2. Outcome(r)
      BY <1>2, <1>3, <1>5, <1>7, FinishOutcome
    <2>3. Len(walk) = 1 => Answers(r, Innermost)
      BY <1>2, <1>3, <1>4, <1>7, FinishIsOwed
    <2>4. Owes(r, RestEnds(Here, nest), nest)
      BY <1>2, <1>3, <1>4, <1>6, <1>7, FinishOwes DEF RestEnds
    <2> HIDE DEF r
    <2>5. Len(walk) # 1 =>
            Owes(r, ItemEnd(walk[Len(walk) - 1].ptr, MAX_RECURSIONS + 2 - Len(walk)),
                 MAX_RECURSIONS + 1 - Len(walk))
      BY <1>3, <2>4
    <2> QED
      BY <1>2, <1>3, <2>1, <2>2, <2>3, <2>5, CourseReturns
  <1>8. CASE chunk.err = "ok"
    <2>1. walk' = [walk EXCEPT ![Len(walk)] = chunk.it] /\ UNCHANGED callVars /\ phase' = "chunks"
      BY <1>1, <1>8 DEF WalkChunk
    <2> PICK d : d = chunk.it
      OBVIOUS
    <2>2. /\ Iterated(d) /\ SameSight(d, Here)
          /\ \A m \in Nat : StringEnds(d, m) = StringEnds(Here, m)
      BY <1>4, <1>8 DEF StringEnds
    <2>3. Len(walk) = 1 => Amid(d, Innermost)
      <3>1. Amid(Here, Innermost) => Amid(d, Innermost)
        BY <2>2 DEF Amid, SameSight, StringEnds
      <3> QED
        BY <1>3, <3>1
    <2>4. RestEnds(d, nest) = RestEnds(Here, nest)
      <3>1. SameSight(d, Here) /\ Here.remaining # 0 /\ StringEnds(d, nest) = StringEnds(Here, nest)
        BY <1>3, <1>6, <2>2
      <3> HIDE DEF chunk
      <3> QED
        BY ZenonT(30), <3>1, SeenEnds
    <2>5. Len(walk) # 1 =>
            RestEnds(d, MAX_RECURSIONS + 1 - Len(walk)) =
              ItemEnd(walk[Len(walk) - 1].ptr, MAX_RECURSIONS + 2 - Len(walk))
      BY <1>3, <2>4
    <2> HIDE DEF chunk
    <2>6. CourseInv'
      BY <1>3, <2>1, <2>2, <2>3, <2>5, CourseHere
    <2> QED
      BY <2>1, <2>6
  <1>9. CASE chunk.err \notin {"ok", "no_more_chunks"}
    <2>1. ReturnFrom(walk, chunk)
      BY <1>9 DEF WalkChunk
    <2>2. Outcome(chunk)
      BY <1>5, <1>9 DEF Outcome
    <2>3. Len(walk) = 1 => Answers(chunk, Innermost)
      <3> SUFFICES ASSUME Len(walk) = 1 PROVE Answers(chunk, Innermost)
        OBVIOUS
      <3> HIDE DEF chunk
      <3>1. Amid(Here, Innermost)
        BY <1>3
      <3>2. ItemEnd(Innermost.ptr, MAX_RECURSIONS) = Malformed
        BY <1>2, <1>4, <1>9, <3>1 DEF Amid
      <3>3. Innermost.type # "tag"
        BY <1>3, <3>1 DEF Amid, SameSight, Iterated, IsString, StringMajors
      <3> QED
        BY <1>9, <3>2, <3>3, AnswersError
    <2> HIDE DEF chunk
    <2>4. Owes(chunk, RestEnds(Here, nest), nest)
      <3>1. ThisEnd(Here, TRUE, nest) = Malformed
        BY <1>4, <1>6, <1>9
      <3>2. RestEnds(Here, nest) = Malformed
        BY <1>3, <3>1, BrokenChunks DEF RestEnds
      <3> QED
        BY <1>9, <3>2 DEF Owes
    <2>5. Len(walk) # 1 =>
            Owes(chunk, ItemEnd(walk[Len(walk) - 1].ptr, MAX_RECURSIONS + 2 - Len(walk)),
                 MAX_RECURSIONS + 1 - Len(walk))
      BY <1>3, <2>4
    <2> QED
      BY <1>2, <1>3, <2>1, <2>2, <2>3, <2>5, CourseReturns
  <1> QED
    BY <1>7, <1>8, <1>9

-----------------------------------------------------------------------------
(* The walk at a container. *)
LEMMA NoLevelLeft ==
  ASSUME buf \in Seq(Byte), NEW c \in Cursors, HeadRead(c), IsContainer(c)
  PROVE  ItemEnd(c.ptr, 0) = Malformed
  <1>1. c.ptr \in 1 .. Limit /\ c.type = MajorOf(buf[c.ptr]) /\ 0 \in Nat
    BY HeadReadIs
  <1>2. CASE c.unknown
    <2>1. StreamedHead(c.ptr, ContainerMajors)
      BY <1>2, HeadReadIs
    <2> QED
      BY <1>1, <2>1, StreamedItem
  <1>3. CASE ~c.unknown
    <2>1. PlainHead(c.ptr) /\ MajorOf(buf[c.ptr]) \in ContainerMajors
      BY <1>1, <1>3 DEF HeadRead, IsContainer
    <2> QED
      BY <1>1, <2>1, DefiniteItem
  <1> QED
    BY <1>2, <1>3

(* It is not gone into. *)
LEMMA CourseStopped ==
  ASSUME CourseInv, Walks, Walking, IsContainer(Here), NEW e, e # "ok",
         ItemEnd(Here.ptr, MAX_RECURSIONS + 1 - Len(walk)) = Malformed,
         ReturnFrom(walk, Result(e, Here))
  PROVE  CourseInv' /\ (phase' = "client" => Answered)
  <1> DEFINE r == Result(e, Here)
  <1>1. /\ OpenFrames(walk) /\ Len(walk) \in Nat \ {0} /\ Here \in Placed
        /\ Here = walk[Len(walk)] /\ MAX_RECURSIONS \in Nat
    BY WalksIs
  <1>2. /\ Here.remaining # 0 /\ Frames(walk) /\ walk[1] = Innermost
        /\ Len(walk) = 1 => Here = Innermost
        /\ Len(walk) # 1 => FrameEnds(walk, Len(walk), FALSE)
    BY WalkingIs
  <1>3. r.err # "ok" /\ Outcome(r) /\ ReturnFrom(walk, r)
    BY <1>1 DEF Result, Outcome
  <1> HIDE DEF r
  <1>4. Len(walk) = 1 => Answers(r, Innermost)
    <2> SUFFICES ASSUME Len(walk) = 1 PROVE Answers(r, Innermost)
      OBVIOUS
    <2>1. Here.type # "tag" /\ MAX_RECURSIONS + 1 - 1 = MAX_RECURSIONS
      BY <1>1 DEF IsContainer, ContainerMajors
    <2>2. ItemEnd(Innermost.ptr, MAX_RECURSIONS) = Malformed /\ Innermost.type # "tag"
      BY <1>2, <2>1
    <2> QED
      BY <1>3, <2>2, AnswersError
  <1> PICK nest : nest = MAX_RECURSIONS + 1 - Len(walk)
    OBVIOUS
  <1>5. ContainerEnd(Here, FALSE, nest) = Malformed
    BY <1>2, AfterNothing DEF ContainerEnd, ThisEnd
  <1>6. Len(walk) # 1 => ItemEnd(walk[Len(walk) - 1].ptr, MAX_RECURSIONS + 2 - Len(walk)) = Malformed
    BY <1>1, <1>2, <1>5 DEF FrameEnds
  <1>7. Len(walk) # 1 =>
          Owes(r, ItemEnd(walk[Len(walk) - 1].ptr, MAX_RECURSIONS + 2 - Len(walk)),
               MAX_RECURSIONS + 1 - Len(walk))
    BY <1>3, <1>6 DEF Owes
  <1> QED
    BY <1>1, <1>2, <1>3, <1>4, <1>7, CourseReturns

LEMMA CourseWalkTooDeep ==
  ASSUME CourseInv, Walks, WalkTooDeep
  PROVE  CourseInv' /\ (phase' = "client" => Answered)
  <1>1. /\ Walking /\ IsContainer(Here) /\ Len(walk) > MAX_RECURSIONS
        /\ ReturnFrom(walk, Result("nesting_too_deep", Here)) /\ "nesting_too_deep" # "ok"
    BY DEF WalkTooDeep
  <1>2. /\ buf \in Seq(Byte) /\ Len(walk) \in Nat \ {0} /\ Len(walk) <= MAX_RECURSIONS + 1
        /\ MAX_RECURSIONS \in Nat
    BY WalksIs
  <1>3. Here \in Cursors /\ HeadRead(Here)
    BY <1>1, WalkingIs
  <1>4. MAX_RECURSIONS + 1 - Len(walk) = 0
    BY <1>1, <1>2
  <1>5. ItemEnd(Here.ptr, MAX_RECURSIONS + 1 - Len(walk)) = Malformed
    BY <1>1, <1>2, <1>3, <1>4, NoLevelLeft
  <1> QED
    BY <1>1, <1>5, CourseStopped

(* It is. *)
LEMMA FramesPushed ==
  ASSUME NEW n \in Nat \ {0}, NEW w, Len(w) = n, Frames(w), n # 1 => FrameEnds(w, n, FALSE),
         w[n].type # "tag", w[n].remaining # 0,
         NEW g, Len(g) = n + 1, \A i \in 1 .. n : g[i] = w[i], g[n + 1] \in Ready,
         NEW nest, nest = MAX_RECURSIONS - n, MAX_RECURSIONS \in Nat,
         ContainerEnd(g[n + 1], FALSE, nest) = ItemEnd(w[n].ptr, nest + 1)
  PROVE  Walked(g, w[1])
  <1>1. ASSUME NEW k \in 1 .. n PROVE g[k].type # "tag" /\ g[k].remaining # 0
    <2>1. g[k] = w[k]
      OBVIOUS
    <2>2. CASE k = n
      BY <2>1, <2>2
    <2>3. CASE k # n
      <3>1. k \in 1 .. n - 1
        BY <2>3
      <3> QED
        BY <2>1, <3>1 DEF Frames
    <2> QED
      BY <2>2, <2>3
  <1>2. ASSUME NEW k \in 2 .. n PROVE FrameEnds(g, k, FALSE)
    <2>1. g[k] = w[k] /\ g[k - 1] = w[k - 1]
      <3>1. k \in 1 .. n /\ k - 1 \in 1 .. n
        OBVIOUS
      <3> QED
        BY <3>1
    <2>2. FrameEnds(w, k, FALSE)
      <3>1. CASE k = n
        <4>1. n # 1
          BY <3>1
        <4> QED
          BY <3>1, <4>1
      <3>2. CASE k # n
        <4>1. k \in 2 .. n - 1
          BY <3>2
        <4> QED
          BY <4>1 DEF Frames
      <3> QED
        BY <3>1, <3>2
    <2> QED
      BY <2>1, <2>2 DEF FrameEnds
  <1> PICK m : m = n + 1
    OBVIOUS
  <1>3. /\ m - 1 = n /\ m > 1 /\ MAX_RECURSIONS + 1 - m = nest /\ MAX_RECURSIONS + 2 - m = nest + 1
        /\ g[m - 1] = w[n] /\ g[1] = w[1] /\ Len(g) = m
    OBVIOUS
  <1>4. FrameEnds(g, m, FALSE)
    <2>1. ContainerEnd(g[m], FALSE, nest) = ItemEnd(g[m - 1].ptr, nest + 1)
      BY <1>3
    <2> QED
      BY <1>3, <2>1 DEF FrameEnds
  <1>5. Frames(g)
    BY <1>1, <1>2, <1>3 DEF Frames
  <1>6. Last(g) \in Ready
    BY <1>3 DEF Last
  <1> QED
    BY <1>3, <1>4, <1>5, <1>6 DEF Walked

LEMMA CourseWalkInto ==
  ASSUME CourseInv, Walks, WalkIntoContainer
  PROVE  CourseInv' /\ (phase' = "client" => Answered)
  <1> DEFINE r == EnterContainer(Here)
  <1>1. /\ Walking /\ IsContainer(Here) /\ Len(walk) <= MAX_RECURSIONS
        /\ r.err # "ok" => ReturnFrom(walk, Result(r.err, Here))
        /\ r.err = "ok" => walk' = Append(walk, r.it) /\ UNCHANGED << callVars, phase >>
    BY DEF WalkIntoContainer
  <1>2. /\ NavInv /\ buf \in Seq(Byte) /\ buf' = buf /\ walk \in Seq(Placed)
        /\ Len(walk) \in Nat \ {0} /\ Here = walk[Len(walk)] /\ MAX_RECURSIONS \in Nat
        /\ err = "ok" /\ phase # "string" /\ Innermost \in Ready /\ Innermost.remaining # 0
    BY WalksIs
  <1>3. /\ phase = "walk" /\ Here \in Ready /\ Here \in Stood /\ Here.remaining # 0
        /\ Frames(walk) /\ walk[1] = Innermost
        /\ Len(walk) # 1 => FrameEnds(walk, Len(walk), FALSE)
    BY <1>1, WalkingIs
  <1>4. Outcome(r) /\ \A nest \in Nat : Owes(r, ItemEnd(Here.ptr, nest + 1), nest)
    BY <1>1, <1>2, <1>3, EnterOutcome, EnterEnds
  <1> HIDE DEF r
  <1> PICK n : n = Len(walk)
    OBVIOUS
  <1> PICK nest : nest = MAX_RECURSIONS - n
    OBVIOUS
  <1>5. nest \in Nat /\ nest + 1 = MAX_RECURSIONS + 1 - n
    BY <1>1, <1>2
  <1>6. Owes(r, ItemEnd(Here.ptr, nest + 1), nest)
    BY <1>4, <1>5
  <1>7. CASE r.err # "ok"
    <2>1. ItemEnd(Here.ptr, nest + 1) = Malformed
      BY <1>6, <1>7 DEF Owes
    <2>2. ItemEnd(Here.ptr, MAX_RECURSIONS + 1 - Len(walk)) = Malformed
      BY <1>5, <2>1
    <2> QED
      BY <1>1, <1>7, <2>2, CourseStopped
  <1>8. CASE r.err = "ok"
    <2>1. /\ walk' = Append(walk, r.it) /\ UNCHANGED callVars /\ phase' = "walk"
          /\ r.it \in Ready /\ r.it \in Placed
      BY <1>1, <1>3, <1>4, <1>8 DEF Outcome
    <2> PICK w : w = walk
      OBVIOUS
    <2> PICK g : g = walk'
      OBVIOUS
    <2> PICK c : c = Innermost
      OBVIOUS
    <2>2. Len(g) = n + 1 /\ g[n + 1] = r.it /\ \A i \in 1 .. n : g[i] = w[i]
      BY <1>2, <2>1, LastAppended
    <2>3. w[n].type # "tag" /\ w[n].remaining # 0
      BY <1>1, <1>2, <1>3 DEF IsContainer, ContainerMajors
    <2>4. ContainerEnd(g[n + 1], FALSE, nest) = ItemEnd(w[n].ptr, nest + 1)
      BY <1>2, <1>6, <1>8, <2>2 DEF Owes
    <2>5. Walked(g, w[1])
      <3>1. /\ n \in Nat \ {0} /\ Len(w) = n /\ Frames(w) /\ (n # 1 => FrameEnds(w, n, FALSE))
            /\ g[n + 1] \in Ready
        BY <1>2, <1>3, <2>1, <2>2
      <3> QED
        BY <1>2, <2>2, <2>3, <2>4, <3>1, FramesPushed
    <2>6. Walked(g, c)'
      <3>1. Walked(g, c)
        BY <1>3, <2>5
      <3> QED
        BY <1>2, <3>1, WalkStays
    <2>7. NavInv'
      BY <1>2, WalkContainerStep DEF Walks
    <2>8. ScanCourse' /\ WalkCourse' /\ Advancing' /\ phase' # "scan"
      <3>1. Innermost' = Innermost
        BY <2>1 DEF Innermost, Last, callVars
      <3> QED
        BY <2>1, <2>6, <3>1 DEF ScanCourse, WalkCourse, Advancing
    <2>9. CourseInv'
      BY <1>2, <2>1, <2>7, <2>8, AdvanceGoesOn
    <2> QED
      BY <2>1, <2>9
  <1> QED
    BY <1>7, <1>8

(* A container has ended: the walk is past the item around it. *)
LEMMA CourseWalkOut ==
  ASSUME CourseInv, Walks, WalkOut
  PROVE  CourseInv' /\ (phase' = "client" => Answered)
  <1> PICK n : n = Len(walk)
    OBVIOUS
  <1> PICK w : w = walk
    OBVIOUS
  <1> PICK f : f = Front(walk)
    OBVIOUS
  <1> DEFINE outer == w[n - 1]
             at == ResumeAt(Here)
             r == LeaveContainer(outer, Here)
  <1>1. /\ phase = "walk" /\ n > 1 /\ Here.type = "invalid" /\ ReturnFrom(f, r)
    BY DEF WalkOut, AtLoopEnd
  <1>2. /\ NavInv /\ buf \in Seq(Byte) /\ OpenFrames(walk) /\ n \in Nat \ {0}
        /\ n <= MAX_RECURSIONS + 1 /\ Here = w[n] /\ MAX_RECURSIONS \in Nat
        /\ w \in Seq(Placed) /\ Len(w) = n
    BY WalksIs
  <1>3. Walked(walk, Innermost)
    BY <1>1 DEF CourseInv, WalkCourse
  <1>4. Frames(w) /\ w[1] = Innermost /\ FrameEnds(w, n, FALSE)
    BY <1>1, <1>3 DEF Walked
  <1>5. Here \in Stood /\ Here.remaining = 0
    BY <1>1, <1>2, StoodType DEF NavInv, WalkInv
  <1>6. outer \in Placed /\ outer \in Cursors /\ outer.remaining # 0 /\ outer.type # "tag"
    <2>1. n - 1 \in 1 .. n - 1 /\ n - 1 \in 1 .. n
      BY <1>1, <1>2
    <2>2. w[n - 1] \in Placed
      BY <1>2, <2>1, ElementOfSeq
    <2>3. w[n - 1].remaining # 0 /\ w[n - 1].type # "tag"
      BY <1>2, <1>4, <2>1 DEF Frames
    <2> QED
      BY <2>2, <2>3 DEF Placed
  <1>7. at \in 1 .. Limit
    BY <1>2, <1>5, StoodIs, ResumeProperties
  <1>8. ItemEnd(outer.ptr, MAX_RECURSIONS + 2 - n) = at
    <2>1. ContainerEnd(Here, FALSE, MAX_RECURSIONS + 1 - n) = at
      BY <1>5 DEF ContainerEnd
    <2> QED
      BY <1>2, <1>4, <2>1 DEF FrameEnds
  <1>9. Outcome(r)
    BY <1>2, <1>5, <1>6, LeaveOutcome
  <1>10. r = PreparseNext([outer EXCEPT !.ptr = at])
    BY DEF LeaveContainer
  <1> PICK m : m = n - 1
    OBVIOUS
  <1>11. /\ f \in Seq(Placed) /\ Len(f) = m /\ m \in Nat \ {0} /\ m <= MAX_RECURSIONS + 1
         /\ \A i \in 1 .. m : f[i] = w[i]
         /\ MAX_RECURSIONS + 2 - n = MAX_RECURSIONS + 1 - m
    <2>1. m \in Nat \ {0} /\ m <= MAX_RECURSIONS + 1 /\ MAX_RECURSIONS + 2 - n = MAX_RECURSIONS + 1 - m
      BY <1>1, <1>2
    <2>2. w # << >>
      BY <1>1, <1>2
    <2> HIDE DEF outer, at, r
    <2>3. Front(w) \in Seq(Placed) /\ Len(Front(w)) = n - 1 /\ \A i \in 1 .. n - 1 : Front(w)[i] = w[i]
      BY <1>2, <2>2, FrontIs
    <2> QED
      BY <2>1, <2>3
  <1>12. OpenFrames(f)
    <2>1. f # << >>
      BY <1>11
    <2>2. \A i \in 1 .. m - 1 : f[i].remaining # 0
      BY <1>2, <1>11 DEF OpenFrames
    <2> QED
      BY <1>11, <2>1, <2>2 DEF OpenFrames
  <1>13. f[1] = Innermost /\ f[m] = outer
    BY <1>4, <1>11
  <1>14. Frames(f)
    <2>1. \A k \in 1 .. m - 1 : f[k].type # "tag" /\ f[k].remaining # 0
      BY <1>2, <1>4, <1>11 DEF Frames
    <2>2. ASSUME NEW k \in 2 .. m - 1 PROVE FrameEnds(f, k, FALSE)
      <3>1. k \in 1 .. m /\ k - 1 \in 1 .. m /\ k \in 2 .. n - 1
        BY <1>11
      <3>2. FrameEnds(w, k, FALSE) /\ f[k] = w[k] /\ f[k - 1] = w[k - 1]
        BY <1>2, <1>4, <1>11, <3>1 DEF Frames
      <3> QED
        BY <3>2 DEF FrameEnds
    <2> QED
      BY <1>11, <2>1, <2>2 DEF Frames
  <1>15. m = 1 => Answers(r, Innermost)
    <2> SUFFICES ASSUME m = 1 PROVE Answers(r, Innermost)
      OBVIOUS
    <2>1. Innermost = outer /\ MAX_RECURSIONS + 2 - n = MAX_RECURSIONS
      BY <1>2, <1>11, <1>13
    <2>2. ItemEnd(Innermost.ptr, MAX_RECURSIONS) = at /\ Innermost.type # "tag"
      BY <1>6, <1>8, <2>1
    <2> HIDE DEF at, outer
    <2>3. Owed(Innermost) = PreparseNext([Innermost EXCEPT !.ptr = at])
      BY <1>7, <2>2 DEF Owed, Malformed
    <2>4. r = Owed(Innermost)
      BY <1>10, <2>1, <2>3
    <2> HIDE DEF r
    <2> QED
      BY <2>4 DEF Answers
  <1> PICK nest : nest = MAX_RECURSIONS + 1 - m
    OBVIOUS
  <1>16. m # 1 => Owes(r, ItemEnd(f[m - 1].ptr, MAX_RECURSIONS + 2 - m), nest)
    <2> SUFFICES ASSUME m # 1 PROVE Owes(r, ItemEnd(f[m - 1].ptr, MAX_RECURSIONS + 2 - m), nest)
      OBVIOUS
    <2>1. FrameEnds(w, m, FALSE) /\ nest \in Nat /\ f[m] = w[m] /\ f[m - 1] = w[m - 1]
      <3>1. m \in 2 .. n - 1 /\ m - 1 \in 1 .. m /\ m \in 1 .. m
        BY <1>2, <1>11
      <3>2. nest \in Nat
        BY <1>2, <1>11
      <3> QED
        BY <1>2, <1>4, <1>11, <3>1, <3>2 DEF Frames
    <2>2. ContainerEnd(outer, FALSE, nest) = ItemEnd(f[m - 1].ptr, MAX_RECURSIONS + 2 - m)
      BY <1>13, <2>1 DEF FrameEnds
    <2> HIDE DEF at, outer
    <2>3. ItemEnd(outer.ptr, nest) = at
      BY <1>8, <1>11
    <2>4. ContainerEnd(outer, FALSE, nest) = AfterThis(at, outer, nest)
      BY <1>6, <2>3 DEF ContainerEnd, ThisEnd
    <2>5. Owes(r, AfterThis(at, outer, nest), nest)
      BY <1>2, <1>6, <1>7, <1>10, <2>1, MovedOwes
    <2> QED
      BY <2>2, <2>4, <2>5
  <1> HIDE DEF r
  <1>17. Len(f) # 1 =>
           Owes(r, ItemEnd(f[Len(f) - 1].ptr, MAX_RECURSIONS + 2 - Len(f)),
                MAX_RECURSIONS + 1 - Len(f))
    BY <1>11, <1>16
  <1>18. Len(f) = 1 => Answers(r, Innermost)
    BY <1>11, <1>15
  <1> QED
    BY <1>1, <1>9, <1>12, <1>13, <1>14, <1>17, <1>18, CourseReturns

-----------------------------------------------------------------------------
(* Every step. *)
LEMMA CourseAdvance ==
  ASSUME CourseInv, AdvanceStep
  PROVE  CourseInv' /\ (phase' = "client" => Answered)
  <1>1. CASE Scanning
    <2>1. phase' # "client"
      BY <1>1 DEF Scanning, walkVars
    <2> QED
      BY <1>1, <2>1, CourseScanning
  <1>2. CASE ScanAnswered
    <2>1. Advancing
      BY <1>2 DEF ScanAnswered, Advancing
    <2> QED
      BY <1>2, <2>1, ScanAnswers, AnsweredCourse
  <1>3. CASE ScanGaveUp
    <2>1. phase' # "client"
      BY <1>3 DEF ScanGaveUp
    <2> QED
      BY <1>3, <2>1, CourseScanGaveUp
  <1>4. CASE WalkStep
    <2>1. Walks
      BY <1>4 DEF WalkStep, Walks, WalkFixed, WalkIntoString, WalkChunk, WalkTooDeep,
                  WalkIntoContainer, WalkOut, Walking
    <2> QED
      BY <1>4, <2>1, CourseWalkFixed, CourseWalkIntoString, CourseWalkChunk, CourseWalkTooDeep,
         CourseWalkInto, CourseWalkOut DEF WalkStep
  <1> QED
    BY <1>1, <1>2, <1>3, <1>4 DEF AdvanceStep

LEMMA CourseStutter ==
  ASSUME CourseInv, UNCHANGED vars PROVE CourseInv'
  <1>1. /\ buf' = buf /\ reader' = reader /\ cursors' = cursors /\ err' = err
        /\ phase' = phase /\ walk' = walk /\ UNCHANGED scanVars
        /\ p' = p /\ cur' = cur /\ stack' = stack /\ afterTag' = afterTag
        /\ chunks' = chunks /\ scan' = scan
    BY DEF vars, scanVars
  <1>2. buf \in Seq(Byte) /\ NavInv /\ Innermost' = Innermost
    BY <1>1 DEF CourseInv, NavInv, CursorsInv, Innermost, Last
  <1>3. NavInv'
    BY <1>2, NavStutter
  <1> PICK t : t = cursors
    OBVIOUS
  <1> PICK c : c = Innermost
    OBVIOUS
  <1> PICK w : w = walk
    OBVIOUS
  <1>4. StackCourse'
    <2> PICK iterating : iterating = (phase = "string")
      OBVIOUS
    <2>1. Unfailed => Stacked(t, iterating)
      BY DEF CourseInv, StackCourse
    <2>2. Unfailed => Stacked(t, iterating)'
      BY <1>1, <1>2, <2>1, StackStays
    <2>3. Unfailed' <=> Unfailed
      BY <1>1 DEF Unfailed, InString
    <2>4. iterating = (phase' = "string")
      BY <1>1
    <2> QED
      BY <1>1, <2>2, <2>3, <2>4 DEF StackCourse
  <1>5. ErrorCourse'
    BY <1>1, <1>2, EndsStay DEF CourseInv, ErrorCourse, Unfailed, InString
  <1>6. CallCourse'
    <2>1. (Iterated(c)' <=> Iterated(c)) /\ (ChunksOver(c)' <=> ChunksOver(c))
      BY <1>1, <1>2, StringsStay
    <2>2. (Iterated(Innermost)' <=> Iterated(Innermost))
          /\ (ChunksOver(Innermost)' <=> ChunksOver(Innermost))
      BY <1>2, <2>1
    <2> QED
      BY <1>1, <1>2, <2>2, SetsStay DEF CourseInv, CallCourse, Busy
  <1>7. WalkCourse'
    <2>1. (Walked(w, c)' <=> Walked(w, c)) /\ (Chunked(w, c)' <=> Chunked(w, c))
      BY <1>1, <1>2, WalkStays
    <2> QED
      BY <1>1, <1>2, <2>1 DEF CourseInv, WalkCourse
  <1>8. ScanCourse'
    <2>1. ItemEnd(c.ptr, MAX_RECURSIONS)' = ItemEnd(c.ptr, MAX_RECURSIONS)
      BY <1>1, <1>2, EndsStay
    <2>2. ScanOn(c) => ScanOn(c)'
      <3> SUFFICES ASSUME ScanOn(c) PROVE ScanOn(c)'
        OBVIOUS
      <3>1. Chain(c.ptr, MAX_RECURSIONS) /\ MAX_RECURSIONS \in Nat
        BY AdvanceAssumption DEF ScanOn
      <3> PICK start : start = c.ptr
        OBVIOUS
      <3> PICK nest : nest = MAX_RECURSIONS - Len(stack)
        OBVIOUS
      <3> PICK q, level, k : q = p /\ level = cur /\ k = chunks
        OBVIOUS
      <3>2. CurEnd(nest)' = CurEnd(nest)
        BY <1>1, <1>2, CurEndNext DEF CurEnd
      <3>3. Chain(start, MAX_RECURSIONS)'
        BY <1>1, <1>2, <3>1, <3>2, ChainSame
      <3>4. (Len(stack) < p /\ Grounded /\ (afterTag => ~Finished(cur) /\ chunks = "none"))'
        BY <1>1 DEF ScanOn, Grounded, Finished
      <3> QED
        BY <3>3, <3>4 DEF ScanOn
    <2> QED
      BY <1>1, <1>2, <2>1, <2>2 DEF CourseInv, ScanCourse, ScanOn, Chain
  <1> QED
    BY <1>3, <1>4, <1>5, <1>6, <1>7, <1>8 DEF CourseInv

LEMMA CourseNextInv == CourseInv /\ [Next]_vars => CourseInv'
  <1> SUFFICES ASSUME CourseInv, [Next]_vars PROVE CourseInv'
    OBVIOUS
  <1>1. CASE UNCHANGED vars
    BY <1>1, CourseStutter
  <1>2. CASE AdvanceStep
    BY <1>2, CourseAdvance
  <1>3. CASE SkipTagTurn
    BY <1>3, CourseSkipTagTurn
  <1>4. CASE ClientAdvance
    <2>1. Idle /\ (AdvancePastEnd \/ CallAdvance) /\ UNCHANGED << buf, reader >>
      BY <1>4 DEF ClientAdvance
    <2>2. CASE AdvancePastEnd
      <3>1. NavInv'
        BY <2>1, <2>2, PastEndStep DEF CourseInv
      <3> QED
        BY <2>1, <2>2, <3>1, CoursePastEnd
    <2>3. CASE CallAdvance
      BY <2>1, <2>3, CourseCallAdvance
    <2> QED
      BY <2>1, <2>2, <2>3
  <1>5. CASE AdvanceFixed
    BY <1>5, CourseFixed
  <1>6. CASE CallSkipTag
    BY <1>6, CourseCallSkipTag
  <1>7. CASE ClientEnter
    BY <1>7, CourseEnter
  <1>8. CASE ClientLeave
    BY <1>8, CourseLeave
  <1>9. CASE BeginString
    BY <1>9, CourseBegin
  <1>10. CASE GetStringChunk
    BY <1>10, CourseChunk
  <1>11. CASE FinishString
    BY <1>11, CourseFinish
  <1> QED
    BY <1>1, <1>2, <1>3, <1>4, <1>5, <1>6, <1>7, <1>8, <1>9, <1>10, <1>11 DEF Next, Library

(* The item the parser begins with is the document. *)
LEMMA FirstEnds ==
  ASSUME buf \in Seq(Byte), NEW c, c.ptr = 1, c.remaining = 1, NEW nest \in Nat
  PROVE  ContainerEnd(c, FALSE, nest) = ItemEnd(1, nest)
  <1> DEFINE e == ItemEnd(1, nest)
  <1>1. 1 \in 1 .. Limit
    BY BufferType
  <1>2. e # Malformed => e \in 1 .. Limit
    BY <1>1, ItemEndIs
  <1>3. ContainerEnd(c, FALSE, nest) = AfterThis(e, c, nest)
    BY DEF ContainerEnd, ThisEnd
  <1> HIDE DEF e
  <1>4. U32Max # 1
    BY CursorAssumption
  <1>5. e # Malformed => ItemsEnd(e, 0, nest) = e
    BY <1>2, ItemsEndIs
  <1>6. AfterThis(e, c, nest) = IF e = Malformed THEN Malformed ELSE ItemsEnd(e, 0, nest)
    BY <1>4 DEF AfterThis
  <1> QED
    BY <1>3, <1>5, <1>6 DEF e

LEMMA CourseInitInv == Init => CourseInv
  <1> SUFFICES ASSUME Init PROVE CourseInv
    OBVIOUS
  <1> DEFINE c == ParserInit.it
  <1>1. NavInv /\ buf \in Seq(Byte)
    BY NavInitInv DEF NavInv, CursorsInv
  <1>2. c.ptr = 1 /\ c.remaining = 1
    BY <1>1, ParserInitProperties
  <1>3. /\ cursors = << c >> /\ err = ParserInit.err /\ phase = "client" /\ walk = << >>
    BY DEF Init
  <1>4. ParserInit.err # "ok" => ~WholeAt(1)
    <2>1. Start \in Cursors /\ Within(Start) /\ Start.ptr = 1
      BY <1>1, StartType, BufferType DEF Within, Start
    <2> QED
      BY <1>1, <2>1, ValueIs DEF ParserInit
  <1> HIDE DEF c
  <1>5. Len(cursors) = 1 /\ cursors[1] = c /\ Last(cursors) = c
    BY <1>3 DEF Last
  <1>6. Stacked(cursors, FALSE)
    <2>1. /\ ContainerEnd(c, FALSE, Unlimited) = ItemEnd(1, Unlimited)
          /\ ContainerEnd(c, FALSE, MAX_RECURSIONS) = ItemEnd(1, MAX_RECURSIONS)
      BY <1>1, <1>2, Limits, FirstEnds
    <2>2. EndsAt(c, FALSE, 1)
      BY <2>1 DEF EndsAt
    <2>3. Nested(cursors)
      BY <1>5 DEF Nested
    <2>4. Rooted(c)
      BY <1>2 DEF Rooted
    <2>5. Opening(cursors, 1) = 1
      BY DEF Opening
    <2> QED
      BY <1>5, <2>2, <2>3, <2>4, <2>5 DEF Stacked
  <1>7. StackCourse
    <2>1. FALSE = (phase = "string")
      BY <1>3
    <2> QED
      BY <1>6, <2>1 DEF StackCourse
  <1>8. ErrorCourse
    <2>1. ~WholeAt(1) => ItemEnd(1, MAX_RECURSIONS) = Malformed
      BY <1>1, Limits, BufferType, NoHeadNoItem
    <2> QED
      BY <1>3, <1>4, <2>1 DEF ErrorCourse, Unfailed
  <1>9. CallCourse /\ ScanCourse /\ WalkCourse
    BY <1>3 DEF CallCourse, ScanCourse, WalkCourse, Busy
  <1> QED
    BY <1>1, <1>7, <1>8, <1>9 DEF CourseInv

LEMMA CourseInvariant == Spec => []CourseInv
  BY CourseInitInv, CourseNextInv, PTL DEF Spec

-----------------------------------------------------------------------------
(* The frames of the walk go on in the same containers too if nesting is   *)
(* not counted: what the walk does before it comes too deep.               *)
FarEnds(w, k, inside) ==
  ContainerEnd(w[k], inside, Unlimited) = ItemEnd(w[k - 1].ptr, Unlimited)
FarOut(w, k) == FarEnds(w, k, FALSE)
FarIn(w, k) == FarEnds(w, k, TRUE)
Afar(w, inside) ==
  /\ \A k \in 2 .. Len(w) - 1 : FarOut(w, k)
  /\ Len(w) > 1 => IF inside THEN FarIn(w, Len(w)) ELSE FarOut(w, Len(w))
AfarCourse == Afar(walk, phase = "chunks")

LEMMA AfarStays ==
  ASSUME buf \in Seq(Byte), buf' = buf
  PROVE  \A w, inside : Afar(w, inside)' <=> Afar(w, inside)
  <1>1. \A w, k : FarIn(w, k)' <=> FarIn(w, k)
    BY EndsStay DEF FarIn, FarEnds
  <1>2. \A w, k : FarOut(w, k)' <=> FarOut(w, k)
    BY EndsStay DEF FarOut, FarEnds
  <1> QED
    BY <1>1, <1>2 DEF Afar

(* The innermost frame is replaced, ... *)
LEMMA AfarReplaced ==
  ASSUME NEW w \in Seq(Placed), w # << >>, NEW inside \in BOOLEAN, Afar(w, inside),
         NEW d \in Placed, NEW after \in BOOLEAN,
         ContainerEnd(d, after, Unlimited) = ContainerEnd(Last(w), inside, Unlimited)
  PROVE  Afar([w EXCEPT ![Len(w)] = d], after)
  <1> PICK g : g = [w EXCEPT ![Len(w)] = d]
    OBVIOUS
  <1> PICK n : n = Len(w)
    OBVIOUS
  <1>1. n \in Nat \ {0} /\ Len(g) = n /\ g[n] = d /\ \A i \in 1 .. n - 1 : g[i] = w[i]
    BY LastReplaced, LastIs
  <1>2. ASSUME NEW k \in 2 .. n - 1 PROVE FarOut(g, k)
    <2>1. FarOut(w, k) /\ g[k] = w[k] /\ g[k - 1] = w[k - 1]
      BY <1>1 DEF Afar
    <2> QED
      BY <2>1 DEF FarOut, FarEnds
  <1>3. ASSUME n > 1 PROVE IF after THEN FarIn(g, n) ELSE FarOut(g, n)
    <2>1. /\ IF inside THEN FarIn(w, n) ELSE FarOut(w, n)
          /\ g[n - 1] = w[n - 1] /\ Last(w) = w[n]
      BY <1>1, <1>3 DEF Afar, Last
    <2>2. ContainerEnd(w[n], inside, Unlimited) = ItemEnd(w[n - 1].ptr, Unlimited)
      <3>1. CASE inside = TRUE
        BY <2>1, <3>1 DEF FarIn, FarEnds
      <3>2. CASE inside = FALSE
        BY <2>1, <3>2 DEF FarOut, FarEnds
      <3> QED
        BY <3>1, <3>2
    <2>3. ContainerEnd(g[n], after, Unlimited) = ItemEnd(g[n - 1].ptr, Unlimited)
      BY <1>1, <2>1, <2>2
    <2>4. CASE after = TRUE
      BY <2>3, <2>4 DEF FarIn, FarEnds
    <2>5. CASE after = FALSE
      BY <2>3, <2>5 DEF FarOut, FarEnds
    <2> QED
      BY <2>4, <2>5
  <1>4. Afar(g, after)
    BY <1>1, <1>2, <1>3 DEF Afar
  <1> QED
    BY <1>4

(* ... has another put on top of it, ... *)
LEMMA AfarPushed ==
  ASSUME NEW w \in Seq(Placed), w # << >>, Afar(w, FALSE), NEW d \in Placed,
         ContainerEnd(d, FALSE, Unlimited) = ItemEnd(Last(w).ptr, Unlimited)
  PROVE  Afar(Append(w, d), FALSE)
  <1> PICK g : g = Append(w, d)
    OBVIOUS
  <1> PICK n : n = Len(w)
    OBVIOUS
  <1>1. n \in Nat \ {0} /\ Len(g) = n + 1 /\ g[n + 1] = d /\ \A i \in 1 .. n : g[i] = w[i]
    BY LastAppended, LastIs
  <1>2. ASSUME NEW k \in 2 .. n PROVE FarOut(g, k)
    <2>1. k \in 2 .. n - 1 \/ k = n
      OBVIOUS
    <2>2. FarOut(w, k)
      BY <1>1, <2>1 DEF Afar
    <2>3. g[k] = w[k] /\ g[k - 1] = w[k - 1]
      BY <1>1
    <2> QED
      BY <2>2, <2>3 DEF FarOut, FarEnds
  <1>3. FarOut(g, n + 1)
    <2>1. (n + 1) - 1 = n /\ g[n] = Last(w)
      BY <1>1 DEF Last
    <2> QED
      BY <1>1, <2>1 DEF FarOut, FarEnds
  <1>4. Afar(g, FALSE)
    BY <1>1, <1>2, <1>3 DEF Afar
  <1> QED
    BY <1>4

(* ... or is taken away. *)
LEMMA AfarTaken ==
  ASSUME NEW w \in Seq(Placed), NEW inside \in BOOLEAN, Afar(w, inside), Len(w) > 1
  PROVE  Afar(Front(w), FALSE)
  <1> PICK f : f = Front(w)
    OBVIOUS
  <1> PICK n : n = Len(w)
    OBVIOUS
  <1>1. w # << >> /\ n \in Nat \ {0, 1}
    BY EmptySeq, LenProperties
  <1>2. Len(f) = n - 1 /\ \A i \in 1 .. n - 1 : f[i] = w[i]
    BY <1>1, FrontIs
  <1>3. ASSUME NEW k \in 2 .. n - 1 PROVE FarOut(f, k)
    <2>1. FarOut(w, k) /\ f[k] = w[k] /\ f[k - 1] = w[k - 1]
      BY <1>1, <1>2 DEF Afar
    <2> QED
      BY <2>1 DEF FarOut, FarEnds
  <1>4. Afar(f, FALSE)
    BY <1>1, <1>2, <1>3 DEF Afar
  <1> QED
    BY <1>4

(* A level of the recursion returns, or they all do. *)
LEMMA AfarReturns ==
  ASSUME buf \in Seq(Byte), buf' = buf, NEW w \in Seq(Placed), w # << >>,
         NEW inside \in BOOLEAN, Afar(w, inside), NEW r, r.it \in Placed,
         r.err = "ok" => ContainerEnd(r.it, FALSE, Unlimited) = ContainerEnd(Last(w), inside, Unlimited),
         ReturnFrom(w, r), phase' \in {"walk", "chunks"}
  PROVE  AfarCourse'
  <1>1. r.err = "ok" /\ phase' = "walk" /\ walk' = [w EXCEPT ![Len(w)] = r.it]
    BY DEF ReturnFrom, ReturnToClient
  <1> PICK g : g = walk'
    OBVIOUS
  <1>2. Afar(g, FALSE)
    BY <1>1, AfarReplaced
  <1>3. Afar(g, FALSE)'
    BY <1>2, AfarStays
  <1>4. FALSE = (phase' = "chunks")
    BY <1>1
  <1> QED
    BY <1>3, <1>4 DEF AfarCourse

LEMMA AfarWalk ==
  ASSUME CourseInv, AfarCourse, Walks, WalkStep, phase' \in {"walk", "chunks"}
  PROVE  AfarCourse'
  <1>1. /\ NavInv /\ buf \in Seq(Byte) /\ buf' = buf /\ walk \in Seq(Placed) /\ walk # << >>
        /\ Len(walk) \in Nat \ {0} /\ Here = walk[Len(walk)] /\ Here = Last(walk) /\ Here \in Placed
    BY WalksIs DEF OpenFrames, Here
  <1>2. ASSUME phase = "walk" PROVE Afar(walk, FALSE)
    <2>1. FALSE = (phase = "chunks")
      BY <1>2
    <2> QED
      BY <2>1 DEF AfarCourse
  <1>3. ASSUME phase = "chunks" PROVE Afar(walk, TRUE)
    <2>1. TRUE = (phase = "chunks")
      BY <1>3
    <2> QED
      BY <2>1 DEF AfarCourse
  <1>4. ASSUME Walking
        PROVE  phase = "walk" /\ Here \in Ready /\ Here \in Stood /\ Here.remaining # 0
               /\ Here \in Cursors /\ HeadRead(Here)
    BY <1>4, WalkingIs
  <1>5. CASE WalkFixed
    <2> DEFINE r == AdvanceInternal(Here)
    <2>1. Walking /\ ~IsString(Here) /\ ~IsContainer(Here) /\ ReturnFrom(walk, r)
      BY <1>5 DEF WalkFixed
    <2>2. Outcome(r) /\ Continues(r, Here, FALSE)
      BY <1>1, <1>4, <2>1, AdvanceOutcome, FixedContinues
    <2> HIDE DEF r
    <2>3. r.err = "ok" => ContainerEnd(r.it, FALSE, Unlimited) = ContainerEnd(Last(walk), FALSE, Unlimited)
      BY <1>1, <2>2 DEF Continues, Follows
    <2> QED
      BY <1>1, <1>2, <1>4, <2>1, <2>2, <2>3, AfarReturns DEF Outcome
  <1>6. ASSUME NEW d \in Placed, walk' = [walk EXCEPT ![Len(walk)] = d], phase' = "chunks",
               NEW inside \in BOOLEAN, Afar(walk, inside), Follows(d, TRUE, Here, inside)
        PROVE  AfarCourse'
    <2> PICK g : g = walk'
      OBVIOUS
    <2>1. ContainerEnd(d, TRUE, Unlimited) = ContainerEnd(Last(walk), inside, Unlimited)
      BY <1>1, <1>6 DEF Follows
    <2>2. Afar(g, TRUE)
      BY <1>1, <1>6, <2>1, AfarReplaced
    <2>3. Afar(g, TRUE)'
      BY <1>1, <2>2, AfarStays
    <2>4. TRUE = (phase' = "chunks")
      BY <1>6
    <2> QED
      BY <2>3, <2>4 DEF AfarCourse
  <1>7. CASE WalkIntoString
    <2> DEFINE d == BeginStringIteration(Here)
    <2>1. Walking /\ IsString(Here) /\ phase' = "chunks" /\ walk' = [walk EXCEPT ![Len(walk)] = d]
      BY <1>7 DEF WalkIntoString
    <2>2. Iterated(d) /\ Follows(d, TRUE, Here, FALSE)
      BY <1>1, <1>4, <2>1, BeginFollows
    <2> HIDE DEF d
    <2>3. d \in Placed
      BY <2>2 DEF Iterated, Placed
    <2> QED
      BY <1>2, <1>4, <1>6, <2>1, <2>2, <2>3
  <1>8. CASE WalkChunk
    <2> DEFINE chunk == GetChunk(Here)
               r == FinishStringIteration(Here)
    <2>1. /\ phase = "chunks"
          /\ chunk.err = "no_more_chunks" => ReturnFrom(walk, r)
          /\ chunk.err = "ok" => walk' = [walk EXCEPT ![Len(walk)] = chunk.it] /\ phase' = "chunks"
          /\ chunk.err \notin {"ok", "no_more_chunks"} => ReturnFrom(walk, chunk)
      BY <1>8 DEF WalkChunk
    <2>2. Iterated(Here) /\ Here.remaining # 0 /\ Afar(walk, TRUE)
      BY <1>3, <2>1, ChunksIs
    <2>3. /\ chunk.err = "ok" => Follows(chunk.it, TRUE, Here, TRUE)
          /\ chunk.err = "no_more_chunks" => ChunksOver(Here)
          /\ chunk.it \in Placed
          /\ chunk.err = "no_more_chunks" => Here \in Ending
      BY <1>1, <2>2, ChunkFollows, ChunkOutcome
    <2> HIDE DEF chunk
    <2>4. CASE chunk.err = "no_more_chunks"
      <3>1. Outcome(r) /\ Continues(r, Here, TRUE)
        BY <1>1, <2>2, <2>3, <2>4, FinishContinues, FinishOutcome
      <3> HIDE DEF r
      <3>2. r.err = "ok" =>
              ContainerEnd(r.it, FALSE, Unlimited) = ContainerEnd(Last(walk), TRUE, Unlimited)
        BY <1>1, <3>1 DEF Continues, Follows
      <3> QED
        BY <1>1, <2>1, <2>2, <2>4, <3>1, <3>2, AfarReturns DEF Outcome
    <2>5. CASE chunk.err = "ok"
      BY <1>6, <2>1, <2>2, <2>3, <2>5
    <2>6. CASE chunk.err \notin {"ok", "no_more_chunks"}
      BY <1>1, <2>1, <2>2, <2>3, <2>6, AfarReturns
    <2> QED
      BY <2>4, <2>5, <2>6
  <1>9. ASSUME NEW e, e # "ok", ReturnFrom(walk, Result(e, Here)) PROVE FALSE
    BY <1>9 DEF ReturnFrom, ReturnToClient, Result
  <1>10. CASE WalkTooDeep
    BY <1>9, <1>10 DEF WalkTooDeep
  <1>11. CASE WalkIntoContainer
    <2> DEFINE r == EnterContainer(Here)
    <2>1. /\ Walking /\ IsContainer(Here)
          /\ r.err # "ok" => ReturnFrom(walk, Result(r.err, Here))
          /\ r.err = "ok" => walk' = Append(walk, r.it) /\ phase' = phase
      BY <1>11 DEF WalkIntoContainer
    <2>2. Outcome(r) /\ (r.err = "ok" => ContainerEnd(r.it, FALSE, Unlimited) = ItemEnd(Here.ptr, Unlimited))
      BY <1>1, <1>4, <2>1, EnterOutcome, EnterEnds
    <2> HIDE DEF r
    <2>3. r.err = "ok" /\ walk' = Append(walk, r.it) /\ phase' = "walk" /\ r.it \in Placed
      BY <1>4, <1>9, <2>1, <2>2 DEF Outcome
    <2> PICK g : g = walk'
      OBVIOUS
    <2>4. Afar(g, FALSE)
      BY <1>1, <1>2, <1>4, <2>1, <2>2, <2>3, AfarPushed
    <2>5. Afar(g, FALSE)'
      BY <1>1, <2>4, AfarStays
    <2>6. FALSE = (phase' = "chunks")
      BY <2>3
    <2> QED
      BY <2>5, <2>6 DEF AfarCourse
  <1>12. CASE WalkOut
    <2> PICK n : n = Len(walk)
      OBVIOUS
    <2> PICK f : f = Front(walk)
      OBVIOUS
    <2> DEFINE outer == walk[n - 1]
               at == ResumeAt(Here)
               r == LeaveContainer(outer, Here)
    <2>1. phase = "walk" /\ n > 1 /\ Here.type = "invalid" /\ ReturnFrom(f, r)
      BY <1>12 DEF WalkOut, AtLoopEnd
    <2>2. Here \in Stood /\ Here.remaining = 0 /\ Afar(walk, FALSE)
      BY <1>1, <1>2, <2>1, StoodType DEF NavInv, WalkInv
    <2>3. outer \in Placed /\ outer \in Cursors /\ outer.remaining # 0 /\ outer.type # "tag"
      <3>1. n - 1 \in 1 .. n - 1 /\ n - 1 \in 1 .. n
        BY <1>1, <2>1
      <3>2. walk[n - 1] \in Placed
        BY <1>1, <3>1, ElementOfSeq
      <3>3. Frames(walk)
        BY <2>1 DEF CourseInv, WalkCourse, Walked
      <3> QED
        BY <3>1, <3>2, <3>3 DEF Placed, Frames
    <2>4. at \in 1 .. Limit
      BY <1>1, <2>2, StoodIs, ResumeProperties
    <2>5. at = ItemEnd(outer.ptr, Unlimited)
      <3>1. ContainerEnd(Here, FALSE, Unlimited) = at
        BY <2>2 DEF ContainerEnd
      <3>2. FarOut(walk, n)
        BY <2>1, <2>2 DEF Afar
      <3> QED
        BY <1>1, <3>1, <3>2 DEF FarOut, FarEnds
    <2>6. Outcome(r)
      BY <1>1, <2>2, <2>3, LeaveOutcome
    <2>7. r = PreparseNext([outer EXCEPT !.ptr = at])
      BY DEF LeaveContainer
    <2>8. /\ f \in Seq(Placed) /\ f # << >> /\ Last(f) = outer /\ Afar(f, FALSE)
      <3>1. /\ f \in Seq(Placed) /\ Len(f) = n - 1 /\ \A i \in 1 .. n - 1 : f[i] = walk[i]
        BY <1>1, FrontIs
      <3>2. n - 1 \in 1 .. n - 1 /\ n - 1 # 0
        BY <1>1, <2>1
      <3>3. Afar(f, FALSE)
        BY <1>1, <2>1, <2>2, AfarTaken
      <3> QED
        BY <3>1, <3>2, <3>3 DEF Last
    <2> HIDE DEF at, outer
    <2>9. Continues(r, outer, FALSE)
      <3>1. Within(outer)
        BY <2>3 DEF Placed
      <3> QED
        BY <1>1, <2>3, <2>4, <2>5, <2>7, <3>1, LeaveContinues
    <2> HIDE DEF r
    <2>10. r.err = "ok" => ContainerEnd(r.it, FALSE, Unlimited) = ContainerEnd(Last(f), FALSE, Unlimited)
      BY <2>8, <2>9 DEF Continues, Follows
    <2> QED
      BY <1>1, <2>1, <2>6, <2>8, <2>10, AfarReturns DEF Outcome
  <1> QED
    BY <1>5, <1>7, <1>8, <1>10, <1>11, <1>12 DEF WalkStep

LEMMA AfarNextInv == CourseInv /\ AfarCourse /\ [Next]_vars => AfarCourse'
  <1> SUFFICES ASSUME CourseInv, AfarCourse, [Next]_vars PROVE AfarCourse'
    OBVIOUS
  <1>1. CourseInv' /\ buf \in Seq(Byte)
    BY CourseNextInv DEF CourseInv, NavInv, CursorsInv
  <1>2. ASSUME Len(walk') \in {0, 1} PROVE AfarCourse'
    <2> PICK n \in Nat : n = Len(walk')
      BY <1>2
    <2>1. n <= 1
      BY <1>2
    <2>2. ~(n > 1) /\ \A k \in 2 .. n - 1 : FarOut(walk, k)'
      BY <2>1
    <2> QED
      BY <2>2 DEF AfarCourse, Afar
  <1>3. CASE phase' \notin {"walk", "chunks"}
    <2>1. walk' = << >>
      BY <1>1, <1>3 DEF CourseInv, CallCourse
    <2> QED
      BY <1>2, <2>1
  <1>4. CASE walk' = << Innermost >>
    BY <1>2, <1>4
  <1>5. CASE UNCHANGED vars
    <2>1. walk' = walk /\ phase' = phase /\ buf' = buf
      BY <1>5 DEF vars
    <2> PICK g, inside : g = walk /\ inside = (phase = "chunks")
      OBVIOUS
    <2>2. Afar(g, inside)'
      BY <1>1, <2>1, AfarStays DEF AfarCourse
    <2> QED
      BY <2>1, <2>2 DEF AfarCourse
  <1>6. CASE WalkStep /\ phase' \in {"walk", "chunks"}
    <2>1. Walks
      BY <1>6 DEF WalkStep, Walks, WalkFixed, WalkIntoString, WalkChunk, WalkTooDeep,
                  WalkIntoContainer, WalkOut, Walking
    <2> QED
      BY <1>6, <2>1, AfarWalk
  <1>7. CASE Next /\ phase' \in {"walk", "chunks"} /\ ~WalkStep
    <2>1. CASE AdvanceStep
      <3>1. ~Scanning /\ ~ScanAnswered
        BY <1>7 DEF Scanning, ScanAnswered, ReturnToClient, walkVars
      <3>2. ScanGaveUp
        BY <1>7, <2>1, <3>1 DEF AdvanceStep
      <3> QED
        BY <1>4, <3>2 DEF ScanGaveUp
    <2>2. CASE ClientAdvance
      <3>1. ~AdvancePastEnd
        BY <1>7 DEF AdvancePastEnd, ReturnToClient
      <3>2. CallAdvance
        BY <2>2, <3>1 DEF ClientAdvance
      <3>3. walk' = << Innermost >>
        BY <1>7, <3>2 DEF CallAdvance
      <3> QED
        BY <1>4, <3>3
    <2>3. ~SkipTagTurn
      BY <1>7 DEF SkipTagTurn, ReturnToClient
    <2>4. /\ ~AdvanceFixed /\ ~CallSkipTag /\ ~ClientEnter /\ ~ClientLeave
          /\ ~BeginString /\ ~GetStringChunk /\ ~FinishString
      BY <1>7 DEF AdvanceFixed, CallSkipTag, ClientEnter, ClientLeave, BeginString, GetStringChunk,
                  FinishString, ReturnToClient, walkVars, Idle, InString
    <2> QED
      BY <1>7, <2>1, <2>2, <2>3, <2>4 DEF Next, Library
  <1> QED
    BY <1>3, <1>5, <1>6, <1>7

LEMMA AfarInvariant == Spec => [](CourseInv /\ AfarCourse)
  <1>1. Init => AfarCourse
    <2> SUFFICES ASSUME Init PROVE AfarCourse
      OBVIOUS
    <2>1. Len(walk) = 0
      BY DEF Init
    <2> QED
      BY <2>1 DEF AfarCourse, Afar
  <1> QED
    BY <1>1, CourseInitInv, CourseNextInv, AfarNextInv, PTL DEF Spec

LEMMA ClientKeepsCourse ==
  ASSUME CourseInv, Unfailed PROVE ClientOnCourse
  <1>1. Stacked(cursors, phase = "string") /\ Len(cursors) \in Nat \ {0}
    BY InnermostIs DEF CourseInv, StackCourse
  <1>2. ASSUME NEW k \in 1 .. Len(cursors)
        PROVE  ContainerEnd(cursors[k], k = Len(cursors) /\ phase = "string", Unlimited) =
                 ItemEnd(Opening(cursors, k), Unlimited)
    <2>1. CASE k = Len(cursors)
      <3>1. ContainerEnd(cursors[k], phase = "string", Unlimited) =
              ItemEnd(Opening(cursors, k), Unlimited)
        BY <1>1, <2>1 DEF Stacked, EndsAt, Last
      <3>2. (k = Len(cursors) /\ phase = "string") = (phase = "string")
        BY <2>1
      <3> QED
        BY <3>1, <3>2
    <2>2. CASE k # Len(cursors)
      <3>1. Waits(cursors[k], Opening(cursors, k))
        BY <1>1, <2>2 DEF Stacked, Nested
      <3>2. (k = Len(cursors) /\ phase = "string") = FALSE
        BY <2>2
      <3> QED
        BY <3>1, <3>2 DEF Waits, EndsAt
    <2> QED
      BY <2>1, <2>2
  <1> QED
    BY <1>2 DEF ClientOnCourse, Opening

LEMMA WalkKeepsCourse ==
  ASSUME CourseInv, AfarCourse PROVE WalkOnCourse
  <1> PICK n : n = Len(walk)
    OBVIOUS
  <1> SUFFICES ASSUME NEW k \in 1 .. n, NEW nest \in {MAX_RECURSIONS + 1 - k, Unlimited}
               PROVE  ContainerEnd(walk[k], k = n /\ phase = "chunks", nest) =
                        IF k = 1 THEN ContainerEnd(Innermost, FALSE, nest)
                        ELSE ItemEnd(walk[k - 1].ptr, nest + 1)
    BY DEF WalkOnCourse
  <1>1. phase \in {"walk", "chunks"}
    <2>1. walk # << >>
      BY EmptySeq
    <2> QED
      BY <2>1 DEF CourseInv, CallCourse
  <1>2. /\ NavInv /\ buf \in Seq(Byte) /\ n \in Nat \ {0} /\ n <= MAX_RECURSIONS + 1
        /\ MAX_RECURSIONS \in Nat /\ walk \in Seq(Placed) /\ Unlimited \in Nat
        /\ Unlimited = Limit /\ nest \in Nat
    <2>1. NavInv /\ n \in Nat \ {0} /\ OpenFrames(walk)
      BY <1>1, HereIs DEF CourseInv
    <2>2. buf \in Seq(Byte)
      BY <2>1 DEF NavInv, CursorsInv
    <2> QED
      BY <2>1, <2>2, Limits, AdvanceAssumption DEF OpenFrames
  <1>3. Frames(walk) /\ (n > 1 => walk[1] = Innermost /\ FrameEnds(walk, n, phase = "chunks"))
    <2>1. CASE phase = "walk"
      <3>1. (phase = "chunks") = FALSE
        BY <2>1
      <3> QED
        BY <2>1, <3>1 DEF CourseInv, WalkCourse, Walked
    <2>2. CASE phase = "chunks"
      <3>1. (phase = "chunks") = TRUE
        BY <2>2
      <3> QED
        BY <2>2, <3>1 DEF CourseInv, WalkCourse, Chunked
    <2> QED
      BY <1>1, <2>1, <2>2
  <1>4. CASE k = 1
    <2>1. CASE n = 1 /\ phase = "chunks"
      <3>1. Amid(walk[1], Innermost) /\ Innermost.remaining # 0
        BY <1>1, <2>1 DEF CourseInv, WalkCourse, Chunked, CallCourse
      <3>2. StringEnds(walk[1], nest) = ItemEnd(Innermost.ptr, nest) /\ SameSight(walk[1], Innermost)
        BY <1>2, <3>1 DEF Amid, StringEnds
      <3>3. RestEnds(walk[1], nest) = ContainerEnd(Innermost, FALSE, nest)
        BY <3>1, <3>2, SeenEnds
      <3>4. (k = n /\ phase = "chunks") = TRUE
        BY <1>4, <2>1
      <3> QED
        BY <1>4, <3>3, <3>4 DEF RestEnds
    <2>2. CASE ~(n = 1 /\ phase = "chunks")
      <3>1. walk[1] = Innermost
        <4>1. CASE n > 1
          BY <1>3, <4>1
        <4>2. CASE ~(n > 1)
          <5>1. phase = "walk"
            BY <1>1, <1>2, <2>2, <4>2
          <5> QED
            BY <5>1 DEF CourseInv, WalkCourse, Walked
        <4> QED
          BY <4>1, <4>2
      <3>2. (k = n /\ phase = "chunks") = FALSE
        BY <1>4, <2>2
      <3> QED
        BY <1>4, <3>1, <3>2
    <2> QED
      BY <2>1, <2>2
  <1>5. CASE k # 1
    <2>1. k \in 2 .. n /\ n > 1 /\ (k # n => k \in 2 .. n - 1) /\ k - 1 \in 1 .. n
      BY <1>2, <1>5
    <2>2. CASE nest = MAX_RECURSIONS + 1 - k
      <3>1. nest + 1 = MAX_RECURSIONS + 2 - k
        BY <1>2, <2>1, <2>2
      <3>2. CASE k = n
        <4>1. (k = n /\ phase = "chunks") = (phase = "chunks")
          BY <3>2
        <4>2. ContainerEnd(walk[k], phase = "chunks", nest) = ItemEnd(walk[k - 1].ptr, nest + 1)
          BY <1>3, <2>1, <2>2, <3>1, <3>2 DEF FrameEnds
        <4> QED
          BY <1>5, <4>1, <4>2
      <3>3. CASE k # n
        <4>1. (k = n /\ phase = "chunks") = FALSE
          BY <3>3
        <4>2. FrameEnds(walk, k, FALSE)
          BY <1>2, <1>3, <2>1, <3>3 DEF Frames
        <4> QED
          BY <1>5, <2>2, <3>1, <4>1, <4>2 DEF FrameEnds
      <3> QED
        BY <3>2, <3>3
    <2>3. CASE nest = Unlimited
      <3>1. ContainerEnd(walk[k], k = n /\ phase = "chunks", Unlimited) =
              ItemEnd(walk[k - 1].ptr, Unlimited)
        <4>1. CASE k = n /\ phase = "chunks"
          <5>1. FarIn(walk, k)
            BY <2>1, <4>1 DEF AfarCourse, Afar
          <5>2. (k = n /\ phase = "chunks") = TRUE
            BY <4>1
          <5> QED
            BY <5>1, <5>2 DEF FarIn, FarEnds
        <4>2. CASE ~(k = n /\ phase = "chunks")
          <5>1. FarOut(walk, k)
            BY <2>1, <4>2 DEF AfarCourse, Afar
          <5>2. (k = n /\ phase = "chunks") = FALSE
            BY <4>2
          <5> QED
            BY <5>1, <5>2 DEF FarOut, FarEnds
        <4> QED
          BY <4>1, <4>2
      <3>2. walk[k - 1].ptr \in 1 .. Limit
        <4>1. walk[k - 1] \in Placed
          BY <1>2, <2>1, ElementOfSeq
        <4> QED
          BY <4>1 DEF Placed, Within
      <3>3. ItemEnd(walk[k - 1].ptr, Unlimited + 1) = ItemEnd(walk[k - 1].ptr, Unlimited)
        BY <1>2, <3>2, NoDeeper
      <3> QED
        BY <1>5, <2>3, <3>1, <3>3
    <2> QED
      BY <2>2, <2>3
  <1> QED
    BY <1>4, <1>5

(* Whatever mix of calls led there, and whatever the document: the count   *)
(* of items left, the phase of the map and the position of each cursor     *)
(* fit together (preparse_next and leave_container keep them), and those   *)
(* of the frames of advance_recursive as well.                             *)
THEOREM NavigationOnCourse == Spec => []OnCourse
  <1>1. CourseInv /\ AfarCourse => OnCourse
    <2> SUFFICES ASSUME CourseInv, AfarCourse, Unfailed PROVE ClientOnCourse /\ WalkOnCourse
      BY DEF OnCourse
    <2> QED
      BY ClientKeepsCourse, WalkKeepsCourse
  <1> QED
    BY <1>1, AfarInvariant, PTL

(* No call fails on a well-formed document that is nested no deeper than   *)
(* MAX_RECURSIONS, whether advance scans it or walks it.                   *)
THEOREM NavigationNoSpuriousError == Spec => []NoSpuriousError
  <1>1. CourseInv => NoSpuriousError
    BY DEF CourseInv, ErrorCourse, NoSpuriousError, Unfailed, InString
  <1> QED
    BY <1>1, CourseInvariant, PTL

(* A client that reaches the end of the document has passed over exactly   *)
(* one well-formed item: preparse_next lets no misplaced break by, no tag  *)
(* without an item and no item that is cut off.                            *)
THEOREM NavigationEndOnlyIfWellFormed == Spec => []EndOnlyIfWellFormed
  <1>1. CourseInv => EndOnlyIfWellFormed
    <2> SUFFICES ASSUME CourseInv, Idle, Len(cursors) = 1, Innermost.remaining = 0
                 PROVE  Innermost.ptr = ItemEnd(1, Unlimited)
      BY DEF EndOnlyIfWellFormed
    <2>1. Stacked(cursors, FALSE)
      BY IdleIs
    <2>2. Innermost = Last(cursors) /\ Innermost = cursors[1]
      BY DEF Innermost, Last
    <2>3. EndsAt(Innermost, FALSE, 1) /\ Rooted(Innermost)
      BY <2>1, <2>2 DEF Stacked, Opening
    <2>4. ContainerEnd(Innermost, FALSE, Unlimited) = Innermost.ptr
      BY <2>3 DEF Rooted, ContainerEnd, ResumeAt
    <2> QED
      BY <2>3, <2>4 DEF EndsAt
  <1> QED
    BY <1>1, CourseInvariant, PTL

(* advance leaves the cursor where the grammar says the next item is, with *)
(* what that item's head says, or fails if there is no such place: whether *)
(* fast_skip came to an answer, gave up half-way or was not tried.         *)
THEOREM NavigationAdvanceAgrees == Spec => AdvanceAgrees
  <1> DEFINE Agrees ==
        AdvanceReturned =>
          LET owed == Owed(Innermost)
          IN  IF owed.err = "malformed" THEN err' # "ok"
              ELSE /\ err' = owed.err
                   /\ Visible(Innermost') = Visible(owed.it)
  <1>1. CourseInv /\ [Next]_vars => [Agrees]_vars
    <2> SUFFICES ASSUME CourseInv, [Next]_vars, AdvanceReturned
                 PROVE  LET owed == Owed(Innermost)
                        IN  IF owed.err = "malformed" THEN err' # "ok"
                            ELSE /\ err' = owed.err
                                 /\ Visible(Innermost') = Visible(owed.it)
      OBVIOUS
    <2>1. phase \in {"scan", "walk", "chunks"} /\ phase' = "client"
      BY DEF AdvanceReturned
    <2>2. AdvanceStep
      BY <2>1 DEF Next, Library, vars, SkipTagTurn, ClientAdvance, AdvanceFixed, CallSkipTag,
                  ClientEnter, ClientLeave, BeginString, GetStringChunk, FinishString, Idle, InString
    <2>3. Answered
      BY <2>1, <2>2, CourseAdvance
    <2>4. PICK r : Outcome(r) /\ Answers(r, Innermost) /\ ReturnToClient(r)
      BY <2>3 DEF Answered
    <2>5. err' = r.err
      BY <2>4 DEF ReturnToClient
    <2>6. Innermost' = r.it
      <3>1. cursors \in Seq(Placed) /\ cursors # << >> /\ r.it \in Placed
        BY <2>4 DEF CourseInv, NavInv, CursorsInv, Outcome
      <3>2. cursors' = [cursors EXCEPT ![Len(cursors)] = r.it]
        BY <2>4 DEF ReturnToClient
      <3>3. cursors'[Len(cursors')] = r.it
        BY <3>1, <3>2, LastReplaced
      <3> QED
        BY <3>3 DEF Innermost, Last
    <2> QED
      BY <2>4, <2>5, <2>6 DEF Answers
  <1> QED
    BY <1>1, CourseInvariant, PTL DEF Spec, AdvanceAgrees
=============================================================================
