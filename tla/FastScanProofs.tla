--------------------------- MODULE FastScanProofs ---------------------------
(***************************************************************************)
(* Proofs about the fast scan for every document, every depth of its stack *)
(* and every split of a head byte the assumptions of CborHead allow, the   *)
(* code's own among them.                                                  *)
(*                                                                         *)
(* ScanInv is the inductive invariant.  Coherence of the levels needs one  *)
(* fact the properties do not state: while the scan is inside a chunked    *)
(* string, whose item it settles only at the break, the level it will      *)
(* settle still owes an item.                                              *)
(*                                                                         *)
(* That it is right or absent needs the link from the bytes to the levels  *)
(* (Chain): every level the scan keeps goes on, in the grammar, where the  *)
(* one inside it ends, and the outermost ends where the item does.  Each   *)
(* step over a head, a break or a chunk leaves all those ends where they   *)
(* were, opens a level between two of them or takes one away.              *)
(***************************************************************************)
EXTENDS ScanContract, GrammarProofs

GoodLevel == {level \in Level : Coherent(level)}

ScanInv ==
  /\ buf \in Seq(Byte)
  /\ p \in 1 .. Limit
  /\ cur \in GoodLevel
  /\ stack \in Seq(GoodLevel) /\ Len(stack) <= FAST_SCAN_DEPTH
  /\ afterTag \in BOOLEAN
  /\ chunks \in StringMajors \cup {"none"}
  /\ scan \in {"idle", "running", "some", "none"}
  /\ chunks # "none" => ~Finished(cur)

-----------------------------------------------------------------------------
(* What a definite head at q guarantees: the head ends inside the buffer,  *)
(* and its argument is a number.                                           *)
LEMMA DefiniteHead ==
  ASSUME buf \in Seq(Byte), NEW q \in 1 .. Limit, Definite(q)
  PROVE  /\ Past(q) \in 1 .. Limit /\ Past(q) > q
         /\ Argument(buf, q) \in Nat
         /\ PayloadEnd(q) \in Nat /\ PayloadEnd(q) > q
  <1> DEFINE d == Descriptor(buf[q])
  <1>1. Limit \in Nat /\ q \in 1 .. Len(buf)
    BY LenProperties DEF Limit, Definite
  <1>2. buf[q] \in Byte
    BY <1>1, ElementOfSeq
  <1>3. d \in Nat /\ d <= Value64Bit /\ 1 + BytesNeeded(d) <= Limit - q
    BY <1>2, HeadType DEF Definite
  <1>4. BytesNeeded(d) \in Nat /\ (d >= Value8Bit => BytesNeeded(d) \in {1, 2, 4, 8})
    BY <1>3, NeededType
  <1>5. Past(q) = q + 1 + BytesNeeded(d)
    BY DEF Past
  <1>6. Argument(buf, q) \in Nat
    <2>1. CASE d < Value8Bit
      BY <1>3, <2>1 DEF Argument
    <2>2. CASE ~(d < Value8Bit)
      <3>1. d >= Value8Bit
        BY <1>3, <2>2, DescriptorsAssumption
      <3>2. (q + 1) + BytesNeeded(d) <= Len(buf) + 1
        BY <1>1, <1>3, <1>4 DEF Limit
      <3>3. q + 1 \in Nat \ {0}
        BY <1>1
      <3>4. BeLoad(buf, q + 1, BytesNeeded(d)) \in Nat
        BY <1>4, <3>1, <3>2, <3>3, LoadType
      <3> QED
        BY <2>2, <3>4 DEF Argument
    <2> QED
      BY <2>1, <2>2
  <1> HIDE DEF d
  <1>7. Past(q) \in 1 .. Limit /\ Past(q) > q
    BY <1>1, <1>3, <1>4, <1>5
  <1> QED
    BY <1>1, <1>6, <1>7 DEF PayloadEnd

LEMMA OneByte ==
  ASSUME buf \in Seq(Byte), NEW q \in 1 .. Limit, q < Limit
  PROVE  q + 1 \in 1 .. Limit
  BY LenProperties DEF Limit

-----------------------------------------------------------------------------
(* Levels. *)
LEMMA TopGood == Top \in GoodLevel
  BY CursorAssumption DEF Top, GoodLevel, Level, Coherent

LEMMA SettledGood ==
  ASSUME NEW level \in GoodLevel, ~Finished(level)
  PROVE  Settled(level) \in GoodLevel
  <1> DEFINE next == Settled(level)
  <1>1. /\ level \in Level
        /\ level.pending \in 0 .. U32Max /\ U32Max \in Nat
        /\ level.indefinite \in BOOLEAN /\ level.map \in BOOLEAN /\ level.midPair \in BOOLEAN
    BY CursorAssumption DEF GoodLevel, Level
  <1> DEFINE count == IF level.pending = 0 THEN U32Max ELSE level.pending - 1
             flipped == ~level.midPair
  <1>a. next = [level EXCEPT !.pending = count, !.midPair = flipped]
    BY DEF Settled
  <1>b. count \in 0 .. U32Max
    BY <1>1
  <1>c. flipped \in BOOLEAN /\ (flipped <=> ~level.midPair)
    BY <1>1
  <1> HIDE DEF next, count, flipped
  <1>2. /\ next.pending = count /\ next.indefinite = level.indefinite
        /\ next.map = level.map /\ next.midPair = flipped
    BY <1>1, <1>a DEF Level
  <1>3. next \in Level
    BY <1>1, <1>a, <1>b, <1>c DEF Level
  <1>4. ASSUME level.indefinite PROVE next \in GoodLevel
    BY <1>2, <1>3, <1>4 DEF GoodLevel, Coherent
  <1>5. ASSUME ~level.indefinite PROVE next \in GoodLevel
    <2>1. level.pending # 0 /\ next.pending = level.pending - 1 /\ level.pending < U32Max
      BY <1>1, <1>2, <1>5 DEF Finished, GoodLevel, Coherent, count
    <2>2. next.pending % 2 = 1 <=> ~(level.pending % 2 = 1)
      BY <1>1, <2>1
    <2>3. level.map => (level.midPair <=> level.pending % 2 = 1)
      BY <1>5 DEF GoodLevel, Coherent
    <2>4. next.map => (next.midPair <=> next.pending % 2 = 1)
      BY <1>2, <1>c, <2>2, <2>3
    <2>5. next.pending < U32Max
      BY <1>1, <2>1
    <2> QED
      BY <1>3, <2>4, <2>5 DEF GoodLevel, Coherent
  <1> QED
    BY <1>1, <1>4, <1>5 DEF next

(* A container whose length is not refused opens on an even number of      *)
(* items below the sentinel.                                               *)
LEMMA OpenedGood ==
  ASSUME NEW n \in Nat, NEW major, ~RefusedLength(major, n)
  PROVE  [pending |-> IF major = "map" THEN 2 * n ELSE n, indefinite |-> FALSE,
          map |-> major = "map", midPair |-> FALSE] \in GoodLevel
  <1> DEFINE k == IF major = "map" THEN 2 * n ELSE n
  <1>1. U32Max \in Nat /\ U32Max % 2 = 1
    BY CursorAssumption
  <1>2. n < U32Max /\ (major = "map" => n <= U32Max \div 2)
    BY <1>1 DEF RefusedLength
  <1>3. U32Max = 2 * (U32Max \div 2) + 1
    BY <1>1
  <1>4. U32Max \div 2 \in Nat
    BY <1>1
  <1>5. k \in 0 .. U32Max /\ k < U32Max
    BY <1>1, <1>2, <1>3, <1>4
  <1>6. (2 * n) % 2 = 0
    OBVIOUS
  <1>7. major = "map" => ~(k % 2 = 1)
    BY <1>6
  <1> HIDE DEF k
  <1> DEFINE map == major = "map"
             opened == [pending |-> k, indefinite |-> FALSE, map |-> map, midPair |-> FALSE]
  <1>8. map \in BOOLEAN
    OBVIOUS
  <1>9. map => ~(k % 2 = 1)
    BY <1>7
  <1> HIDE DEF map
  <1>10. opened \in Level /\ Coherent(opened)
    BY <1>5, <1>8, <1>9 DEF Level, Coherent
  <1>11. opened \in GoodLevel
    BY <1>10 DEF GoodLevel
  <1> QED
    BY <1>11 DEF k, map

LEMMA UnknownGood ==
  ASSUME NEW map \in BOOLEAN
  PROVE  [pending |-> 0, indefinite |-> TRUE, map |-> map, midPair |-> FALSE] \in GoodLevel
  BY CursorAssumption DEF GoodLevel, Level, Coherent

LEMMA PopGood ==
  ASSUME stack \in Seq(GoodLevel), Len(stack) <= FAST_SCAN_DEPTH, stack # << >>, Pop
  PROVE  /\ cur' \in GoodLevel
         /\ stack' \in Seq(GoodLevel) /\ Len(stack') <= FAST_SCAN_DEPTH
  <1>1. Len(stack) \in Nat \ {0}
    BY EmptySeq, LenProperties
  <1>2. cur' \in GoodLevel
    BY <1>1, ElementOfSeq DEF Pop
  <1>3. stack' \in Seq(GoodLevel) /\ Len(stack') = Len(stack) - 1
    <2> DEFINE n == Len(stack) - 1
    <2>1. \A i \in 1 .. n : stack[i] \in GoodLevel
      BY <1>1, ElementOfSeq
    <2> n \in Nat
      BY <1>1
    <2> HIDE DEF n
    <2>2. SubSeq(stack, 1, n) \in Seq(GoodLevel) /\ Len(SubSeq(stack, 1, n)) = n
      BY <2>1, SubSeqProperties
    <2> QED
      BY <2>2 DEF Pop, n
  <1> QED
    BY <1>1, <1>2, <1>3, FastScanAssumption

LEMMA PushGood ==
  ASSUME stack \in Seq(GoodLevel), Len(stack) <= FAST_SCAN_DEPTH,
         Len(stack) # FAST_SCAN_DEPTH, cur \in GoodLevel, ~Finished(cur),
         NEW level \in GoodLevel, Push(level)
  PROVE  /\ cur' \in GoodLevel
         /\ stack' \in Seq(GoodLevel) /\ Len(stack') <= FAST_SCAN_DEPTH
  <1>1. Settled(cur) \in GoodLevel
    BY SettledGood
  <1>2. stack' \in Seq(GoodLevel) /\ Len(stack') = Len(stack) + 1
    BY <1>1, AppendProperties DEF Push
  <1> QED
    BY <1>2, FastScanAssumption, LenProperties DEF Push

-----------------------------------------------------------------------------
LEMMA ScanInitInv == ScanInit => ScanInv
  <1> SUFFICES ASSUME ScanInit PROVE ScanInv
    OBVIOUS
  <1>1. buf \in Seq(Byte)
    BY CursorAssumption DEF ScanInit
  <1>2. 1 \in 1 .. Limit
    BY <1>1, LenProperties DEF Limit
  <1>3. stack \in Seq(GoodLevel) /\ Len(stack) <= FAST_SCAN_DEPTH
    BY FastScanAssumption DEF ScanInit, ScanIdle
  <1>4. p = 1 /\ cur = Top /\ afterTag = FALSE /\ chunks = "none" /\ scan = "idle"
    BY DEF ScanInit, ScanIdle
  <1> QED
    BY <1>1, <1>2, <1>3, <1>4, TopGood DEF ScanInv

-----------------------------------------------------------------------------
(* One lemma per kind of step. *)
LEMMA CallStep ==
  ASSUME ScanInv, ScanCall PROVE ScanInv'
  <1>1. p' = 1 /\ cur' = Top /\ stack' = << >> /\ afterTag' = FALSE /\ chunks' = "none"
        /\ scan' \in {"none", "running"} /\ buf' = buf
    BY ParserInitProperties DEF ScanCall, ScanFrom, ScanInv
  <1>2. Limit' = Limit /\ 1 \in 1 .. Limit
    BY <1>1, LenProperties DEF Limit, ScanInv
  <1>3. stack' \in Seq(GoodLevel) /\ Len(stack') <= FAST_SCAN_DEPTH
    BY <1>1, FastScanAssumption
  <1> QED
    BY <1>1, <1>2, <1>3, TopGood DEF ScanInv

LEMMA StopStep ==
  ASSUME ScanInv, buf' = buf, Return \/ GiveUp \/ GiveUpChunks PROVE ScanInv'
  BY DEF ScanInv, Return, GiveUp, GiveUpChunks, Limit, Finished

(* Between items, where no chunked string is open. *)
LEMMA PopStep ==
  ASSUME ScanInv, buf' = buf, Unwind \/ Close PROVE ScanInv'
  <1>1. stack # << >> /\ Pop /\ UNCHANGED << afterTag, chunks, scan >> /\ chunks = "none"
    BY DEF Unwind, Close, CanClose, BreakAllowed, AtItem, Running
  <1>2. cur' \in GoodLevel /\ stack' \in Seq(GoodLevel) /\ Len(stack') <= FAST_SCAN_DEPTH
    BY <1>1, PopGood DEF ScanInv
  <1>3. p' \in 1 .. Limit
    BY OneByte DEF ScanInv, Unwind, Close, CanClose
  <1>4. Limit' = Limit
    BY DEF Limit
  <1> QED
    BY <1>1, <1>2, <1>3, <1>4 DEF ScanInv

(* A step over one item that opens nothing. *)
LEMMA SkipStep ==
  ASSUME ScanInv, buf' = buf, SkipFixed \/ SkipTag \/ SkipString \/ SkipEmpty
  PROVE  ScanInv'
  <1>1. Definite(p) /\ AtItem /\ ~Finished(cur) /\ chunks = "none"
    BY DEF SkipFixed, SkipTag, SkipString, SkipEmpty, CanSkipNumber, CanSkipSimple,
           CanSkipTag, CanSkipString, CanSkipEmpty, AtItem, Running
  <1>2. Past(p) \in 1 .. Limit /\ PayloadEnd(p) \in Nat /\ PayloadEnd(p) > p
    BY <1>1, DefiniteHead DEF ScanInv
  <1>3. p' \in 1 .. Limit
    <2>1. CASE SkipString
      <3>1. p' = PayloadEnd(p) /\ PayloadEnd(p) <= Limit
        BY <2>1 DEF SkipString, CanSkipString, PayloadFits
      <3>2. Limit \in Nat /\ p \in 1 .. Limit
        BY LenProperties DEF Limit, ScanInv
      <3> QED
        BY <1>2, <3>1, <3>2
    <2>2. CASE SkipFixed \/ SkipTag \/ SkipEmpty
      BY <1>2, <2>2 DEF SkipFixed, SkipTag, SkipEmpty, StepPast
    <2> QED
      BY <2>1, <2>2
  <1>4. /\ cur' = cur \/ cur' = Settled(cur)
        /\ afterTag' \in BOOLEAN /\ UNCHANGED << stack, chunks, scan >>
    BY DEF SkipFixed, SkipTag, SkipString, SkipEmpty, StepPast
  <1>5. cur' \in GoodLevel
    BY <1>1, <1>4, SettledGood DEF ScanInv
  <1>6. Limit' = Limit
    BY DEF Limit
  <1> QED
    BY <1>1, <1>3, <1>4, <1>5, <1>6 DEF ScanInv

LEMMA OpenStringStep ==
  ASSUME ScanInv, buf' = buf, OpenString PROVE ScanInv'
  <1>1. p + 1 \in 1 .. Limit
    BY OneByte DEF ScanInv, OpenString, CanOpenString, HeadIs
  <1>2. MajorOf(buf[p]) \in StringMajors /\ ~Finished(cur)
    BY DEF OpenString, CanOpenString, HeadIs, AtItem
  <1>3. Limit' = Limit /\ Finished(cur)' = Finished(cur)
    BY DEF Limit, Finished, OpenString
  <1> QED
    BY <1>1, <1>2, <1>3 DEF ScanInv, OpenString

LEMMA OpenDefiniteStep ==
  ASSUME ScanInv, buf' = buf, OpenDefinite PROVE ScanInv'
  <1> DEFINE major == MajorOf(buf[p])
             opened == [pending |-> Children(p), indefinite |-> FALSE,
                        map |-> HeadIs(p, {"map"}), midPair |-> FALSE]
  <1>1. Definite(p) /\ ~Finished(cur) /\ chunks = "none" /\ p < Limit
        /\ ~RefusedLength(major, Argument(buf, p)) /\ Len(stack) # FAST_SCAN_DEPTH
    BY DEF OpenDefinite, CanOpenDefinite, AtItem, Running, Definite
  <1>2. Argument(buf, p) \in Nat /\ Past(p) \in 1 .. Limit
    BY <1>1, DefiniteHead DEF ScanInv
  <1>3. HeadIs(p, {"map"}) = (major = "map")
    BY <1>1 DEF HeadIs
  <1>4. opened = [pending |-> IF major = "map" THEN 2 * Argument(buf, p) ELSE Argument(buf, p),
                  indefinite |-> FALSE, map |-> major = "map", midPair |-> FALSE]
    BY <1>3 DEF Children
  <1> HIDE DEF major, opened
  <1>5. opened \in GoodLevel
    BY <1>1, <1>2, <1>4, OpenedGood
  <1>6. Push(opened) /\ StepPast
    BY DEF OpenDefinite, opened
  <1>7. cur' \in GoodLevel /\ stack' \in Seq(GoodLevel) /\ Len(stack') <= FAST_SCAN_DEPTH
    BY <1>1, <1>5, <1>6, PushGood DEF ScanInv
  <1>8. Limit' = Limit
    BY DEF Limit
  <1> QED
    BY <1>1, <1>2, <1>6, <1>7, <1>8 DEF ScanInv, StepPast

LEMMA OpenIndefiniteStep ==
  ASSUME ScanInv, buf' = buf, OpenIndefinite PROVE ScanInv'
  <1> DEFINE map == HeadIs(p, {"map"})
             opened == [pending |-> 0, indefinite |-> TRUE, map |-> map, midPair |-> FALSE]
  <1>1. ~Finished(cur) /\ chunks = "none" /\ p < Limit /\ Len(stack) # FAST_SCAN_DEPTH
    BY DEF OpenIndefinite, CanOpenIndefinite, AtItem, Running, HeadIs
  <1>2. p + 1 \in 1 .. Limit
    BY <1>1, OneByte DEF ScanInv
  <1>3. map \in BOOLEAN
    BY DEF HeadIs
  <1> HIDE DEF map
  <1>4. opened \in GoodLevel
    BY <1>3, UnknownGood
  <1>5. Push(opened) /\ p' = p + 1 /\ afterTag' = FALSE /\ UNCHANGED << chunks, scan >>
    BY DEF OpenIndefinite, map
  <1> HIDE DEF opened
  <1>6. cur' \in GoodLevel /\ stack' \in Seq(GoodLevel) /\ Len(stack') <= FAST_SCAN_DEPTH
    BY <1>1, <1>4, <1>5, PushGood DEF ScanInv
  <1>7. Limit' = Limit
    BY DEF Limit
  <1> QED
    BY <1>1, <1>2, <1>5, <1>6, <1>7 DEF ScanInv

LEMMA ChunkStep ==
  ASSUME ScanInv, buf' = buf, EndChunks \/ SkipChunk PROVE ScanInv'
  <1>1. Limit' = Limit /\ Limit \in Nat /\ p \in 1 .. Limit /\ ~Finished(cur)
    BY LenProperties DEF Limit, ScanInv, EndChunks, SkipChunk, InChunks
  <1>2. CASE EndChunks
    <2>1. p + 1 \in 1 .. Limit
      BY <1>2, OneByte DEF ScanInv, EndChunks, CanEndChunks
    <2>2. Settled(cur) \in GoodLevel
      BY <1>1, SettledGood DEF ScanInv
    <2> QED
      BY <1>1, <1>2, <2>1, <2>2 DEF ScanInv, EndChunks
  <1>3. CASE SkipChunk
    <2>1. Definite(p) /\ PayloadEnd(p) <= Limit
      BY <1>3 DEF SkipChunk, CanSkipChunk, PayloadFits
    <2>2. PayloadEnd(p) \in Nat /\ PayloadEnd(p) > p
      BY <2>1, DefiniteHead DEF ScanInv
    <2>3. PayloadEnd(p) \in 1 .. Limit
      BY <1>1, <2>1, <2>2
    <2>4. Finished(cur)' = Finished(cur)
      BY <1>3 DEF SkipChunk, Finished
    <2> QED
      BY <1>1, <1>3, <2>3, <2>4 DEF ScanInv, SkipChunk
  <1> QED
    BY <1>2, <1>3

LEMMA ScanNextInv == ScanInv /\ [ScanNext]_<< buf, scanVars >> => ScanInv'
  <1> SUFFICES ASSUME ScanInv, [ScanNext]_<< buf, scanVars >> PROVE ScanInv'
    OBVIOUS
  <1>1. CASE ScanCall
    BY <1>1, CallStep
  <1>2. CASE ScanStep
    <2>1. buf' = buf
      BY <1>2 DEF ScanStep
    <2> QED
      BY <1>2, <2>1, StopStep, PopStep, SkipStep, OpenStringStep, OpenDefiniteStep,
         OpenIndefiniteStep, ChunkStep DEF ScanStep
  <1>3. CASE UNCHANGED << buf, scanVars >>
    BY <1>3 DEF ScanInv, scanVars, Limit, Finished
  <1> QED
    BY <1>1, <1>2, <1>3 DEF ScanNext

LEMMA ScanInvariant == ScanSpec => []ScanInv
  <1> QED
    BY ScanInitInv, ScanNextInv, PTL DEF ScanSpec

LEMMA ScanInvImplies == ScanInv => ScanTypeOK /\ LevelsCoherent
  <1> SUFFICES ASSUME ScanInv PROVE ScanTypeOK /\ LevelsCoherent
    OBVIOUS
  <1>1. cur \in Level /\ Coherent(cur)
    BY DEF ScanInv, GoodLevel
  <1>2. stack \in Seq(GoodLevel) /\ Len(stack) \in Nat
    BY LenProperties DEF ScanInv
  <1>3. \A i \in 1 .. Len(stack) : stack[i] \in GoodLevel
    BY <1>2, ElementOfSeq
  <1>4. \A i \in 1 .. Len(stack) : stack[i] \in Level /\ Coherent(stack[i])
    BY <1>3 DEF GoodLevel
  <1>5. stack \in Seq(Level)
    BY <1>2, <1>4
  <1> QED
    BY <1>1, <1>4, <1>5 DEF ScanInv, ScanTypeOK, LevelsCoherent

-----------------------------------------------------------------------------
(* The scan of any document stays inside the buffer and inside its stack:  *)
(* the position scan_subtree dereferences and the array it indexes         *)
(* (parser.rs, scan_subtree) are never out of range.                       *)
THEOREM ScanStaysInside == ScanSpec => []ScanTypeOK
  <1> QED
    BY ScanInvariant, ScanInvImplies, PTL

(* Level::settle never wraps on a level that gave a length, and a map's    *)
(* phase always matches the number of items it still owes.                 *)
THEOREM ScanLevelsCoherent == ScanSpec => []LevelsCoherent
  <1> QED
    BY ScanInvariant, ScanInvImplies, PTL

-----------------------------------------------------------------------------
(* Where the items that a level still owes end, from q on, with `nest`     *)
(* levels to spare; and if something goes wrong before that.               *)
LevelEnd(q, level, nest) ==
  IF level.indefinite THEN BreakEnd(q, level.map, level.midPair, nest)
  ELSE ItemsEnd(q, level.pending, nest)
RestEnd(q, level, nest) == IF q = Malformed THEN Malformed ELSE LevelEnd(q, level, nest)

(* The same of the level the scan is in, which may be in a chunked string  *)
(* or behind a tag.                                                        *)
CurEnd(nest) ==
  IF chunks # "none" THEN RestEnd(ChunksEnd(p, chunks), Settled(cur), nest)
  ELSE IF afterTag THEN RestEnd(ItemEnd(p, nest), Settled(cur), nest)
  ELSE LevelEnd(p, cur, nest)

(* The levels on the stack and the bytes ahead make up the item at `start`: *)
(* each level goes on where the one inside it ends.                        *)
Chain(start, N) ==
  /\ Len(stack) <= N
  /\ \E e \in [0 .. Len(stack) -> 0 .. Limit] :
       /\ e[0] = ItemEnd(start, N)
       /\ e[Len(stack)] = CurEnd(N - Len(stack))
       /\ \A i \in 1 .. Len(stack) : e[i - 1] = RestEnd(e[i], stack[i], N - i + 1)

-----------------------------------------------------------------------------
LEMMA GrammarStays ==
  ASSUME buf \in Seq(Byte), buf' = buf, NEW q, NEW level, NEW nest
  PROVE  /\ Limit' = Limit
         /\ LevelEnd(q, level, nest)' = LevelEnd(q, level, nest)
         /\ RestEnd(q, level, nest)' = RestEnd(q, level, nest)
         /\ ItemEnd(q, nest)' = ItemEnd(q, nest)
         /\ ChunksEnd(q, nest)' = ChunksEnd(q, nest)
  <1>1. EndOf' = EndOf
    BY EndOfStays
  <1>2. Limit' = Limit
    BY DEF Limit
  <1>3. /\ ItemEnd(q, nest)' = ItemEnd(q, nest)
        /\ ChunksEnd(q, nest)' = ChunksEnd(q, nest)
    BY <1>1 DEF ItemEnd, ChunksEnd
  <1>4. LevelEnd(q, level, nest)' = LevelEnd(q, level, nest)
    BY <1>1 DEF LevelEnd, ItemsEnd, BreakEnd
  <1> QED
    BY <1>2, <1>3, <1>4 DEF RestEnd

LEMMA LevelEndType ==
  ASSUME buf \in Seq(Byte), NEW q \in 1 .. Limit, NEW level \in Level, NEW nest \in Nat
  PROVE  LevelEnd(q, level, nest) \in 0 .. Limit
  <1>1. level.pending \in Nat /\ level.map \in BOOLEAN /\ level.midPair \in BOOLEAN
    BY CursorAssumption DEF Level
  <1> QED
    BY <1>1, BreakEndIs, ItemsEndIs DEF LevelEnd

LEMMA RestEndType ==
  ASSUME buf \in Seq(Byte), NEW q \in 0 .. Limit, NEW level \in Level, NEW nest \in Nat
  PROVE  RestEnd(q, level, nest) \in 0 .. Limit
  <1>1. Limit \in Nat
    BY BufferType
  <1>2. CASE q = Malformed
    BY <1>1, <1>2 DEF RestEnd, Malformed
  <1>3. CASE q # Malformed
    <2>1. q \in 1 .. Limit
      BY <1>1, <1>3 DEF Malformed
    <2> QED
      BY <1>3, <2>1, LevelEndType DEF RestEnd
  <1> QED
    BY <1>2, <1>3

LEMMA CurEndType ==
  ASSUME ScanInv, NEW nest \in Nat, ~Finished(cur) \/ ~afterTag
  PROVE  CurEnd(nest) \in 0 .. Limit
  <1>1. buf \in Seq(Byte) /\ p \in 1 .. Limit /\ cur \in Level /\ cur \in GoodLevel
    BY DEF ScanInv, GoodLevel
  <1>2. ~Finished(cur) => Settled(cur) \in Level
    BY <1>1, SettledGood DEF GoodLevel
  <1>3. Limit \in Nat
    BY <1>1, BufferType
  <1>4. CASE chunks # "none"
    <2>1. chunks \in StringMajors /\ Settled(cur) \in Level
      BY <1>2, <1>4 DEF ScanInv
    <2>2. ChunksEnd(p, chunks) \in 0 .. Limit
      BY <1>1, <2>1, ChunksEndIs
    <2> QED
      BY <1>1, <1>4, <2>1, <2>2, RestEndType DEF CurEnd
  <1>5. CASE chunks = "none" /\ afterTag
    <2>1. ItemEnd(p, nest) \in 0 .. Limit
      BY <1>1, <1>3, ItemEndIs DEF Malformed
    <2> QED
      BY <1>1, <1>2, <1>5, <2>1, RestEndType DEF CurEnd
  <1>6. CASE chunks = "none" /\ ~afterTag
    BY <1>1, <1>6, LevelEndType DEF CurEnd
  <1> QED
    BY <1>4, <1>5, <1>6

(* settle, field by field. *)
LEMMA SettledIs ==
  ASSUME NEW level \in Level
  PROVE  /\ Settled(level).indefinite = level.indefinite
         /\ Settled(level).map = level.map
         /\ Settled(level).midPair = ~level.midPair
         /\ level.pending # 0 => Settled(level).pending = level.pending - 1
  BY DEF Settled, Level

(* A level that owes something goes on past the item at hand.              *)
LEMMA OneItem ==
  ASSUME buf \in Seq(Byte), NEW q \in 1 .. Limit, NEW level \in Level, ~Finished(level),
         NEW nest \in Nat, ~(level.indefinite /\ BreakAt(q))
  PROVE  LevelEnd(q, level, nest) = RestEnd(ItemEnd(q, nest), Settled(level), nest)
  <1>1. level.pending \in Nat /\ level.indefinite \in BOOLEAN /\ level.map \in BOOLEAN
        /\ level.midPair \in BOOLEAN
    BY CursorAssumption DEF Level
  <1>2. CASE level.indefinite
    <2>1. BreakEnd(q, level.map, level.midPair, nest) =
            IF ItemEnd(q, nest) = Malformed THEN Malformed
            ELSE BreakEnd(ItemEnd(q, nest), level.map, ~level.midPair, nest)
      BY ZenonT(30), <1>1, <1>2, BreakEndIs
    <2> QED
      BY <1>2, <2>1, SettledIs DEF LevelEnd, RestEnd
  <1>3. CASE ~level.indefinite
    <2>1. level.pending # 0
      BY <1>3 DEF Finished
    <2>2. ItemsEnd(q, level.pending, nest) =
            IF ItemEnd(q, nest) = Malformed THEN Malformed
            ELSE ItemsEnd(ItemEnd(q, nest), level.pending - 1, nest)
      BY <1>1, <2>1, ItemsEndIs
    <2> QED
      BY <1>3, <2>1, <2>2, SettledIs DEF LevelEnd, RestEnd
  <1> QED
    BY <1>2, <1>3

LEMMA AtItemEnd ==
  ASSUME ScanInv, AtItem, NEW nest \in Nat, afterTag \/ ~(cur.indefinite /\ BreakAt(p))
  PROVE  CurEnd(nest) = RestEnd(ItemEnd(p, nest), Settled(cur), nest)
  <1>1. buf \in Seq(Byte) /\ p \in 1 .. Limit /\ cur \in Level /\ ~Finished(cur) /\ chunks = "none"
    BY DEF ScanInv, GoodLevel, AtItem, Running
  <1> QED
    BY <1>1, OneItem DEF CurEnd

LEMMA CurEndNext ==
  ASSUME buf \in Seq(Byte), buf' = buf, NEW q, q = p', NEW level, level = cur', NEW nest
  PROVE  /\ chunks' = "none" /\ ~afterTag' => CurEnd(nest)' = LevelEnd(q, level, nest)
         /\ chunks' = "none" /\ afterTag' =>
              CurEnd(nest)' = RestEnd(ItemEnd(q, nest), Settled(level), nest)
         /\ \A k : k = chunks' /\ k # "none" =>
              CurEnd(nest)' = RestEnd(ChunksEnd(q, k), Settled(level), nest)
  <1>1. \A a, b, c : /\ LevelEnd(a, b, c)' = LevelEnd(a, b, c)
                     /\ RestEnd(a, b, c)' = RestEnd(a, b, c)
                     /\ ItemEnd(a, c)' = ItemEnd(a, c)
                     /\ ChunksEnd(a, c)' = ChunksEnd(a, c)
    BY GrammarStays
  <1>2. Settled(cur)' = Settled(level)
    BY DEF Settled
  <1> QED
    BY <1>1, <1>2 DEF CurEnd

-----------------------------------------------------------------------------
(* What a step does to the chain. *)
LEMMA ChainSame ==
  ASSUME buf \in Seq(Byte), buf' = buf, stack' = stack, NEW start, NEW N \in Nat, Chain(start, N),
         NEW nest, nest = N - Len(stack), CurEnd(nest)' = CurEnd(nest)
  PROVE  Chain(start, N)'
  <1>1. PICK e \in [0 .. Len(stack) -> 0 .. Limit] :
          /\ e[0] = ItemEnd(start, N)
          /\ e[Len(stack)] = CurEnd(N - Len(stack))
          /\ \A i \in 1 .. Len(stack) : e[i - 1] = RestEnd(e[i], stack[i], N - i + 1)
    BY DEF Chain
  <1>2. e \in [0 .. Len(stack') -> 0 .. Limit'] /\ e[0] = ItemEnd(start, N)'
    BY <1>1, GrammarStays
  <1>3. e[Len(stack')] = CurEnd(N - Len(stack))'
    BY <1>1
  <1>4. \A a, b, c : RestEnd(a, b, c)' = RestEnd(a, b, c)
    BY GrammarStays
  <1>5. \A i \in 1 .. Len(stack') : e[i - 1] = RestEnd(e[i], stack[i], N - i + 1)'
    BY <1>1, <1>4
  <1>6. Len(stack') <= N
    BY DEF Chain
  <1> QED
    BY <1>2, <1>3, <1>5, <1>6 DEF Chain

LEMMA ChainGrows ==
  ASSUME ScanInv, buf' = buf, NEW start, NEW N \in Nat, Chain(start, N),
         NEW level, stack' = Append(stack, level),
         NEW nest \in Nat, N - Len(stack) = nest + 1, CurEnd(nest)' \in 0 .. Limit,
         CurEnd(nest + 1) = RestEnd(CurEnd(nest)', level, nest + 1)
  PROVE  Chain(start, N)'
  <1>1. PICK e \in [0 .. Len(stack) -> 0 .. Limit] :
          /\ e[0] = ItemEnd(start, N)
          /\ e[Len(stack)] = CurEnd(N - Len(stack))
          /\ \A i \in 1 .. Len(stack) : e[i - 1] = RestEnd(e[i], stack[i], N - i + 1)
    BY DEF Chain
  <1>2. PICK x : x = CurEnd(nest)'
    OBVIOUS
  <1> DEFINE n == Len(stack)
  <1> PICK h : h = [i \in 0 .. n + 1 |-> IF i = n + 1 THEN x ELSE e[i]]
    OBVIOUS
  <1>3. n \in Nat /\ buf \in Seq(Byte) /\ stack \in Seq(GoodLevel)
    BY LenProperties DEF ScanInv
  <1>4. /\ Len(stack') = n + 1 /\ stack'[n + 1] = level
        /\ \A i \in 1 .. n : stack'[i] = stack[i]
    BY <1>3
  <1>5. \A a, b, c : RestEnd(a, b, c)' = RestEnd(a, b, c)
    BY <1>3, GrammarStays
  <1>6. Limit' = Limit /\ ItemEnd(start, N)' = ItemEnd(start, N)
    BY <1>3, GrammarStays
  <1>7. /\ h \in [0 .. n + 1 -> 0 .. Limit] /\ h[n + 1] = x
        /\ \A i \in 0 .. n : h[i] = e[i]
    BY <1>1, <1>2, <1>3
  <1>8. h[0] = ItemEnd(start, N)'
    BY <1>1, <1>3, <1>6, <1>7
  <1>9. N - (n + 1) = nest
    BY <1>3
  <1> PICK s : s = stack'
    OBVIOUS
  <1>10. \A i \in 1 .. n + 1 : h[i - 1] = RestEnd(h[i], s[i], N - i + 1)
    <2> SUFFICES ASSUME NEW i \in 1 .. n + 1
                 PROVE  h[i - 1] = RestEnd(h[i], s[i], N - i + 1)
      OBVIOUS
    <2>1. CASE i = n + 1
      <3>1. h[i - 1] = e[n] /\ h[i] = x /\ s[i] = level /\ N - i + 1 = nest + 1
        BY <1>3, <1>4, <1>7, <2>1
      <3>2. e[n] = CurEnd(nest + 1)
        BY <1>1
      <3> QED
        BY <1>2, <3>1, <3>2
    <2>2. CASE i # n + 1
      <3>1. i \in 1 .. n /\ i - 1 \in 0 .. n /\ i \in 0 .. n
        BY <1>3, <2>2
      <3> QED
        BY <1>1, <1>4, <1>7, <3>1
    <2> QED
      BY <2>1, <2>2
  <1>11. h[Len(stack')] = CurEnd(N - Len(stack))'
    <2>1. (N - Len(stack))' = nest
      BY <1>4, <1>9
    <2> QED
      BY <1>2, <1>4, <1>7, <2>1
  <1>12. h \in [0 .. Len(stack') -> 0 .. Limit'] /\ Len(stack') <= N
    BY <1>3, <1>4, <1>6, <1>7
  <1>13. \A i \in 1 .. Len(stack') : h[i - 1] = RestEnd(h[i], s[i], N - i + 1)'
    BY <1>4, <1>5, <1>10
  <1>14. \A i \in 1 .. Len(stack') : h[i - 1] = RestEnd(h[i], stack[i], N - i + 1)'
    BY <1>13
  <1> QED
    BY <1>8, <1>11, <1>12, <1>14 DEF Chain

LEMMA ChainShrinks ==
  ASSUME ScanInv, buf' = buf, NEW start, NEW N \in Nat, Chain(start, N),
         stack # << >>, Pop, NEW q \in 1 .. Limit, q = p', chunks' = "none", ~afterTag',
         CurEnd(N - Len(stack)) = q
  PROVE  Chain(start, N)'
  <1>1. PICK e \in [0 .. Len(stack) -> 0 .. Limit] :
          /\ e[0] = ItemEnd(start, N)
          /\ e[Len(stack)] = CurEnd(N - Len(stack))
          /\ \A i \in 1 .. Len(stack) : e[i - 1] = RestEnd(e[i], stack[i], N - i + 1)
    BY DEF Chain
  <1> DEFINE n == Len(stack)
  <1> PICK h : h = [i \in 0 .. n - 1 |-> e[i]]
    OBVIOUS
  <1>2. n \in Nat \ {0} /\ buf \in Seq(Byte) /\ stack \in Seq(GoodLevel) /\ n <= N
    BY LenProperties, EmptySeq DEF ScanInv, Chain
  <1>3. /\ Len(stack') = n - 1 /\ \A i \in 1 .. n - 1 : stack'[i] = stack[i]
        /\ cur' = stack[n]
    <2> DEFINE m == n - 1
    <2>1. m \in Nat /\ m <= n
      BY <1>2
    <2>2. stack' = SubSeq(stack, 1, m) /\ cur' = stack[n]
      BY DEF Pop
    <2> HIDE DEF m
    <2>3. Len(SubSeq(stack, 1, m)) = m /\ \A i \in 1 .. m : SubSeq(stack, 1, m)[i] = stack[i]
      BY <1>2, <2>1
    <2> QED
      BY <2>2, <2>3 DEF m
  <1>4. \A a, b, c : RestEnd(a, b, c)' = RestEnd(a, b, c)
    BY <1>2, GrammarStays
  <1>5. Limit' = Limit /\ ItemEnd(start, N)' = ItemEnd(start, N)
    BY <1>2, GrammarStays
  <1>6. /\ h \in [0 .. n - 1 -> 0 .. Limit] /\ \A i \in 0 .. n - 1 : h[i] = e[i]
    BY <1>1, <1>2
  <1>7. h[0] = ItemEnd(start, N)'
    BY <1>1, <1>2, <1>5, <1>6
  <1>8. h[n - 1] = LevelEnd(q, stack[n], N - n + 1)
    <2>1. n \in 1 .. n /\ n - 1 \in 0 .. n - 1 /\ q # Malformed
      BY <1>2 DEF Malformed
    <2>2. e[n] = q
      BY <1>1
    <2> QED
      BY <1>1, <1>6, <2>1, <2>2 DEF RestEnd
  <1> PICK s : s = stack'
    OBVIOUS
  <1>9. \A i \in 1 .. n - 1 : h[i - 1] = RestEnd(h[i], s[i], N - i + 1)
    <2> SUFFICES ASSUME NEW i \in 1 .. n - 1
                 PROVE  h[i - 1] = RestEnd(h[i], s[i], N - i + 1)
      OBVIOUS
    <2>1. i \in 1 .. n /\ i - 1 \in 0 .. n - 1 /\ i \in 0 .. n - 1
      BY <1>2
    <2> QED
      BY <1>1, <1>3, <1>6, <2>1
  <1>10. h[Len(stack')] = CurEnd(N - Len(stack))'
    <2>1. PICK level : level = cur'
      OBVIOUS
    <2>2. PICK nest : nest = N - n + 1
      OBVIOUS
    <2>3. CurEnd(nest)' = LevelEnd(q, level, nest)
      BY <1>2, <2>1, CurEndNext
    <2>4. (N - Len(stack))' = nest
      BY <1>2, <1>3, <2>2
    <2> QED
      BY <1>3, <1>8, <2>1, <2>2, <2>3, <2>4
  <1>11. h \in [0 .. Len(stack') -> 0 .. Limit'] /\ Len(stack') <= N
    BY <1>2, <1>3, <1>5, <1>6
  <1>12. \A i \in 1 .. Len(stack') : h[i - 1] = RestEnd(h[i], s[i], N - i + 1)'
    BY <1>3, <1>4, <1>9
  <1>13. \A i \in 1 .. Len(stack') : h[i - 1] = RestEnd(h[i], stack[i], N - i + 1)'
    BY <1>12
  <1> QED
    BY <1>7, <1>10, <1>11, <1>13 DEF Chain

(* Nothing comes back from a level that is malformed. *)
LEMMA ChainBroken ==
  ASSUME ScanInv, NEW start, NEW N \in Nat, Chain(start, N), CurEnd(N - Len(stack)) = Malformed
  PROVE  ItemEnd(start, N) = Malformed
  <1>1. PICK e \in [0 .. Len(stack) -> 0 .. Limit] :
          /\ e[0] = ItemEnd(start, N)
          /\ e[Len(stack)] = CurEnd(N - Len(stack))
          /\ \A i \in 1 .. Len(stack) : e[i - 1] = RestEnd(e[i], stack[i], N - i + 1)
    BY DEF Chain
  <1> DEFINE n == Len(stack)
             Bad == {i \in Nat : i <= n /\ e[i] = Malformed}
  <1>2. n \in Nat
    BY LenProperties DEF ScanInv
  <1>3. n \in Bad
    BY <1>1, <1>2
  <1>4. PICK i \in Bad : \A j \in Bad : ~(j < i)
    <2>1. Bad \in SUBSET Nat /\ Bad # {}
      BY <1>3
    <2> HIDE DEF Bad
    <2> QED
      BY <2>1, Least
  <1>5. i = 0
    <2> SUFFICES ASSUME i # 0 PROVE FALSE
      OBVIOUS
    <2>1. i \in 1 .. n /\ i - 1 \in Nat /\ i - 1 < i /\ i - 1 <= n /\ e[i] = Malformed
      BY <1>2
    <2>2. e[i - 1] = Malformed
      BY <1>1, <2>1 DEF RestEnd
    <2> QED
      BY <1>4, <2>1, <2>2
  <1> QED
    BY <1>1, <1>5

-----------------------------------------------------------------------------
(* What the scan reads at q, and what the grammar does. *)
LEMMA SameHead ==
  ASSUME buf \in Seq(Byte), NEW q \in 1 .. Limit
  PROVE  /\ Definite(q) => Past(q) = q + HeadLength(q)
         /\ PlainHead(q) => Definite(q)
         /\ Definite(q) /\ ~(/\ MajorOf(buf[q]) = "simple" /\ Descriptor(buf[q]) = Value8Bit
                             /\ Argument(buf, q) < Descriptors) => PlainHead(q)
         /\ Definite(q) => ~BreakAt(q) /\ \A majors : ~StreamedHead(q, majors)
         /\ StreamedHead(q, StringMajors \cup ContainerMajors) => ~BreakAt(q)
  <1>1. q < Limit => q \in 1 .. Len(buf) /\ buf[q] \in Byte /\ Limit \in Nat
    BY BufferType
  <1>2. q < Limit => Descriptor(buf[q]) \in Nat
    BY <1>1, HeadType
  <1>3. q < Limit /\ Descriptor(buf[q]) <= Value64Bit => BytesNeeded(Descriptor(buf[q])) \in Nat
    BY <1>2, NeededType
  <1>4. Definite(q) => Past(q) = q + HeadLength(q)
    BY <1>1, <1>3 DEF Past, HeadLength, Definite
  <1>5. /\ PlainHead(q) => Definite(q)
        /\ Definite(q) /\ ~(/\ MajorOf(buf[q]) = "simple" /\ Descriptor(buf[q]) = Value8Bit
                            /\ Argument(buf, q) < Descriptors) => PlainHead(q)
    BY <1>1, <1>3 DEF PlainHead, Definite, HeadLength
  <1>6. Definite(q) => ~BreakAt(q) /\ \A majors : ~StreamedHead(q, majors)
    <2>1. ~(IndefiniteLength <= Value64Bit)
      BY DescriptorsAssumption DEF IndefiniteLength
    <2> QED
      BY <2>1, BreakIsNoHead DEF Definite, StreamedHead
  <1>7. StreamedHead(q, StringMajors \cup ContainerMajors) => ~BreakAt(q)
    BY BreakIsNoHead DEF StreamedHead
  <1> QED
    BY <1>4, <1>5, <1>6, <1>7

LEMMA PlainItem ==
  ASSUME buf \in Seq(Byte), NEW q \in 1 .. Limit, PlainHead(q), NEW nest \in Nat
  PROVE  /\ MajorOf(buf[q]) \in StringMajors =>
              ItemEnd(q, nest) = IF PayloadFits(q) THEN PayloadEnd(q) ELSE Malformed
         /\ MajorOf(buf[q]) = "tag" => ItemEnd(q, nest) = ItemEnd(Past(q), nest)
         /\ MajorOf(buf[q]) \in ContainerMajors =>
              ItemEnd(q, nest) =
                IF ItemCount(q) >= U32Max \/ nest = 0 THEN Malformed
                ELSE ItemsEnd(Past(q), ItemCount(q), nest - 1)
         /\ MajorOf(buf[q]) \notin StringMajors \cup ContainerMajors \cup {"tag"} =>
              ItemEnd(q, nest) = Past(q)
  <1>1. Past(q) = q + HeadLength(q)
    BY SameHead
  <1>2. StringEnd(q) = IF PayloadFits(q) THEN PayloadEnd(q) ELSE Malformed
    BY <1>1, StringEndIs DEF PayloadFits, PayloadEnd
  <1> QED
    BY <1>1, <1>2, DefiniteItem

(* The lengths enter_container refuses are those of too many items. *)
LEMMA RefusedIs ==
  ASSUME buf \in Seq(Byte), NEW q \in 1 .. Limit, PlainHead(q), MajorOf(buf[q]) \in ContainerMajors
  PROVE  /\ ItemCount(q) = Children(q) /\ ItemCount(q) \in Nat
         /\ RefusedLength(MajorOf(buf[q]), Argument(buf, q)) <=> ItemCount(q) >= U32Max
         /\ ItemCount(q) = 0 <=> Argument(buf, q) = 0
  <1> DEFINE n == Argument(buf, q)
             map == MajorOf(buf[q]) = "map"
  <1>1. n \in Nat /\ q < Limit
    BY WholeHead DEF PlainHead
  <1>2. /\ ItemCount(q) = IF map THEN 2 * n ELSE n
        /\ Children(q) = IF map THEN 2 * n ELSE n
    BY <1>1 DEF ItemCount, Children, HeadIs
  <1>3. RefusedLength(MajorOf(buf[q]), n) <=> n >= U32Max \/ (map /\ n > U32Max \div 2)
    BY DEF RefusedLength
  <1> HIDE DEF n, map
  <1>4. map \in BOOLEAN
    BY DEF map
  <1>5. (IF map THEN 2 * n ELSE n) >= U32Max <=> n >= U32Max \/ (map /\ n > U32Max \div 2)
    BY <1>1, <1>4, TooManyItems
  <1>6. 2 * n \in Nat /\ (2 * n = 0 <=> n = 0)
    BY <1>1
  <1> QED
    BY <1>1, <1>2, <1>3, <1>5, <1>6 DEF n

-----------------------------------------------------------------------------
(* The chain over one step of each kind. *)
LEMMA ItemSkipped ==
  ASSUME ScanInv, buf' = buf, AtItem, ~BreakAt(p),
         NEW q \in 1 .. Limit, p' = q, cur' = Settled(cur), stack' = stack, chunks' = "none", ~afterTag',
         NEW start, NEW N \in Nat, Chain(start, N),
         NEW nest, nest = N - Len(stack), ItemEnd(p, nest) = q
  PROVE  Chain(start, N)'
  <1>1. buf \in Seq(Byte)
    BY DEF ScanInv
  <1>0. nest \in Nat
    BY LenProperties DEF Chain, ScanInv
  <1>2. CurEnd(nest) = LevelEnd(q, Settled(cur), nest)
    <2>1. CurEnd(nest) = RestEnd(q, Settled(cur), nest)
      BY <1>0, AtItemEnd
    <2> QED
      BY <2>1 DEF RestEnd, Malformed
  <1>3. PICK level : level = Settled(cur)
    OBVIOUS
  <1>4. CurEnd(nest)' = LevelEnd(q, level, nest)
    BY <1>1, <1>3, CurEndNext
  <1>5. CurEnd(nest)' = CurEnd(nest)
    BY <1>2, <1>3, <1>4
  <1> QED
    BY <1>1, <1>5, ChainSame

LEMMA DefiniteSkipped ==
  ASSUME ScanInv, buf' = buf, SkipFixed \/ SkipString, NEW start, NEW N \in Nat, Chain(start, N)
  PROVE  Chain(start, N)'
  <1>1. buf \in Seq(Byte) /\ p \in 1 .. Limit /\ Limit \in Nat
    BY BufferType DEF ScanInv
  <1>2. Definite(p) /\ AtItem /\ cur' = Settled(cur) /\ stack' = stack /\ chunks' = "none" /\ ~afterTag'
    BY DEF SkipFixed, SkipString, StepPast, CanSkipNumber, CanSkipSimple, CanSkipString, AtItem, Running
  <1>3. PICK nest : nest = N - Len(stack)
    OBVIOUS
  <1>4. nest \in Nat
    BY <1>3, LenProperties DEF Chain, ScanInv
  <1>5. ~BreakAt(p)
    BY <1>1, <1>2, SameHead
  <1>6. Past(p) \in 1 .. Limit /\ PayloadEnd(p) \in Nat /\ PayloadEnd(p) > p
    BY <1>1, <1>2, DefiniteHead
  <1>7. CASE SkipFixed
    <2>1. /\ MajorOf(buf[p]) \notin StringMajors \cup ContainerMajors \cup {"tag"}
          /\ PlainHead(p) /\ p' = Past(p)
      BY <1>1, <1>2, <1>7, SameHead
         DEF SkipFixed, CanSkipNumber, CanSkipSimple, HeadIs, StepPast, StringMajors, ContainerMajors
    <2>2. ItemEnd(p, nest) = Past(p)
      BY <1>1, <1>4, <2>1, PlainItem
    <2> QED
      BY <1>2, <1>3, <1>5, <1>6, <2>1, <2>2, ItemSkipped
  <1>8. CASE SkipString
    <2>1. MajorOf(buf[p]) \in StringMajors /\ PayloadFits(p) /\ p' = PayloadEnd(p)
      BY <1>8 DEF SkipString, CanSkipString, HeadIs
    <2>2. PlainHead(p)
      BY <1>1, <1>2, <2>1, SameHead DEF StringMajors
    <2>3. ItemEnd(p, nest) = PayloadEnd(p)
      BY <1>1, <1>4, <2>1, <2>2, PlainItem
    <2>4. PayloadEnd(p) \in 1 .. Limit
      BY <1>1, <1>6, <2>1 DEF PayloadFits
    <2> QED
      BY <1>2, <1>3, <1>5, <2>1, <2>3, <2>4, ItemSkipped
  <1> QED
    BY <1>7, <1>8

(* An empty container needs no level in the code, but one in the grammar.  *)
LEMMA EmptySkipped ==
  ASSUME ScanInv, buf' = buf, SkipEmpty, NEW start, NEW N \in Nat, Chain(start, N)
  PROVE  \/ Chain(start, N)'
         \/ Len(stack) = N /\ ItemEnd(start, N) = Malformed
  <1>1. buf \in Seq(Byte) /\ p \in 1 .. Limit /\ Limit \in Nat
    BY BufferType DEF ScanInv
  <1>2. /\ Definite(p) /\ MajorOf(buf[p]) \in ContainerMajors /\ Argument(buf, p) = 0
        /\ AtItem /\ p' = Past(p) /\ cur' = Settled(cur)
        /\ stack' = stack /\ chunks' = "none" /\ ~afterTag'
    BY DEF SkipEmpty, CanSkipEmpty, HeadIs, StepPast, AtItem, Running
  <1>3. PICK nest : nest = N - Len(stack)
    OBVIOUS
  <1>4. nest \in Nat /\ (nest = 0 => Len(stack) = N)
    BY <1>3, LenProperties DEF Chain, ScanInv
  <1>5. ~BreakAt(p) /\ PlainHead(p)
    BY <1>1, <1>2, SameHead DEF ContainerMajors
  <1>6. Past(p) \in 1 .. Limit
    BY <1>1, <1>2, DefiniteHead
  <1>7. ItemCount(p) = 0 /\ ~(ItemCount(p) >= U32Max)
    BY <1>1, <1>2, <1>5, RefusedIs, CursorAssumption
  <1>8. ItemEnd(p, nest) = IF nest = 0 THEN Malformed ELSE ItemsEnd(Past(p), 0, nest - 1)
    BY <1>1, <1>2, <1>4, <1>5, <1>7, PlainItem
  <1>9. CASE nest = 0
    <2>1. CurEnd(nest) = Malformed
      <3>1. ItemEnd(p, nest) = Malformed
        BY <1>8, <1>9
      <3>2. CurEnd(nest) = RestEnd(ItemEnd(p, nest), Settled(cur), nest)
        BY <1>2, <1>4, <1>5, AtItemEnd
      <3> QED
        BY <3>1, <3>2 DEF RestEnd
    <2>2. CurEnd(N - Len(stack)) = Malformed
      BY <1>3, <2>1
    <2> QED
      BY <1>4, <1>9, <2>2, ChainBroken
  <1>10. CASE nest # 0
    <2>1. nest - 1 \in Nat /\ 0 \in Nat
      BY <1>4, <1>10
    <2>2. ItemsEnd(Past(p), 0, nest - 1) = Past(p)
      BY <1>1, <1>6, <2>1, ItemsEndIs
    <2>3. ItemEnd(p, nest) = Past(p)
      BY <1>8, <1>10, <2>2
    <2> QED
      BY <1>2, <1>3, <1>5, <1>6, <2>3, ItemSkipped
  <1> QED
    BY <1>9, <1>10

LEMMA TagSkipped ==
  ASSUME ScanInv, buf' = buf, SkipTag, NEW start, NEW N \in Nat, Chain(start, N)
  PROVE  Chain(start, N)'
  <1>1. buf \in Seq(Byte) /\ p \in 1 .. Limit
    BY DEF ScanInv
  <1>2. /\ Definite(p) /\ MajorOf(buf[p]) = "tag" /\ AtItem /\ p' = Past(p) /\ afterTag'
        /\ cur' = cur /\ stack' = stack /\ chunks' = "none"
    BY DEF SkipTag, CanSkipTag, HeadIs, AtItem, Running
  <1>3. PICK nest : nest = N - Len(stack)
    OBVIOUS
  <1>4. nest \in Nat
    BY <1>3, LenProperties DEF Chain, ScanInv
  <1>5. ~BreakAt(p) /\ PlainHead(p)
    BY <1>1, <1>2, SameHead
  <1>6. ItemEnd(p, nest) = ItemEnd(Past(p), nest)
    BY <1>1, <1>2, <1>4, <1>5, PlainItem
  <1>7. CurEnd(nest) = RestEnd(ItemEnd(Past(p), nest), Settled(cur), nest)
    BY <1>2, <1>4, <1>5, <1>6, AtItemEnd
  <1>8. PICK q, level : q = Past(p) /\ level = cur
    OBVIOUS
  <1>9. CurEnd(nest)' = RestEnd(ItemEnd(q, nest), Settled(level), nest)
    BY <1>1, <1>2, <1>8, CurEndNext
  <1>10. CurEnd(nest)' = CurEnd(nest)
    BY <1>7, <1>8, <1>9
  <1> QED
    BY <1>1, <1>2, <1>3, <1>10, ChainSame

LEMMA StringOpened ==
  ASSUME ScanInv, buf' = buf, OpenString, NEW start, NEW N \in Nat, Chain(start, N)
  PROVE  Chain(start, N)'
  <1>1. buf \in Seq(Byte) /\ p \in 1 .. Limit
    BY DEF ScanInv
  <1>2. /\ StreamedHead(p, StringMajors) /\ AtItem /\ p' = p + 1 /\ chunks' = MajorOf(buf[p])
        /\ cur' = cur /\ stack' = stack /\ MajorOf(buf[p]) \in StringMajors
    BY DEF OpenString, CanOpenString, Indefinite, HeadIs, StreamedHead
  <1>3. PICK nest : nest = N - Len(stack)
    OBVIOUS
  <1>4. nest \in Nat
    BY <1>3, LenProperties DEF Chain, ScanInv
  <1>5. ~BreakAt(p)
    BY <1>1, <1>2, SameHead DEF StreamedHead
  <1>6. CurEnd(nest) = RestEnd(ChunksEnd(p + 1, MajorOf(buf[p])), Settled(cur), nest)
    BY <1>1, <1>2, <1>4, <1>5, AtItemEnd, StreamedItem
  <1>7. PICK q, level, k : q = p + 1 /\ level = cur /\ k = MajorOf(buf[p])
    OBVIOUS
  <1>8. k # "none"
    BY <1>2, <1>7 DEF StringMajors
  <1>9. CurEnd(nest)' = RestEnd(ChunksEnd(q, k), Settled(level), nest)
    BY <1>1, <1>2, <1>7, <1>8, CurEndNext
  <1>10. CurEnd(nest)' = CurEnd(nest)
    BY <1>6, <1>7, <1>9
  <1> QED
    BY <1>1, <1>2, <1>3, <1>10, ChainSame

LEMMA ChunkPassed ==
  ASSUME ScanInv, buf' = buf, EndChunks \/ SkipChunk, ~afterTag, NEW start, NEW N \in Nat, Chain(start, N)
  PROVE  Chain(start, N)'
  <1>1. buf \in Seq(Byte) /\ p \in 1 .. Limit /\ Limit \in Nat
    BY BufferType DEF ScanInv
  <1>2. chunks \in StringMajors /\ chunks # "none" /\ stack' = stack /\ afterTag' = afterTag
    BY DEF EndChunks, SkipChunk, InChunks, ScanInv
  <1>3. PICK nest : nest = N - Len(stack)
    OBVIOUS
  <1>4. CurEnd(nest) = RestEnd(ChunksEnd(p, chunks), Settled(cur), nest)
    BY <1>2 DEF CurEnd
  <1>5. CASE EndChunks
    <2>1. BreakAt(p) /\ p' = p + 1 /\ chunks' = "none" /\ cur' = Settled(cur)
      BY <1>5 DEF EndChunks, CanEndChunks, BreakAt
    <2>2. ChunksEnd(p, chunks) = p + 1
      BY <1>1, <1>2, <2>1, ChunksEndIs
    <2>3. PICK q, level : q = p + 1 /\ level = Settled(cur)
      OBVIOUS
    <2>4. CurEnd(nest)' = LevelEnd(q, level, nest)
      BY <1>1, <1>2, <2>1, <2>3, CurEndNext
    <2>5. CurEnd(nest) = LevelEnd(q, level, nest)
      BY <1>1, <1>4, <2>2, <2>3 DEF RestEnd, Malformed
    <2> QED
      BY <1>1, <1>2, <1>3, <2>4, <2>5, ChainSame
  <1>6. CASE SkipChunk
    <2>1. /\ Definite(p) /\ MajorOf(buf[p]) = chunks /\ PayloadFits(p) /\ p' = PayloadEnd(p)
          /\ chunks' = chunks /\ cur' = cur
      BY <1>6 DEF SkipChunk, CanSkipChunk, HeadIs
    <2>2. PlainHead(p) /\ ~BreakAt(p) /\ Past(p) = p + HeadLength(p)
      BY <1>1, <1>2, <2>1, SameHead DEF StringMajors
    <2>3. PayloadEnd(p) \in Nat /\ PayloadEnd(p) > p
      BY <1>1, <2>1, DefiniteHead
    <2>4. StringEnd(p) = PayloadEnd(p) /\ StringEnd(p) # Malformed
      BY <1>1, <2>1, <2>2, <2>3, StringEndIs DEF PayloadFits, PayloadEnd, Malformed
    <2>5. ChunksEnd(p, chunks) = ChunksEnd(PayloadEnd(p), chunks)
      BY <1>1, <1>2, <2>1, <2>2, <2>4, ChunksEndIs
    <2>6. PICK q, level, k : q = PayloadEnd(p) /\ level = cur /\ k = chunks
      OBVIOUS
    <2>7. CurEnd(nest)' = RestEnd(ChunksEnd(q, k), Settled(level), nest)
      BY <1>1, <1>2, <2>1, <2>6, CurEndNext
    <2> QED
      BY <1>1, <1>2, <1>3, <1>4, <2>5, <2>6, <2>7, ChainSame
  <1> QED
    BY <1>5, <1>6

LEMMA ContainerOpened ==
  ASSUME ScanInv, buf' = buf, AtItem, ~BreakAt(p), NEW start, NEW N \in Nat, Chain(start, N),
         Len(stack) < N, NEW q \in 1 .. Limit, p' = q, chunks' = "none", ~afterTag',
         NEW level \in GoodLevel, Push(level),
         NEW nest, nest = N - Len(stack) - 1, ItemEnd(p, nest + 1) = LevelEnd(q, level, nest)
  PROVE  Chain(start, N)'
  <1>1. buf \in Seq(Byte) /\ Len(stack) \in Nat
    BY LenProperties DEF ScanInv
  <1>2. nest \in Nat /\ N - Len(stack) = nest + 1
    BY <1>1
  <1>3. PICK outer : outer = Settled(cur)
    OBVIOUS
  <1>4. stack' = Append(stack, outer) /\ level = cur'
    BY <1>3 DEF Push
  <1>5. CurEnd(nest)' = LevelEnd(q, level, nest)
    BY <1>1, <1>4, CurEndNext
  <1>6. LevelEnd(q, level, nest) \in 0 .. Limit
    BY <1>1, <1>2, LevelEndType DEF GoodLevel
  <1>7. CurEnd(nest + 1) = RestEnd(LevelEnd(q, level, nest), outer, nest + 1)
    <2>1. nest + 1 \in Nat
      BY <1>2
    <2> QED
      BY <1>3, <2>1, AtItemEnd
  <1> QED
    BY <1>2, <1>4, <1>5, <1>6, <1>7, ChainGrows

LEMMA DefiniteOpened ==
  ASSUME ScanInv, buf' = buf, OpenDefinite, NEW start, NEW N \in Nat, Chain(start, N), Len(stack) < N
  PROVE  Chain(start, N)'
  <1>1. buf \in Seq(Byte) /\ p \in 1 .. Limit /\ Len(stack) \in Nat
    BY LenProperties DEF ScanInv
  <1> DEFINE major == MajorOf(buf[p])
             opened == [pending |-> Children(p), indefinite |-> FALSE,
                        map |-> HeadIs(p, {"map"}), midPair |-> FALSE]
  <1>2. /\ Definite(p) /\ major \in ContainerMajors /\ p < Limit
        /\ ~RefusedLength(major, Argument(buf, p))
        /\ AtItem /\ Push(opened) /\ p' = Past(p) /\ chunks' = "none" /\ ~afterTag'
    BY DEF OpenDefinite, CanOpenDefinite, HeadIs, StepPast, AtItem, Running
  <1>3. PICK level : level = opened
    OBVIOUS
  <1>4. PlainHead(p) /\ ~BreakAt(p)
    BY <1>1, <1>2, SameHead DEF ContainerMajors
  <1>5. Argument(buf, p) \in Nat /\ Past(p) \in 1 .. Limit
    BY <1>1, <1>2, DefiniteHead
  <1>6. /\ level.pending = ItemCount(p) /\ level.indefinite = FALSE
        /\ ~(ItemCount(p) >= U32Max)
    BY <1>1, <1>2, <1>3, <1>4, RefusedIs
  <1>7. level \in GoodLevel
    <2>1. HeadIs(p, {"map"}) = (major = "map")
      BY <1>2 DEF HeadIs
    <2>2. opened = [pending |-> IF major = "map" THEN 2 * Argument(buf, p) ELSE Argument(buf, p),
                    indefinite |-> FALSE, map |-> major = "map", midPair |-> FALSE]
      BY <2>1 DEF Children
    <2> HIDE DEF major, opened
    <2> QED
      BY <1>2, <1>3, <1>5, <2>2, OpenedGood
  <1>8. PICK nest : nest = N - Len(stack) - 1
    OBVIOUS
  <1>9. nest + 1 \in Nat /\ nest + 1 # 0 /\ (nest + 1) - 1 = nest
    BY <1>1, <1>8
  <1>10. ItemEnd(p, nest + 1) = ItemsEnd(Past(p), ItemCount(p), nest)
    BY <1>1, <1>2, <1>4, <1>6, <1>9, PlainItem
  <1>11. ItemEnd(p, nest + 1) = LevelEnd(Past(p), level, nest)
    BY <1>6, <1>10 DEF LevelEnd
  <1>12. Push(level)
    BY <1>2, <1>3
  <1> HIDE DEF opened
  <1> QED
    BY <1>2, <1>4, <1>5, <1>7, <1>8, <1>11, <1>12, ContainerOpened

LEMMA IndefiniteOpened ==
  ASSUME ScanInv, buf' = buf, OpenIndefinite, NEW start, NEW N \in Nat, Chain(start, N), Len(stack) < N
  PROVE  Chain(start, N)'
  <1>1. buf \in Seq(Byte) /\ p \in 1 .. Limit /\ Len(stack) \in Nat
    BY LenProperties DEF ScanInv
  <1> DEFINE major == MajorOf(buf[p])
             opened == [pending |-> 0, indefinite |-> TRUE,
                        map |-> HeadIs(p, {"map"}), midPair |-> FALSE]
  <1>2. /\ StreamedHead(p, ContainerMajors) /\ p < Limit
        /\ AtItem /\ Push(opened) /\ p' = p + 1 /\ chunks' = "none" /\ ~afterTag'
    BY DEF OpenIndefinite, CanOpenIndefinite, HeadIs, Indefinite, StreamedHead, AtItem, Running
  <1>3. PICK level : level = opened
    OBVIOUS
  <1>4. ~BreakAt(p) /\ p + 1 \in 1 .. Limit
    BY <1>1, <1>2, SameHead, OneByte DEF StreamedHead
  <1>5. HeadIs(p, {"map"}) = (major = "map")
    BY <1>2 DEF HeadIs
  <1>6. level.indefinite = TRUE /\ level.map = (major = "map") /\ level.midPair = FALSE
    BY <1>3, <1>5
  <1>7. level \in GoodLevel
    <2>1. HeadIs(p, {"map"}) \in BOOLEAN
      BY DEF HeadIs
    <2> QED
      BY <1>3, <2>1, UnknownGood
  <1>8. PICK nest : nest = N - Len(stack) - 1
    OBVIOUS
  <1>9. nest + 1 \in Nat /\ nest + 1 # 0 /\ (nest + 1) - 1 = nest
    BY <1>1, <1>8
  <1>10. ItemEnd(p, nest + 1) = BreakEnd(p + 1, major = "map", FALSE, nest)
    BY <1>1, <1>2, <1>9, StreamedItem
  <1>11. ItemEnd(p, nest + 1) = LevelEnd(p + 1, level, nest)
    BY <1>6, <1>10 DEF LevelEnd
  <1>12. Push(level)
    BY <1>2, <1>3
  <1> HIDE DEF opened
  <1> QED
    BY <1>2, <1>4, <1>7, <1>8, <1>11, <1>12, ContainerOpened

LEMMA LevelLeft ==
  ASSUME ScanInv, buf' = buf, Unwind \/ Close, afterTag => ~Finished(cur),
         NEW start, NEW N \in Nat, Chain(start, N)
  PROVE  Chain(start, N)'
  <1>1. buf \in Seq(Byte) /\ p \in 1 .. Limit /\ cur \in Level /\ afterTag' = afterTag
    BY DEF ScanInv, GoodLevel, Unwind, Close
  <1>2. PICK nest : nest = N - Len(stack)
    OBVIOUS
  <1>3. nest \in Nat
    BY <1>2, LenProperties DEF Chain, ScanInv
  <1>4. stack # << >> /\ Pop /\ chunks = "none" /\ chunks' = "none" /\ ~afterTag
    BY DEF Unwind, Close, CanClose, BreakAllowed, AtItem, Running
  <1>5. CurEnd(nest) = LevelEnd(p, cur, nest)
    BY <1>4 DEF CurEnd
  <1>6. CASE Unwind
    <2>1. p' = p /\ cur.indefinite = FALSE /\ cur.pending = 0
      BY <1>1, <1>6 DEF Unwind, Finished, Level
    <2>2. 0 \in Nat /\ LevelEnd(p, cur, nest) = ItemsEnd(p, 0, nest)
      BY <2>1 DEF LevelEnd
    <2>3. CurEnd(nest) = p
      BY <1>1, <1>3, <1>5, <2>2, ItemsEndIs
    <2> QED
      BY <1>1, <1>2, <1>4, <2>1, <2>3, ChainShrinks
  <1>7. CASE Close
    <2>1. /\ p' = p + 1 /\ BreakAt(p) /\ cur.indefinite /\ ~(cur.map /\ cur.midPair)
          /\ p + 1 \in 1 .. Limit
      BY <1>1, <1>7, OneByte DEF Close, CanClose, BreakAllowed, BreakAt
    <2>2. cur.map \in BOOLEAN /\ cur.midPair \in BOOLEAN
      BY <1>1 DEF Level
    <2>3. BreakEnd(p, cur.map, cur.midPair, nest) = p + 1
      BY <1>1, <1>3, <2>1, <2>2, BreakEndIs
    <2>4. CurEnd(nest) = p + 1
      BY <1>5, <2>1, <2>3 DEF LevelEnd
    <2> QED
      BY <1>1, <1>2, <1>4, <2>1, <2>4, ChainShrinks
  <1> QED
    BY <1>6, <1>7

(* The scan gives up on what the grammar refuses, or when its stack is     *)
(* full; on a level at the bottom no break can come first.                 *)
LEMMA RefusedItem ==
  ASSUME ScanInv, GiveUp, NEW nest \in Nat, Len(stack) = FAST_SCAN_DEPTH => nest = 0
  PROVE  ItemEnd(p, nest) = Malformed
  <1>1. buf \in Seq(Byte) /\ p \in 1 .. Limit
    BY DEF ScanInv
  <1> DEFINE major == MajorOf(buf[p])
  <1>2. /\ ~CanSkipNumber /\ ~CanSkipSimple /\ ~CanSkipTag /\ ~CanSkipString
        /\ ~CanOpenString /\ ~CanSkipEmpty /\ ~CanOpenDefinite /\ ~CanOpenIndefinite
    BY DEF GiveUp
  <1>3. ~StreamedHead(p, StringMajors)
    BY <1>2 DEF CanOpenString, Indefinite, HeadIs, StreamedHead
  <1>4. CASE StreamedHead(p, ContainerMajors)
    <2>1. nest = 0
      BY <1>2, <1>4 DEF CanOpenIndefinite, Indefinite, HeadIs, StreamedHead
    <2> QED
      BY <1>1, <1>4, <2>1, StreamedItem
  <1>5. CASE ~StreamedHead(p, ContainerMajors) /\ ~PlainHead(p)
    BY <1>1, <1>3, <1>5, ItemEndIs DEF EndOfItem
  <1>6. CASE PlainHead(p)
    <2>1. Definite(p) /\ p < Limit /\ major \in {MajorName[i] : i \in 1 .. 8}
      BY <1>1, <1>6, SameHead, WholeHead, MajorType DEF PlainHead
    <2>2. CASE major \in StringMajors
      <3>1. ~PayloadFits(p)
        BY <1>2, <2>1, <2>2 DEF CanSkipString, HeadIs
      <3> QED
        BY <1>1, <1>6, <2>2, <3>1, PlainItem
    <2>3. CASE major \in ContainerMajors
      <3>1. ItemCount(p) >= U32Max \/ nest = 0
        BY <1>1, <1>2, <1>6, <2>1, <2>3, RefusedIs DEF CanSkipEmpty, CanOpenDefinite, HeadIs
      <3> QED
        BY <1>1, <1>6, <2>3, <3>1, PlainItem
    <2>4. CASE major \notin StringMajors \cup ContainerMajors
      <3>1. major \in {"uint", "negative", "tag", "simple"}
        BY <2>1, <2>4 DEF MajorName, StringMajors, ContainerMajors
      <3> QED
        BY <1>2, <1>6, <2>1, <3>1
           DEF PlainHead, CanSkipNumber, CanSkipSimple, CanSkipTag, HeadIs
    <2> QED
      BY <2>2, <2>3, <2>4
  <1> QED
    BY <1>4, <1>5, <1>6

LEMMA RefusedEnd ==
  ASSUME ScanInv, GiveUp \/ GiveUpChunks, stack = << >> => ~cur.indefinite,
         NEW nest \in Nat, Len(stack) = FAST_SCAN_DEPTH => nest = 0
  PROVE  CurEnd(nest) = Malformed
  <1>1. buf \in Seq(Byte) /\ p \in 1 .. Limit /\ cur \in Level
    BY DEF ScanInv, GoodLevel
  <1>2. CASE GiveUp /\ cur.indefinite /\ ~afterTag /\ BreakAt(p)
    <2>1. cur.map /\ cur.midPair /\ chunks = "none"
      BY <1>2 DEF GiveUp, CanClose, BreakAllowed, BreakAt, AtItem, Running
    <2>2. cur.map = TRUE /\ cur.midPair = TRUE
      BY <1>1, <2>1 DEF Level
    <2>3. BreakEnd(p, TRUE, TRUE, nest) = Malformed
      <3>1. TRUE \in BOOLEAN
        OBVIOUS
      <3>2. BreakEnd(p, TRUE, TRUE, nest) =
              IF BreakAt(p) THEN IF TRUE /\ TRUE THEN Malformed ELSE p + 1
              ELSE IF ItemEnd(p, nest) = Malformed THEN Malformed
              ELSE BreakEnd(ItemEnd(p, nest), TRUE, ~TRUE, nest)
        BY <1>1, <3>1, BreakEndIs
      <3> QED
        BY <1>2, <3>2
    <2>4. BreakEnd(p, cur.map, cur.midPair, nest) = Malformed
      BY <2>2, <2>3
    <2> QED
      BY <1>2, <2>1, <2>4 DEF CurEnd, LevelEnd
  <1>3. CASE GiveUp /\ ~(cur.indefinite /\ ~afterTag /\ BreakAt(p))
    <2>1. AtItem
      BY <1>3 DEF GiveUp
    <2>2. CurEnd(nest) = RestEnd(ItemEnd(p, nest), Settled(cur), nest)
      BY <1>3, <2>1, AtItemEnd
    <2>3. ItemEnd(p, nest) = Malformed
      BY <1>3, RefusedItem
    <2> QED
      BY <2>2, <2>3 DEF RestEnd
  <1>4. CASE GiveUpChunks
    <2>1. /\ chunks \in StringMajors /\ chunks # "none" /\ ~BreakAt(p)
          /\ ~(Definite(p) /\ MajorOf(buf[p]) = chunks /\ PayloadFits(p))
      BY <1>4 DEF GiveUpChunks, InChunks, CanEndChunks, CanSkipChunk, BreakAt, ScanInv, HeadIs, Definite
    <2>2. PlainHead(p) => Definite(p) /\ (PayloadFits(p) <=> StringEnd(p) # Malformed)
      <3> SUFFICES ASSUME PlainHead(p)
                   PROVE  Definite(p) /\ (PayloadFits(p) <=> StringEnd(p) # Malformed)
        OBVIOUS
      <3>1. Definite(p) /\ Past(p) = p + HeadLength(p)
        BY <1>1, SameHead
      <3>2. PayloadEnd(p) \in Nat /\ PayloadEnd(p) > p
        BY <1>1, <3>1, DefiniteHead
      <3> QED
        BY <1>1, <3>1, <3>2, StringEndIs DEF PayloadFits, PayloadEnd, Malformed
    <2>3. ChunksEnd(p, chunks) = Malformed
      BY <1>1, <2>1, <2>2, ChunksEndIs
    <2> QED
      BY <2>1, <2>3 DEF CurEnd, RestEnd
  <1> QED
    BY <1>2, <1>3, <1>4

-----------------------------------------------------------------------------
(* The scan follows the grammar: as long as it runs, the levels it keeps   *)
(* and the bytes ahead are those of the item it was called on.  Each level *)
(* took a byte to open, so without a limit on nesting there is always one  *)
(* to spare; with the limit of the stack the chain can only break when the *)
(* item nests deeper.                                                      *)
Grounded ==
  IF stack = << >> THEN ~cur.indefinite ELSE ~stack[1].indefinite

ContractInv ==
  /\ ScanInv
  /\ scan = "running" =>
       /\ Len(stack) < p
       /\ afterTag => ~Finished(cur) /\ chunks = "none"
       /\ Grounded
       /\ Chain(1, Unlimited)
       /\ Chain(1, FAST_SCAN_DEPTH) \/ ItemEnd(1, FAST_SCAN_DEPTH) = Malformed
  /\ RightOrAbsent
  /\ PresentIfShallow

(* A step over an item, a level or a chunk. *)
Moves ==
  \/ Unwind \/ Close \/ SkipFixed \/ SkipTag \/ SkipString \/ OpenString
  \/ SkipEmpty \/ OpenDefinite \/ OpenIndefinite \/ EndChunks \/ SkipChunk

LEMMA ChainKept ==
  ASSUME ScanInv, buf' = buf, Moves, afterTag => ~Finished(cur) /\ chunks = "none",
         NEW start, NEW N \in Nat, Chain(start, N),
         Len(stack) < N \/ Len(stack) = FAST_SCAN_DEPTH
  PROVE  \/ Chain(start, N)'
         \/ Len(stack) = N /\ ItemEnd(start, N) = Malformed
  <1>1. (OpenDefinite \/ OpenIndefinite) => Len(stack) < N
    BY DEF OpenDefinite, OpenIndefinite, CanOpenDefinite, CanOpenIndefinite
  <1>2. (EndChunks \/ SkipChunk) => ~afterTag
    BY DEF EndChunks, SkipChunk, InChunks
  <1>3. CASE Unwind \/ Close
    BY <1>3, LevelLeft
  <1>4. CASE SkipFixed \/ SkipString
    BY <1>4, DefiniteSkipped
  <1>5. CASE SkipTag
    BY <1>5, TagSkipped
  <1>6. CASE OpenString
    BY <1>6, StringOpened
  <1>7. CASE SkipEmpty
    BY <1>7, EmptySkipped
  <1>8. CASE OpenDefinite
    BY <1>1, <1>8, DefiniteOpened
  <1>9. CASE OpenIndefinite
    BY <1>1, <1>9, IndefiniteOpened
  <1>10. CASE EndChunks \/ SkipChunk
    BY <1>2, <1>10, ChunkPassed
  <1> QED
    BY <1>3, <1>4, <1>5, <1>6, <1>7, <1>8, <1>9, <1>10 DEF Moves

(* The levels below the top of the stack are never touched. *)
LEMMA GroundedKept ==
  ASSUME ScanInv, buf' = buf, Moves, Len(stack) < p, Grounded,
         afterTag => ~Finished(cur) /\ chunks = "none"
  PROVE  /\ Grounded' /\ Len(stack') < p'
         /\ afterTag' => ~Finished(cur') /\ chunks' = "none"
         /\ scan' = scan
  <1>1. buf \in Seq(Byte) /\ p \in 1 .. Limit /\ Limit \in Nat /\ cur \in Level
        /\ stack \in Seq(GoodLevel) /\ Len(stack) \in Nat
    BY BufferType, LenProperties DEF ScanInv, GoodLevel
  <1>2. Settled(cur).indefinite = cur.indefinite
    BY <1>1, SettledIs
  <1>3. Definite(p) => Past(p) > p /\ Past(p) \in Nat /\ PayloadEnd(p) > p /\ PayloadEnd(p) \in Nat
    BY <1>1, DefiniteHead
  <1>4. CASE Unwind \/ Close
    <2>1. stack # << >> /\ Pop /\ p' >= p /\ p' \in Nat /\ scan' = scan /\ ~afterTag'
      BY <1>1, <1>4 DEF Unwind, Close, CanClose, BreakAllowed
    <2>2. /\ Len(stack') = Len(stack) - 1 /\ cur' = stack[Len(stack)]
          /\ Len(stack) \in Nat \ {0}
          /\ \A i \in 1 .. Len(stack) - 1 : stack'[i] = stack[i]
      BY <1>1, <2>1, AllButLast DEF Pop
    <2>3. ~stack[1].indefinite
      BY <2>1 DEF Grounded
    <2>4. Grounded'
      <3>1. CASE Len(stack) = 1
        BY <2>2, <2>3, <3>1 DEF Grounded
      <3>2. CASE Len(stack) # 1
        <4>1. stack'[1] = stack[1] /\ Len(stack') # 0
          BY <2>2, <3>2
        <4>2. stack' # << >>
          BY <4>1
        <4> QED
          BY <2>3, <4>1, <4>2 DEF Grounded
      <3> QED
        BY <3>1, <3>2
    <2>5. Len(stack') < p'
      BY <1>1, <2>1, <2>2
    <2> QED
      BY <2>1, <2>4, <2>5
  <1>5. CASE SkipFixed \/ SkipTag \/ SkipString \/ OpenString \/ SkipEmpty \/ EndChunks \/ SkipChunk
    <2>1. Definite(p) \/ p' = p + 1
      BY <1>5 DEF SkipFixed, SkipTag, SkipString, OpenString, SkipEmpty, EndChunks, SkipChunk,
                  CanSkipNumber, CanSkipSimple, CanSkipTag, CanSkipString, CanSkipEmpty, CanSkipChunk
    <2>2. /\ p' = p + 1 \/ p' = Past(p) \/ p' = PayloadEnd(p)
          /\ stack' = stack /\ scan' = scan
          /\ cur' = cur \/ cur' = Settled(cur)
      BY <1>5 DEF SkipFixed, SkipTag, SkipString, OpenString, SkipEmpty, EndChunks, SkipChunk, StepPast
    <2>3. p' = p + 1 => p' > p /\ p' \in Nat
      BY <1>1
    <2>4. p' > p /\ p' \in Nat
      BY <1>3, <2>1, <2>2, <2>3
    <2>5. Grounded' /\ Len(stack') < p'
      BY <1>1, <1>2, <2>2, <2>4 DEF Grounded
    <2>6. afterTag' => ~Finished(cur') /\ chunks' = "none"
      <3>1. CASE SkipTag
        BY <3>1 DEF SkipTag, AtItem, Running
      <3>2. CASE SkipFixed \/ SkipString \/ OpenString \/ SkipEmpty
        BY <3>2 DEF SkipFixed, SkipString, OpenString, SkipEmpty, StepPast
      <3>3. CASE EndChunks \/ SkipChunk
        BY <3>3 DEF EndChunks, SkipChunk, InChunks
      <3> QED
        BY <1>5, <3>1, <3>2, <3>3
    <2> QED
      BY <2>2, <2>5, <2>6
  <1>6. CASE OpenDefinite \/ OpenIndefinite
    <2>1. /\ stack' = Append(stack, Settled(cur)) /\ ~afterTag' /\ scan' = scan
          /\ OpenDefinite => Definite(p)
          /\ (OpenDefinite /\ p' = Past(p)) \/ p' = p + 1
      BY <1>6 DEF OpenDefinite, OpenIndefinite, CanOpenDefinite, Push, StepPast
    <2>2. p' >= p + 1 /\ p' \in Nat
      BY <1>1, <1>3, <2>1
    <2>3. /\ Len(stack') = Len(stack) + 1 /\ stack'[Len(stack) + 1] = Settled(cur)
          /\ \A i \in 1 .. Len(stack) : stack'[i] = stack[i]
      BY <1>1, <2>1
    <2>4. Len(stack') < p' /\ stack' # << >>
      BY <1>1, <2>2, <2>3
    <2>5. ~stack'[1].indefinite
      <3>1. CASE stack = << >>
        BY <1>2, <2>3, <3>1 DEF Grounded
      <3>2. CASE stack # << >>
        <4>1. 1 \in 1 .. Len(stack)
          BY <1>1, <3>2, EmptySeq
        <4> QED
          BY <2>3, <3>2, <4>1 DEF Grounded
      <3> QED
        BY <3>1, <3>2
    <2> QED
      BY <2>1, <2>4, <2>5 DEF Grounded
  <1> QED
    BY <1>4, <1>5, <1>6 DEF Moves

(* The item the call is on: nothing is open, and one item is owed.         *)
LEMMA ChainBegins ==
  ASSUME buf \in Seq(Byte), buf' = buf, NEW start \in 1 .. Limit, NEW N \in Nat,
         p' = start, cur' = Top, stack' = << >>, afterTag' = FALSE, chunks' = "none"
  PROVE  Chain(start, N)'
  <1>1. PICK level, q : level = Top /\ q = start
    OBVIOUS
  <1>2. CurEnd(N)' = LevelEnd(q, level, N)
    BY <1>1, CurEndNext
  <1>3. LevelEnd(start, Top, N) = ItemEnd(start, N)
    <2>1. Top.indefinite = FALSE /\ Top.pending = 1 /\ 1 \in Nat /\ 1 # 0 /\ 1 - 1 = 0 /\ 0 \in Nat
      BY DEF Top
    <2>2. ItemsEnd(start, 1, N) = IF ItemEnd(start, N) = Malformed THEN Malformed
                              ELSE ItemsEnd(ItemEnd(start, N), 0, N)
      BY <2>1, ItemsEndIs
    <2>3. ItemEnd(start, N) # Malformed => ItemEnd(start, N) \in 1 .. Limit
      BY ItemEndIs, BufferType
    <2>4. ItemEnd(start, N) # Malformed => ItemsEnd(ItemEnd(start, N), 0, N) = ItemEnd(start, N)
      BY <2>1, <2>3, ItemsEndIs
    <2> QED
      BY <2>1, <2>2, <2>4 DEF LevelEnd
  <1>4. ItemEnd(start, N) \in 0 .. Limit
    BY ItemEndIs, BufferType DEF Malformed
  <1>5. PICK x : x = ItemEnd(start, N)
    OBVIOUS
  <1>6. PICK e : e = [i \in 0 .. 0 |-> x]
    OBVIOUS
  <1>7. e \in [0 .. 0 -> 0 .. Limit] /\ e[0] = x
    BY <1>4, <1>5, <1>6
  <1>8. ItemEnd(start, N)' = x /\ Limit' = Limit
    BY <1>5, GrammarStays
  <1>9. Len(stack') = 0 /\ N - 0 = N /\ (N - Len(stack))' = N
    OBVIOUS
  <1>10. CurEnd(N - Len(stack))' = x
    BY <1>1, <1>2, <1>3, <1>5, <1>9
  <1>11. /\ e \in [0 .. Len(stack') -> 0 .. Limit']
         /\ e[0] = ItemEnd(start, N)' /\ e[Len(stack')] = CurEnd(N - Len(stack))'
         /\ Len(stack') <= N
    BY <1>7, <1>8, <1>9, <1>10
  <1>12. \A i \in 1 .. Len(stack') : e[i - 1] = RestEnd(e[i], stack[i], N - i + 1)'
    BY <1>9
  <1> QED
    BY <1>11, <1>12 DEF Chain

(* All of it has been got past. *)
LEMMA ChainDone ==
  ASSUME ScanInv, Return, ~afterTag, NEW start, NEW N \in Nat, Chain(start, N)
  PROVE  ItemEnd(start, N) = p
  <1>1. chunks = "none" /\ Finished(cur) /\ stack = << >>
    BY DEF Return, Running
  <1>2. buf \in Seq(Byte) /\ p \in 1 .. Limit /\ cur \in Level /\ Len(stack) = 0 /\ N - 0 = N
    BY <1>1 DEF ScanInv, GoodLevel
  <1>3. ItemEnd(start, N) = CurEnd(N)
    BY <1>2 DEF Chain
  <1>4. CurEnd(N) = LevelEnd(p, cur, N)
    BY <1>1 DEF CurEnd
  <1>5. LevelEnd(p, cur, N) = p
    <2>1. cur.indefinite = FALSE /\ cur.pending = 0 /\ 0 \in Nat
      BY <1>1, <1>2 DEF Finished, Level
    <2>2. ItemsEnd(p, 0, N) = p
      BY <1>2, <2>1, ItemsEndIs
    <2> QED
      BY <2>1, <2>2 DEF LevelEnd
  <1> QED
    BY <1>3, <1>4, <1>5

LEMMA ContractStays ==
  ASSUME buf \in Seq(Byte), buf' = buf
  PROVE  /\ Unlimited \in Nat /\ Limit <= Unlimited /\ Unlimited' = Unlimited
         /\ ItemEnd(1, Unlimited)' = ItemEnd(1, Unlimited)
         /\ ItemEnd(1, FAST_SCAN_DEPTH)' = ItemEnd(1, FAST_SCAN_DEPTH)
         /\ \A N : N = Unlimited /\ Chain(1, N)' => Chain(1, Unlimited)'
  <1>1. Unlimited \in Nat /\ Limit <= Unlimited
    BY BufferType DEF Unlimited
  <1>2. Unlimited' = Unlimited
    BY DEF Unlimited
  <1>3. PICK u : u = Unlimited
    OBVIOUS
  <1>4. ItemEnd(1, u)' = ItemEnd(1, u) /\ ItemEnd(1, FAST_SCAN_DEPTH)' = ItemEnd(1, FAST_SCAN_DEPTH)
    BY GrammarStays
  <1>5. ItemEnd(1, Unlimited)' = ItemEnd(1, u)'
    BY <1>2, <1>3 DEF ItemEnd
  <1>6. ASSUME NEW N, N = Unlimited, Chain(1, N)' PROVE Chain(1, Unlimited)'
    BY <1>2, <1>6 DEF Chain
  <1> QED
    BY <1>1, <1>2, <1>3, <1>4, <1>5, <1>6

LEMMA ContractInitInv == ScanInit => ContractInv
  <1> SUFFICES ASSUME ScanInit PROVE ContractInv
    OBVIOUS
  <1>1. ScanInv
    BY ScanInitInv
  <1>2. scan = "idle"
    BY DEF ScanInit, ScanIdle
  <1> QED
    BY <1>1, <1>2 DEF ContractInv, RightOrAbsent, PresentIfShallow

LEMMA ContractCall ==
  ASSUME ContractInv, ScanCall PROVE ContractInv'
  <1>1. ScanInv /\ buf \in Seq(Byte) /\ buf' = buf
    BY DEF ContractInv, ScanInv, ScanCall
  <1>2. ScanInv'
    BY <1>1, CallStep
  <1> DEFINE it == ParserInit.it
  <1>3. /\ it.ptr = 1 /\ it.remaining = 1 /\ Standing(it)
    BY <1>1, ParserInitProperties DEF ScanCall
  <1>4. it.type = MajorOf(buf[1])
    BY <1>3 DEF Standing, HeadHere, HeadByte
  <1>5. /\ p' = 1 /\ cur' = Top /\ stack' = << >> /\ afterTag' = FALSE /\ chunks' = "none"
        /\ scan' = IF MajorOf(buf[1]) = "tag" THEN "none" ELSE "running"
    BY <1>3, <1>4 DEF ScanCall, ScanFrom
  <1>6. PICK N : N = Unlimited
    OBVIOUS
  <1>7. N \in Nat /\ FAST_SCAN_DEPTH \in Nat
    BY <1>1, <1>6, ContractStays, FastScanAssumption
  <1>8. Chain(1, N)' /\ Chain(1, FAST_SCAN_DEPTH)'
    <2>1. /\ 1 \in 1 .. Limit
          /\ p' = 1 /\ cur' = Top /\ stack' = << >> /\ afterTag' = FALSE /\ chunks' = "none"
      BY <1>1, <1>5, BufferType
    <2>2. Chain(1, N)'
      BY <1>1, <1>7, <2>1, ChainBegins
    <2>3. Chain(1, FAST_SCAN_DEPTH)'
      BY <1>1, <1>7, <2>1, ChainBegins
    <2> QED
      BY <2>2, <2>3
  <1>9. Chain(1, Unlimited)'
    BY <1>1, <1>6, <1>8, ContractStays
  <1>10. Len(stack') < p' /\ ~afterTag' /\ Grounded'
    BY <1>5 DEF Grounded, Top
  <1>11. RightOrAbsent' /\ PresentIfShallow'
    BY <1>1, <1>5 DEF RightOrAbsent, PresentIfShallow
  <1> QED
    BY <1>2, <1>8, <1>9, <1>10, <1>11 DEF ContractInv

LEMMA ContractMoves ==
  ASSUME ContractInv, buf' = buf, Moves, ScanInv' PROVE ContractInv'
  <1>1. /\ scan = "running"
        /\ ScanInv /\ buf \in Seq(Byte) /\ p \in 1 .. Limit /\ Limit \in Nat
        /\ stack \in Seq(GoodLevel) /\ Len(stack) \in Nat /\ Len(stack) <= FAST_SCAN_DEPTH
    BY BufferType, LenProperties
       DEF ContractInv, ScanInv, Moves, Unwind, Close, SkipFixed, SkipTag, SkipString, OpenString,
           SkipEmpty, OpenDefinite, OpenIndefinite, EndChunks, SkipChunk, AtItem, Running, InChunks
  <1>2. /\ Len(stack) < p /\ (afterTag => ~Finished(cur) /\ chunks = "none") /\ Grounded
        /\ Chain(1, Unlimited)
        /\ Chain(1, FAST_SCAN_DEPTH) \/ ItemEnd(1, FAST_SCAN_DEPTH) = Malformed
    BY <1>1 DEF ContractInv
  <1>3. /\ Grounded' /\ Len(stack') < p' /\ scan' = "running"
        /\ afterTag' => ~Finished(cur') /\ chunks' = "none"
    BY <1>1, <1>2, GroundedKept
  <1>4. PICK N : N = Unlimited
    OBVIOUS
  <1>5. N \in Nat /\ Len(stack) < N /\ FAST_SCAN_DEPTH \in Nat
    BY <1>1, <1>2, <1>4, ContractStays, FastScanAssumption
  <1>6. Chain(1, N)'
    BY <1>1, <1>2, <1>4, <1>5, ChainKept
  <1>7. Chain(1, Unlimited)'
    BY <1>1, <1>4, <1>6, ContractStays
  <1>8. Chain(1, FAST_SCAN_DEPTH)' \/ ItemEnd(1, FAST_SCAN_DEPTH) = Malformed
    BY <1>1, <1>2, <1>5, ChainKept
  <1>9. (Chain(1, FAST_SCAN_DEPTH) \/ ItemEnd(1, FAST_SCAN_DEPTH) = Malformed)'
    BY <1>1, <1>8, ContractStays
  <1>10. RightOrAbsent' /\ PresentIfShallow'
    BY <1>3 DEF RightOrAbsent, PresentIfShallow
  <1>11. (afterTag => ~Finished(cur) /\ chunks = "none")'
    BY <1>3 DEF Finished
  <1> QED
    BY <1>3, <1>7, <1>9, <1>10, <1>11 DEF ContractInv

LEMMA ContractReturn ==
  ASSUME ContractInv, buf' = buf, Return PROVE RightOrAbsent' /\ PresentIfShallow' /\ scan' = "some"
  <1>1. scan = "running" /\ chunks = "none" /\ Finished(cur) /\ p' = p /\ scan' = "some"
    BY DEF Return, Running
  <1>2. ScanInv /\ buf \in Seq(Byte) /\ ~afterTag /\ Chain(1, Unlimited)
    BY <1>1 DEF ContractInv, ScanInv
  <1>3. ItemEnd(1, Unlimited) = p
    BY <1>2, ContractStays, ChainDone
  <1>4. ItemEnd(1, Unlimited)' = p
    BY <1>2, <1>3, ContractStays
  <1> QED
    BY <1>1, <1>4 DEF RightOrAbsent, PresentIfShallow

LEMMA ContractGiveUp ==
  ASSUME ContractInv, buf' = buf, GiveUp \/ GiveUpChunks
  PROVE  RightOrAbsent' /\ PresentIfShallow' /\ scan' = "none"
  <1>1. scan = "running" /\ scan' = "none"
    BY DEF GiveUp, GiveUpChunks, AtItem, Running, InChunks
  <1>2. /\ ScanInv /\ buf \in Seq(Byte) /\ Grounded /\ FAST_SCAN_DEPTH \in Nat
        /\ Chain(1, FAST_SCAN_DEPTH) \/ ItemEnd(1, FAST_SCAN_DEPTH) = Malformed
    BY <1>1, FastScanAssumption DEF ContractInv, ScanInv
  <1>3. ItemEnd(1, FAST_SCAN_DEPTH) = Malformed
    <2> SUFFICES ASSUME Chain(1, FAST_SCAN_DEPTH) PROVE ItemEnd(1, FAST_SCAN_DEPTH) = Malformed
      BY <1>2
    <2>1. PICK nest : nest = FAST_SCAN_DEPTH - Len(stack)
      OBVIOUS
    <2>2. nest \in Nat /\ (Len(stack) = FAST_SCAN_DEPTH => nest = 0)
      BY <1>2, <2>1, LenProperties DEF Chain, ScanInv
    <2>3. stack = << >> => ~cur.indefinite
      BY <1>2 DEF Grounded
    <2>4. CurEnd(nest) = Malformed
      BY <1>2, <2>2, <2>3, RefusedEnd
    <2>5. CurEnd(FAST_SCAN_DEPTH - Len(stack)) = Malformed
      BY <2>1, <2>4
    <2> QED
      BY <1>2, <2>5, ChainBroken
  <1>4. ItemEnd(1, FAST_SCAN_DEPTH)' = Malformed
    BY <1>2, <1>3, ContractStays DEF Malformed
  <1> QED
    BY <1>1, <1>4 DEF RightOrAbsent, PresentIfShallow

LEMMA ContractNextInv == ContractInv /\ [ScanNext]_<< buf, scanVars >> => ContractInv'
  <1> SUFFICES ASSUME ContractInv, [ScanNext]_<< buf, scanVars >> PROVE ContractInv'
    OBVIOUS
  <1>1. ScanInv'
    BY ScanNextInv DEF ContractInv
  <1>2. CASE ScanCall
    BY <1>2, ContractCall
  <1>3. CASE ScanStep
    <2>1. buf' = buf
      BY <1>3 DEF ScanStep
    <2>2. CASE Return \/ GiveUp \/ GiveUpChunks
      <3>1. RightOrAbsent' /\ PresentIfShallow' /\ scan' \in {"some", "none"}
        BY <2>1, <2>2, ContractReturn, ContractGiveUp
      <3> QED
        BY <1>1, <3>1 DEF ContractInv
    <2>3. CASE Moves
      BY <1>1, <2>1, <2>3, ContractMoves
    <2> QED
      BY <1>3, <2>2, <2>3 DEF ScanStep, Moves
  <1>4. CASE UNCHANGED << buf, scanVars >>
    <2>1. buf' = buf /\ p' = p /\ cur' = cur /\ stack' = stack /\ afterTag' = afterTag
          /\ chunks' = chunks /\ scan' = scan
      BY <1>4 DEF scanVars
    <2>2. buf \in Seq(Byte)
      BY DEF ContractInv, ScanInv
    <2>3. RightOrAbsent' /\ PresentIfShallow'
      BY <2>1, <2>2, ContractStays DEF ContractInv, RightOrAbsent, PresentIfShallow, Malformed
    <2>4. ASSUME NEW N \in Nat, Chain(1, N) PROVE Chain(1, N)'
      <3>1. PICK nest : nest = N - Len(stack)
        OBVIOUS
      <3>2. PICK q, level, k : q = p /\ level = cur /\ k = chunks
        OBVIOUS
      <3>3. CurEnd(nest)' = CurEnd(nest)
        BY <2>1, <2>2, <3>2, CurEndNext DEF CurEnd
      <3> QED
        BY <2>1, <2>2, <2>4, <3>1, <3>3, ChainSame
    <2>5. PICK N : N = Unlimited
      OBVIOUS
    <2>6. N \in Nat /\ FAST_SCAN_DEPTH \in Nat
      BY <2>1, <2>2, <2>5, ContractStays, FastScanAssumption
    <2>7. scan = "running" => Chain(1, N)' /\ Chain(1, Unlimited)'
      BY <2>1, <2>2, <2>4, <2>5, <2>6, ContractStays DEF ContractInv
    <2>8. scan = "running" => (Chain(1, FAST_SCAN_DEPTH) \/ ItemEnd(1, FAST_SCAN_DEPTH) = Malformed)'
      BY <2>1, <2>2, <2>4, <2>6, ContractStays DEF ContractInv, Malformed
    <2>9. (scan = "running" => /\ Len(stack) < p /\ Grounded
                               /\ afterTag => ~Finished(cur) /\ chunks = "none")'
      BY <2>1 DEF ContractInv, Grounded, Finished
    <2> QED
      BY <1>1, <2>1, <2>3, <2>7, <2>8, <2>9 DEF ContractInv
  <1> QED
    BY <1>2, <1>3, <1>4 DEF ScanNext

LEMMA ContractInvariant == ScanSpec => []ContractInv
  <1> QED
    BY ContractInitInv, ContractNextInv, PTL DEF ScanSpec

(* "It can only ever be right or absent" (the contract above               *)
(* scan_subtree): on every document, whatever its nesting, the position    *)
(* the scan returns is where the grammar ends the item, and there is no    *)
(* such position unless the item is complete and well-formed.              *)
THEOREM ScanRightOrAbsent == ScanSpec => []RightOrAbsent
  <1>1. ContractInv => RightOrAbsent
    BY DEF ContractInv
  <1> QED
    BY <1>1, ContractInvariant, PTL

(* And absent only for a reason: on every document the scan gives up only  *)
(* on a tag it was called on, or on an item that is malformed or nests     *)
(* deeper than its stack (scan_subtree's early returns of None).           *)
THEOREM ScanPresentIfShallow == ScanSpec => []PresentIfShallow
  <1>1. ContractInv => PresentIfShallow
    BY DEF ContractInv
  <1> QED
    BY <1>1, ContractInvariant, PTL
=============================================================================
