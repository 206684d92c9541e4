---------------------------- MODULE GrammarProofs ----------------------------
(***************************************************************************)
(* What the reference grammar computes, for every buffer.  Its recursion   *)
(* is that of one function, of which the definition alone says nothing     *)
(* until such a function is known to exist.  It does, because every rule   *)
(* looks up something that starts later, or the item at hand (Rank): the   *)
(* least place from which the rules could have no answer does not exist.   *)
(* The rules can then be used one turn at a time (ItemEndIs, ItemsEndIs,   *)
(* BreakEndIs, ChunksEndIs), and a step that leaves the bytes alone leaves *)
(* the ends alone (EndOfStays).  More levels of nesting to spare only add  *)
(* ends, and none beyond as many as there are bytes (NestGrows).           *)
(*                                                                         *)
(* The second half is about the cursor: each of the parser's operations    *)
(* leaves the end of the container its cursor is in where it was, and one  *)
(* that fails had none to keep (Owes).                                     *)
(***************************************************************************)
EXTENDS Grammar, CursorProofs

-----------------------------------------------------------------------------
(* A head that is all there. *)
LEMMA WholeHead ==
  ASSUME buf \in Seq(Byte), NEW q \in 1 .. Limit, PlainHead(q)
  PROVE  /\ q \in 1 .. Len(buf) /\ buf[q] \in Byte
         /\ HeadLength(q) \in Nat \ {0} /\ q + HeadLength(q) \in 1 .. Limit
         /\ Argument(buf, q) \in Nat
  <1> DEFINE d == Descriptor(buf[q])
  <1>1. Limit \in Nat /\ Limit = Len(buf) + 1 /\ Len(buf) \in Nat /\ q \in 1 .. Len(buf)
    BY BufferType DEF PlainHead
  <1>2. buf[q] \in Byte
    BY <1>1, BufferType
  <1>3. d \in Nat /\ d <= Value64Bit /\ HeadLength(q) = 1 + BytesNeeded(d)
    BY <1>2, HeadType DEF PlainHead, HeadLength
  <1>4. BytesNeeded(d) \in Nat /\ (d >= Value8Bit => BytesNeeded(d) \in {1, 2, 4, 8})
    BY <1>3, NeededType
  <1>5. q + HeadLength(q) <= Limit
    BY DEF PlainHead
  <1>6. Argument(buf, q) \in Nat
    <2>1. CASE d < Value8Bit
      BY <1>3, <2>1 DEF Argument
    <2>2. CASE ~(d < Value8Bit)
      <3>1. BytesNeeded(d) \in {1, 2, 4, 8}
        BY <1>3, <1>4, <2>2, DescriptorsAssumption
      <3>2. (q + 1) + BytesNeeded(d) <= Len(buf) + 1 /\ q + 1 \in Nat \ {0}
        BY <1>1, <1>3, <1>4, <1>5
      <3>3. BeLoad(buf, q + 1, BytesNeeded(d)) \in Nat
        BY <3>1, <3>2, LoadType
      <3> QED
        BY <2>2, <3>3 DEF Argument
    <2> QED
      BY <2>1, <2>2
  <1> HIDE DEF d
  <1> QED
    BY <1>1, <1>2, <1>3, <1>4, <1>5, <1>6

LEMMA StringEndIs ==
  ASSUME buf \in Seq(Byte), NEW q \in 1 .. Limit, PlainHead(q)
  PROVE  /\ StringEnd(q) \in 0 .. Limit
         /\ StringEnd(q) = Malformed \/ StringEnd(q) > q
         /\ StringEnd(q) = IF q + HeadLength(q) + Argument(buf, q) <= Limit
                           THEN q + HeadLength(q) + Argument(buf, q) ELSE Malformed
  <1> DEFINE h == HeadLength(q)
             a == Argument(buf, q)
  <1>1. h \in Nat \ {0} /\ a \in Nat /\ Limit \in Nat
    BY WholeHead, BufferType
  <1>2. StringEnd(q) = IF q + h + a <= Limit THEN q + h + a ELSE Malformed
    BY DEF StringEnd
  <1> HIDE DEF h, a
  <1>3. StringEnd(q) \in 0 .. Limit /\ (StringEnd(q) = Malformed \/ StringEnd(q) > q)
    BY <1>1, <1>2 DEF Malformed
  <1> QED
    BY <1>2, <1>3 DEF h, a

LEMMA GoalIs ==
  ASSUME NEW piece \in Pieces, NEW q \in 1 .. Limit, NEW n \in Nat, NEW nest \in Nat
  PROVE  LET g == Goal(piece, q, n, nest)
         IN  /\ g \in Goals
             /\ g.piece = piece /\ g.at = q /\ g.n = n /\ g.nest = nest
  BY DEF Goal, Goals

LEMMA GoalFields ==
  ASSUME NEW g \in Goals
  PROVE  g.piece \in Pieces /\ g.at \in 1 .. Limit /\ g.n \in Nat /\ g.nest \in Nat
  BY DEF Goals

(* The rules one by one. *)
LEMMA Rules ==
  ASSUME NEW f, NEW g
  PROVE  /\ g.piece = "item" => EndBy(f, g) = EndOfItem(f, g.at, g.nest)
         /\ g.piece = "items" =>
              EndBy(f, g) = IF g.n = 0 THEN g.at
                            ELSE OneThen(f, "items", g.at, g.n - 1, g.nest)
         /\ g.piece \in StringMajors => EndBy(f, g) = EndOfChunks(f, g.at, g.piece)
         /\ g.piece \in ContainerMajors =>
              EndBy(f, g) = IF BreakAt(g.at) THEN g.at + 1
                            ELSE OneThen(f, IF g.piece = "map" THEN "value" ELSE g.piece,
                                         g.at, 0, g.nest)
         /\ g.piece = "value" => EndBy(f, g) = OneThen(f, "map", g.at, 0, g.nest)
  BY DEF EndBy, StringMajors, ContainerMajors

(* An item and the rest of a string end at one place the rules know, or    *)
(* where something ends that starts later.                                 *)
Known(g, e) == e \in 0 .. Limit /\ (e = Malformed \/ e > g.at)
Decided(g) ==
  \/ \E e \in 0 .. Limit : Known(g, e) /\ \A f : EndBy(f, g) = e
  \/ \E u \in Goals : u.at > g.at /\ \A f : EndBy(f, g) = f[u]

LEMMA ContainerDecided ==
  ASSUME buf \in Seq(Byte), NEW g \in Goals,
         NEW piece \in Pieces, NEW q \in 1 .. Limit, q > g.at,
         NEW n \in Nat, NEW nest \in Nat,
         \A f : EndBy(f, g) = EndOfContainer(f, piece, q, n, nest)
  PROVE  Decided(g)
  <1>1. CASE nest = 0
    <2>1. \A f : EndBy(f, g) = Malformed
      BY <1>1 DEF EndOfContainer
    <2>2. Malformed \in 0 .. Limit /\ Known(g, Malformed)
      BY BufferType DEF Known, Malformed
    <2> QED
      BY <2>1, <2>2 DEF Decided
  <1>2. CASE nest # 0
    <2>1. nest - 1 \in Nat
      BY <1>2
    <2> DEFINE u == Goal(piece, q, n, nest - 1)
    <2>2. u \in Goals /\ u.at > g.at
      BY <2>1, GoalIs
    <2>3. \A f : EndBy(f, g) = f[u]
      BY <1>2 DEF EndOfContainer
    <2> HIDE DEF u
    <2> QED
      BY <2>2, <2>3 DEF Decided
  <1> QED
    BY <1>1, <1>2

LEMMA ItemDecided ==
  ASSUME buf \in Seq(Byte), NEW g \in Goals, g.piece = "item"
  PROVE  Decided(g)
  <1> DEFINE q == g.at
             major == MajorOf(buf[q])
             h == HeadLength(q)
  <1>1. q \in 1 .. Limit /\ g.nest \in Nat /\ 0 \in Nat /\ Limit \in Nat \ {0}
    BY GoalFields, BufferType
  <1>2. \A f : EndBy(f, g) = EndOfItem(f, q, g.nest)
    BY Rules
  <1>3. q < Limit => q + 1 \in 1 .. Limit /\ q + 1 > q
    BY <1>1
  <1>4. CASE StreamedHead(q, StringMajors)
    <2>1. major \in Pieces /\ q + 1 \in 1 .. Limit /\ q + 1 > q
      BY <1>3, <1>4 DEF StreamedHead, Pieces
    <2> DEFINE u == Goal(major, q + 1, 0, 0)
    <2>2. u \in Goals /\ u.at > g.at
      BY <1>1, <2>1, GoalIs
    <2>3. \A f : EndBy(f, g) = f[u]
      BY <1>2, <1>4 DEF EndOfItem
    <2> HIDE DEF u
    <2> QED
      BY <2>2, <2>3 DEF Decided
  <1>5. CASE ~StreamedHead(q, StringMajors) /\ StreamedHead(q, ContainerMajors)
    <2>1. major \in Pieces /\ q + 1 \in 1 .. Limit /\ q + 1 > q
      BY <1>3, <1>5 DEF StreamedHead, Pieces
    <2>2. \A f : EndBy(f, g) = EndOfContainer(f, major, q + 1, 0, g.nest)
      BY <1>2, <1>5 DEF EndOfItem
    <2> QED
      BY <1>1, <2>1, <2>2, ContainerDecided
  <1>6. CASE ~StreamedHead(q, StringMajors) /\ ~StreamedHead(q, ContainerMajors) /\ ~PlainHead(q)
    <2>1. \A f : EndBy(f, g) = Malformed
      BY <1>2, <1>6 DEF EndOfItem
    <2>2. Known(g, Malformed) /\ Malformed \in 0 .. Limit
      BY <1>1 DEF Known, Malformed
    <2> QED
      BY <2>1, <2>2 DEF Decided
  <1>7. CASE ~StreamedHead(q, StringMajors) /\ ~StreamedHead(q, ContainerMajors) /\ PlainHead(q)
    <2>1. h \in Nat \ {0} /\ q + h \in 1 .. Limit /\ Argument(buf, q) \in Nat
      BY <1>1, <1>7, WholeHead
    <2>2. StringEnd(q) \in 0 .. Limit /\ (StringEnd(q) = Malformed \/ StringEnd(q) > q)
      BY <1>1, <1>7, StringEndIs
    <2>3. \A f : EndBy(f, g) =
                   CASE major \in StringMajors -> StringEnd(q)
                     [] major = "tag" -> f[Goal("item", q + h, 0, g.nest)]
                     [] major \in ContainerMajors ->
                          IF ItemCount(q) >= U32Max THEN Malformed
                          ELSE EndOfContainer(f, "items", q + h, ItemCount(q), g.nest)
                     [] OTHER -> q + h
      BY <1>2, <1>7 DEF EndOfItem
    <2>4. ItemCount(q) \in Nat
      BY <2>1 DEF ItemCount
    <2>5. Known(g, Malformed) /\ Malformed \in 0 .. Limit /\ Known(g, StringEnd(q)) /\ Known(g, q + h)
          /\ q + h > q
      BY <1>1, <2>1, <2>2 DEF Known, Malformed
    <2>6. {"item", "items"} \subseteq Pieces
      BY DEF Pieces
    <2>7. "tag" \notin StringMajors /\ "tag" \notin ContainerMajors
          /\ \A m \in ContainerMajors : m \notin StringMajors
      BY DEF StringMajors, ContainerMajors
    <2> HIDE DEF q, major, h
    <2>8. CASE major \in StringMajors
      <3>1. \A f : EndBy(f, g) = StringEnd(q)
        BY <2>3, <2>7, <2>8
      <3> QED
        BY <2>2, <2>5, <3>1 DEF Decided
    <2>9. CASE major = "tag"
      <3> DEFINE u == Goal("item", q + h, 0, g.nest)
      <3>1. \A f : EndBy(f, g) = f[u]
        BY <2>3, <2>7, <2>9
      <3>2. q + h \in 1 .. Limit /\ 0 \in Nat /\ g.nest \in Nat /\ "item" \in Pieces
        BY <1>1, <2>1, <2>6
      <3>3. u \in Goals /\ u.at = q + h
        BY <3>2, GoalIs
      <3> HIDE DEF u
      <3> QED
        BY <2>5, <3>1, <3>3 DEF Decided, q
    <2>10. CASE major \in ContainerMajors
      <3>1. CASE ItemCount(q) >= U32Max
        <4>1. \A f : EndBy(f, g) = Malformed
          BY <2>3, <2>7, <2>10, <3>1
        <4> QED
          BY <2>5, <4>1 DEF Decided
      <3>2. CASE ~(ItemCount(q) >= U32Max)
        <4>1. \A f : EndBy(f, g) = EndOfContainer(f, "items", q + h, ItemCount(q), g.nest)
          BY <2>3, <2>7, <2>10, <3>2
        <4> QED
          BY <1>1, <2>1, <2>4, <2>5, <2>6, <4>1, ContainerDecided DEF q
      <3> QED
        BY <3>1, <3>2
    <2>11. CASE major \notin StringMajors /\ major # "tag" /\ major \notin ContainerMajors
      <3>1. \A f : EndBy(f, g) = q + h
        BY <2>3, <2>11
      <3>2. q + h \in 0 .. Limit
        BY <1>1, <2>1
      <3> QED
        BY <2>5, <3>1, <3>2 DEF Decided
    <2> QED
      BY <2>8, <2>9, <2>10, <2>11
  <1> QED
    BY <1>4, <1>5, <1>6, <1>7

LEMMA ChunksDecided ==
  ASSUME buf \in Seq(Byte), NEW g \in Goals, g.piece \in StringMajors
  PROVE  Decided(g)
  <1> DEFINE q == g.at
             s == StringEnd(q)
  <1>1. q \in 1 .. Limit /\ 0 \in Nat /\ Limit \in Nat \ {0} /\ g.piece \in Pieces
    BY GoalFields, BufferType
  <1>2. \A f : EndBy(f, g) = EndOfChunks(f, q, g.piece)
    BY Rules
  <1>3. Known(g, Malformed) /\ Malformed \in 0 .. Limit
    BY <1>1 DEF Known, Malformed
  <1>4. CASE BreakAt(q)
    <2>1. \A f : EndBy(f, g) = q + 1
      BY <1>2, <1>4 DEF EndOfChunks
    <2>2. Known(g, q + 1) /\ q + 1 \in 0 .. Limit
      BY <1>1, <1>4 DEF Known, BreakAt
    <2> QED
      BY <2>1, <2>2 DEF Decided
  <1>5. CASE ~BreakAt(q) /\ PlainHead(q) /\ MajorOf(buf[q]) = g.piece /\ s # Malformed
    <2> DEFINE u == Goal(g.piece, s, 0, 0)
    <2>1. s \in 0 .. Limit /\ s > q
      BY <1>1, <1>5, StringEndIs
    <2>2. s \in 1 .. Limit
      BY <1>1, <2>1
    <2>3. u \in Goals /\ u.at > g.at
      BY <1>1, <2>1, <2>2, GoalIs
    <2>4. \A f : EndBy(f, g) = f[u]
      BY <1>2, <1>5 DEF EndOfChunks
    <2> HIDE DEF u
    <2> QED
      BY <2>3, <2>4 DEF Decided
  <1>6. CASE ~BreakAt(q) /\ ~(PlainHead(q) /\ MajorOf(buf[q]) = g.piece /\ s # Malformed)
    <2>1. \A f : EndBy(f, g) = Malformed
      BY <1>2, <1>6 DEF EndOfChunks
    <2> QED
      BY <1>3, <2>1 DEF Decided
  <1> QED
    BY <1>4, <1>5, <1>6

(* The other rules look for the end of one item and then go on there.      *)
Sequenced(g) ==
  \/ \A f : EndBy(f, g) = g.at /\ g.piece = "items"
  \/ \A f : EndBy(f, g) = g.at + 1 /\ g.at < Limit
  \/ \E piece \in Pieces, n \in Nat : \A f : EndBy(f, g) = OneThen(f, piece, g.at, n, g.nest)

LEMMA RestSequenced ==
  ASSUME NEW g \in Goals, g.piece # "item", g.piece \notin StringMajors
  PROVE  Sequenced(g)
  <1>1. g.piece \in {"items", "value"} \cup ContainerMajors /\ g.n \in Nat /\ 0 \in Nat
    BY GoalFields DEF Pieces
  <1>2. {"items", "map", "value"} \cup ContainerMajors \subseteq Pieces
    BY DEF Pieces, ContainerMajors
  <1>3. CASE g.piece = "items"
    <2>1. CASE g.n = 0
      <3>1. \A f : EndBy(f, g) = g.at /\ g.piece = "items"
        BY <1>3, <2>1, Rules
      <3> QED
        BY <3>1 DEF Sequenced
    <2>2. CASE g.n # 0
      <3>1. \A f : EndBy(f, g) = OneThen(f, "items", g.at, g.n - 1, g.nest)
        BY <1>3, <2>2, Rules
      <3>2. g.n - 1 \in Nat
        BY <1>1, <2>2
      <3> QED
        BY <1>2, <3>1, <3>2 DEF Sequenced
    <2> QED
      BY <2>1, <2>2
  <1>4. CASE g.piece = "value"
    <2>1. \A f : EndBy(f, g) = OneThen(f, "map", g.at, 0, g.nest)
      BY <1>4, Rules
    <2> QED
      BY <1>1, <1>2, <2>1 DEF Sequenced
  <1>5. CASE g.piece \in ContainerMajors
    <2> DEFINE next == IF g.piece = "map" THEN "value" ELSE g.piece
    <2>1. next \in Pieces
      BY <1>2, <1>5
    <2>2. \A f : EndBy(f, g) = IF BreakAt(g.at) THEN g.at + 1 ELSE OneThen(f, next, g.at, 0, g.nest)
      BY <1>5, Rules
    <2> HIDE DEF next
    <2>3. CASE BreakAt(g.at)
      <3>1. g.at < Limit
        BY <2>3 DEF BreakAt
      <3>2. \A f : EndBy(f, g) = g.at + 1 /\ g.at < Limit
        BY <2>2, <2>3, <3>1
      <3> QED
        BY <3>2 DEF Sequenced
    <2>4. CASE ~BreakAt(g.at)
      <3>1. \A f : EndBy(f, g) = OneThen(f, next, g.at, 0, g.nest)
        BY <2>2, <2>4
      <3> QED
        BY <1>1, <2>1, <3>1 DEF Sequenced
    <2> QED
      BY <2>3, <2>4
  <1> QED
    BY <1>1, <1>3, <1>4, <1>5

-----------------------------------------------------------------------------
(* Tables of ends, right or wrong: nothing ends before it starts.          *)
Earliest(g) == IF g.piece = "items" THEN g.at ELSE g.at + 1
EndsWell(g, e) == e \in 0 .. Limit /\ (e = Malformed \/ e >= Earliest(g))
Tables == {f \in [Goals -> 0 .. Limit] : \A g \in Goals : EndsWell(g, f[g])}

(* What a rule looks up: something later, or the item at hand.             *)
Rank(g) == 2 * (Limit - g.at) + (IF g.piece = "item" THEN 0 ELSE 1)

LEMMA RankIs ==
  ASSUME buf \in Seq(Byte), NEW g \in Goals
  PROVE  /\ Rank(g) \in Nat /\ Rank(g) < 2 * Limit
         /\ \A u \in Goals : u.at > g.at => Rank(u) < Rank(g)
         /\ \A u \in Goals : u.at = g.at /\ u.piece = "item" /\ g.piece # "item" =>
              Rank(u) < Rank(g)
  <1>1. Limit \in Nat \ {0} /\ g.at \in 1 .. Limit
    BY BufferType, GoalFields
  <1>2. Rank(g) \in Nat /\ Rank(g) < 2 * Limit
    BY <1>1 DEF Rank
  <1>3. ASSUME NEW u \in Goals
        PROVE  /\ u.at > g.at => Rank(u) < Rank(g)
               /\ u.at = g.at /\ u.piece = "item" /\ g.piece # "item" => Rank(u) < Rank(g)
    <2>1. u.at \in 1 .. Limit
      BY GoalFields
    <2> QED
      BY <1>1, <2>1 DEF Rank
  <1> QED
    BY <1>2, <1>3

LEMMA EndByType ==
  ASSUME buf \in Seq(Byte), NEW f \in Tables, NEW g \in Goals
  PROVE  EndsWell(g, EndBy(f, g))
  <1>1. \A u \in Goals : u.at \in 1 .. Limit /\ f[u] \in 0 .. Limit /\ (f[u] = Malformed \/ f[u] >= u.at)
    BY GoalFields, BufferType DEF Tables, EndsWell, Earliest
  <1>2. Limit \in Nat \ {0} /\ g.at \in 1 .. Limit /\ g.nest \in Nat /\ g.piece \in Pieces
    BY BufferType, GoalFields
  <1>3. ASSUME Decided(g) PROVE EndsWell(g, EndBy(f, g))
    <2>1. EndBy(f, g) \in 0 .. Limit /\ (EndBy(f, g) = Malformed \/ EndBy(f, g) > g.at)
      BY <1>1, <1>2, <1>3 DEF Decided, Known
    <2> QED
      BY <1>2, <2>1 DEF EndsWell, Earliest
  <1>4. ASSUME Sequenced(g) PROVE EndsWell(g, EndBy(f, g))
    <2>1. CASE \A h : EndBy(h, g) = g.at /\ g.piece = "items"
      BY <1>2, <2>1 DEF EndsWell, Earliest
    <2>2. CASE \A h : EndBy(h, g) = g.at + 1 /\ g.at < Limit
      BY <1>2, <2>2 DEF EndsWell, Earliest
    <2>3. CASE \E piece \in Pieces, n \in Nat :
                 \A h : EndBy(h, g) = OneThen(h, piece, g.at, n, g.nest)
      <3>1. PICK piece \in Pieces, n \in Nat : EndBy(f, g) = OneThen(f, piece, g.at, n, g.nest)
        BY <2>3
      <3> DEFINE next == f[Goal("item", g.at, 0, g.nest)]
                 u == Goal(piece, next, n, g.nest)
      <3>2. next \in 0 .. Limit
        BY <1>1, <1>2, GoalIs DEF Pieces
      <3>3. EndBy(f, g) = IF next > g.at THEN f[u] ELSE Malformed
        BY <3>1 DEF OneThen
      <3> HIDE DEF next
      <3>4. next > g.at => next \in 1 .. Limit
        BY <1>2, <3>2
      <3>5. next > g.at => u \in Goals /\ u.at = next
        <4> SUFFICES ASSUME next > g.at PROVE u \in Goals /\ u.at = next
          OBVIOUS
        <4>1. next \in 1 .. Limit /\ g.nest \in Nat
          BY <1>2, <3>4
        <4> QED
          BY <4>1, GoalIs
      <3> HIDE DEF u
      <3>6. EndBy(f, g) \in 0 .. Limit /\ (EndBy(f, g) = Malformed \/ EndBy(f, g) > g.at)
        BY <1>1, <1>2, <3>2, <3>3, <3>5 DEF Malformed
      <3> QED
        BY <1>2, <3>6 DEF EndsWell, Earliest
    <2> QED
      BY <1>4, <2>1, <2>2, <2>3 DEF Sequenced
  <1> QED
    BY <1>3, <1>4, ItemDecided, ChunksDecided, RestSequenced

LEMMA EndByLocal ==
  ASSUME buf \in Seq(Byte), NEW f \in Tables, NEW h, NEW g \in Goals,
         \A u \in Goals : Rank(u) < Rank(g) => f[u] = h[u]
  PROVE  EndBy(f, g) = EndBy(h, g)
  <1>1. Limit \in Nat \ {0} /\ g.at \in 1 .. Limit /\ g.nest \in Nat /\ 0 \in Nat
    BY BufferType, GoalFields
  <1>2. \A u \in Goals : u.at > g.at => f[u] = h[u]
    BY RankIs
  <1>3. ASSUME Decided(g) PROVE EndBy(f, g) = EndBy(h, g)
    BY <1>2, <1>3 DEF Decided
  <1>4. ASSUME Sequenced(g), g.piece # "item" PROVE EndBy(f, g) = EndBy(h, g)
    <2>1. CASE \E piece \in Pieces, n \in Nat :
                 \A k : EndBy(k, g) = OneThen(k, piece, g.at, n, g.nest)
      <3>1. PICK piece \in Pieces, n \in Nat :
                   \A k : EndBy(k, g) = OneThen(k, piece, g.at, n, g.nest)
        BY <2>1
      <3> DEFINE i == Goal("item", g.at, 0, g.nest)
                 next == f[i]
                 u == Goal(piece, next, n, g.nest)
      <3>2. i \in Goals /\ i.at = g.at /\ i.piece = "item"
        BY <1>1, GoalIs DEF Pieces
      <3>3. f[i] = h[i] /\ next \in 0 .. Limit
        BY <1>4, <3>2, RankIs DEF Tables
      <3>4. /\ EndBy(f, g) = IF next > g.at THEN f[u] ELSE Malformed
            /\ EndBy(h, g) = IF next > g.at THEN h[u] ELSE Malformed
        BY <3>1, <3>3 DEF OneThen
      <3>5. next > g.at => next \in 1 .. Limit
        BY <1>1, <3>3
      <3>6. next > g.at => u \in Goals /\ u.at = next
        BY <1>1, <3>5, GoalIs
      <3> HIDE DEF u, next
      <3> QED
        BY <1>2, <3>4, <3>6
    <2> QED
      BY <1>4, <2>1 DEF Sequenced
  <1> QED
    BY <1>3, <1>4, ItemDecided, ChunksDecided, RestSequenced

-----------------------------------------------------------------------------
(* The ends of all that starts near enough to the end of the buffer exist, *)
(* hence those of everything.                                              *)
Holds(f, k) == \A g \in Goals : Rank(g) < k => f[g] = EndBy(f, g)

LEMMA TablesExist ==
  ASSUME buf \in Seq(Byte), NEW k \in Nat
  PROVE  \E f \in Tables : Holds(f, k)
  <1> DEFINE Without == {m \in Nat : ~ \E f \in Tables : Holds(f, m)}
  <1> SUFFICES ASSUME Without # {} PROVE FALSE
    OBVIOUS
  <1>1. PICK m \in Without : \A j \in Without : ~(j < m)
    <2>1. Without \in SUBSET Nat
      OBVIOUS
    <2> HIDE DEF Without
    <2> QED
      BY <2>1, Least
  <1>2. m \in Nat /\ ~ \E f \in Tables : Holds(f, m)
    OBVIOUS
  <1>3. m # 0
    <2> DEFINE f == [g \in Goals |-> Malformed]
    <2>1. f \in Tables
      BY BufferType DEF Tables, EndsWell, Malformed
    <2>2. Holds(f, 0)
      BY RankIs DEF Holds
    <2> QED
      BY <1>2, <2>1, <2>2
  <1>4. PICK f \in Tables : Holds(f, m - 1)
    <2>1. m - 1 \in Nat /\ m - 1 < m
      BY <1>2, <1>3
    <2> QED
      BY <1>1, <2>1
  <1> DEFINE h == [g \in Goals |-> EndBy(f, g)]
  <1>5. \A g \in Goals : h[g] = EndBy(f, g) /\ EndsWell(g, h[g])
    BY EndByType
  <1>6. h \in Tables
    <2>1. \A g \in Goals : EndBy(f, g) \in 0 .. Limit
      BY EndByType DEF EndsWell
    <2>2. h \in [Goals -> 0 .. Limit]
      BY <2>1
    <2> HIDE DEF h
    <2> QED
      BY <1>5, <2>2 DEF Tables
  <1> HIDE DEF h
  <1>7. Holds(h, m)
    <2> SUFFICES ASSUME NEW g \in Goals, Rank(g) < m PROVE h[g] = EndBy(h, g)
      BY DEF Holds
    <2>1. \A u \in Goals : Rank(u) < Rank(g) => f[u] = h[u]
      <3> SUFFICES ASSUME NEW u \in Goals, Rank(u) < Rank(g) PROVE f[u] = h[u]
        OBVIOUS
      <3>1. Rank(u) \in Nat /\ Rank(g) \in Nat
        BY RankIs
      <3>2. Rank(u) < m - 1
        BY <1>2, <3>1
      <3> QED
        BY <1>4, <1>5, <3>2 DEF Holds
    <2>2. EndBy(f, g) = EndBy(h, g)
      BY <1>6, <2>1, EndByLocal
    <2> QED
      BY <1>5, <2>2
  <1> QED
    BY <1>2, <1>6, <1>7

LEMMA TablesAgree ==
  ASSUME buf \in Seq(Byte), NEW f \in Tables, NEW h,
         \A g \in Goals : f[g] = EndBy(f, g),
         h = [g \in Goals |-> h[g]], \A g \in Goals : h[g] = EndBy(h, g)
  PROVE  f = h
  <1>1. \A g \in Goals : f[g] = h[g]
    <2> DEFINE Wrong == {r \in Nat : \E g \in Goals : Rank(g) = r /\ f[g] # h[g]}
    <2>1. Wrong = {}
      <3> SUFFICES ASSUME Wrong # {} PROVE FALSE
        OBVIOUS
      <3>1. PICK r \in Wrong : \A s \in Wrong : ~(s < r)
        <4>1. Wrong \in SUBSET Nat
          OBVIOUS
        <4> HIDE DEF Wrong
        <4> QED
          BY <4>1, Least
      <3>2. PICK g \in Goals : Rank(g) = r /\ f[g] # h[g]
        BY <3>1
      <3>3. \A u \in Goals : Rank(u) < Rank(g) => f[u] = h[u]
        BY <3>1, <3>2, RankIs
      <3>4. EndBy(f, g) = EndBy(h, g)
        BY <3>3, EndByLocal
      <3> QED
        BY <3>2, <3>4
    <2> QED
      BY <2>1, RankIs
  <1>2. f = [g \in Goals |-> f[g]]
    BY DEF Tables
  <1> QED
    BY <1>1, <1>2

LEMMA EndOfIs ==
  ASSUME buf \in Seq(Byte)
  PROVE  /\ EndOf \in Tables /\ EndOf = [g \in Goals |-> EndOf[g]]
         /\ \A g \in Goals : EndOf[g] = EndBy(EndOf, g)
  <1> DEFINE m == 2 * Limit
  <1>1. m \in Nat
    BY BufferType
  <1>2. PICK f \in Tables : Holds(f, m)
    BY <1>1, TablesExist
  <1>3. \A g \in Goals : f[g] = EndBy(f, g)
    BY <1>2, RankIs DEF Holds
  <1>4. f = [g \in Goals |-> f[g]]
    BY DEF Tables
  <1>5. f = [g \in Goals |-> EndBy(f, g)]
    BY <1>3, <1>4
  <1>6. EndOf = [g \in Goals |-> EndBy(EndOf, g)]
    BY <1>5 DEF EndOf
  <1>7. \A g \in Goals : EndOf[g] = EndBy(EndOf, g)
    BY <1>6
  <1>8. EndOf = [g \in Goals |-> EndOf[g]]
    BY <1>6
  <1>9. f = EndOf
    <2> DEFINE h == EndOf
    <2>1. h = [g \in Goals |-> h[g]] /\ \A g \in Goals : h[g] = EndBy(h, g)
      BY <1>7, <1>8
    <2> HIDE DEF h
    <2>2. f = h
      BY <1>3, <2>1, TablesAgree
    <2> QED
      BY <2>2 DEF h
  <1> QED
    BY <1>7, <1>8, <1>9

-----------------------------------------------------------------------------
(* What the grammar's operators are, one turn of the recursion at a time.  *)
LEMMA EndOfType ==
  ASSUME buf \in Seq(Byte), NEW piece \in Pieces, NEW q \in 1 .. Limit, NEW n \in Nat, NEW nest \in Nat
  PROVE  LET e == EndOf[Goal(piece, q, n, nest)]
         IN  /\ e = EndBy(EndOf, Goal(piece, q, n, nest))
             /\ e \in 0 .. Limit /\ (e = Malformed \/ e \in q .. Limit)
             /\ piece # "items" => e = Malformed \/ e \in q + 1 .. Limit
  <1> DEFINE g == Goal(piece, q, n, nest)
             e == EndOf[g]
  <1>1. g \in Goals /\ g.at = q /\ g.piece = piece
    BY GoalIs
  <1>2. e = EndBy(EndOf, g) /\ EndsWell(g, e)
    BY <1>1, EndOfIs DEF Tables
  <1>3. Limit \in Nat
    BY BufferType
  <1> HIDE DEF g, e
  <1>4. /\ e \in 0 .. Limit /\ (e = Malformed \/ e \in q .. Limit)
        /\ piece # "items" => e = Malformed \/ e \in q + 1 .. Limit
    BY <1>1, <1>2, <1>3 DEF EndsWell, Earliest
  <1> QED
    BY <1>2, <1>4 DEF g, e

LEMMA ItemEndIs ==
  ASSUME buf \in Seq(Byte), NEW q \in 1 .. Limit, NEW nest \in Nat
  PROVE  /\ ItemEnd(q, nest) = EndOfItem(EndOf, q, nest)
         /\ ItemEnd(q, nest) = Malformed \/ ItemEnd(q, nest) \in q + 1 .. Limit
  <1> DEFINE g == Goal("item", q, 0, nest)
  <1>1. "item" \in Pieces /\ 0 \in Nat
    BY DEF Pieces
  <1>2. g.piece = "item" /\ g.at = q /\ g.nest = nest
    BY <1>1, GoalIs
  <1>3. /\ EndOf[g] = EndBy(EndOf, g)
        /\ EndOf[g] = Malformed \/ EndOf[g] \in q + 1 .. Limit
    BY <1>1, EndOfType
  <1>4. ItemEnd(q, nest) = EndOf[g]
    BY DEF ItemEnd
  <1> HIDE DEF g
  <1> QED
    BY <1>2, <1>3, <1>4, Rules

(* One item, and then from where it ends. *)
LEMMA OneThenIs ==
  ASSUME buf \in Seq(Byte), NEW piece, NEW q \in 1 .. Limit, NEW n, NEW nest \in Nat
  PROVE  OneThen(EndOf, piece, q, n, nest) =
           LET next == ItemEnd(q, nest)
           IN  IF next = Malformed THEN Malformed ELSE EndOf[Goal(piece, next, n, nest)]
  <1>1. ItemEnd(q, nest) = Malformed \/ ItemEnd(q, nest) \in q + 1 .. Limit
    BY ItemEndIs
  <1>2. ItemEnd(q, nest) > q <=> ItemEnd(q, nest) # Malformed
    BY <1>1 DEF Malformed
  <1>3. OneThen(EndOf, piece, q, n, nest) =
          IF ItemEnd(q, nest) > q THEN EndOf[Goal(piece, ItemEnd(q, nest), n, nest)] ELSE Malformed
    BY DEF OneThen, ItemEnd
  <1> QED
    BY <1>2, <1>3

LEMMA ItemsEndIs ==
  ASSUME buf \in Seq(Byte), NEW q \in 1 .. Limit, NEW n \in Nat, NEW nest \in Nat
  PROVE  /\ ItemsEnd(q, n, nest) =
              IF n = 0 THEN q
              ELSE IF ItemEnd(q, nest) = Malformed THEN Malformed
              ELSE ItemsEnd(ItemEnd(q, nest), n - 1, nest)
         /\ ItemsEnd(q, n, nest) \in 0 .. Limit
  <1> DEFINE g == Goal("items", q, n, nest)
  <1>1. "items" \in Pieces
    BY DEF Pieces
  <1>2. g.piece = "items" /\ g.at = q /\ g.nest = nest /\ g.n = n
    BY <1>1, GoalIs
  <1>3. EndOf[g] = EndBy(EndOf, g) /\ EndOf[g] \in 0 .. Limit
    BY <1>1, EndOfType
  <1>4. ItemsEnd(q, n, nest) = EndOf[g]
    BY DEF ItemsEnd
  <1> HIDE DEF g
  <1>5. ItemsEnd(q, n, nest) = IF n = 0 THEN q ELSE OneThen(EndOf, "items", q, n - 1, nest)
    BY <1>2, <1>3, <1>4, Rules
  <1>6. OneThen(EndOf, "items", q, n - 1, nest) =
          IF ItemEnd(q, nest) = Malformed THEN Malformed
          ELSE ItemsEnd(ItemEnd(q, nest), n - 1, nest)
    BY OneThenIs DEF ItemsEnd
  <1> QED
    BY <1>3, <1>4, <1>5, <1>6

LEMMA BreakIsNoHead ==
  ASSUME NEW q, BreakAt(q)
  PROVE  /\ ~PlainHead(q) /\ \A majors : ~(majors \subseteq StringMajors \cup ContainerMajors /\ StreamedHead(q, majors))
         /\ Descriptor(buf[q]) = IndefiniteLength /\ MajorOf(buf[q]) = "simple"
  <1> DEFINE D == Descriptors
  <1>1. D \in Nat \ {0} /\ buf[q] = 7 * D + (D - 1) /\ IndefiniteLength = D - 1
    BY DescriptorsAssumption DEF BreakAt, BreakByte, IndefiniteLength
  <1>2. (7 * D + (D - 1)) % D = D - 1 /\ (7 * D + (D - 1)) \div D = 7
    <2> HIDE DEF D
    <2>1. D \in Nat \ {0}
      BY <1>1
    <2> QED
      BY <2>1
  <1>3. Descriptor(buf[q]) = IndefiniteLength /\ MajorOf(buf[q]) = "simple"
    BY <1>1, <1>2 DEF Descriptor, MajorOf, Major, MajorName
  <1>4. ~(IndefiniteLength <= Value64Bit)
    BY DescriptorsAssumption DEF IndefiniteLength
  <1>5. "simple" \notin StringMajors \cup ContainerMajors
    BY DEF StringMajors, ContainerMajors
  <1> QED
    BY <1>3, <1>4, <1>5 DEF PlainHead, StreamedHead

LEMMA BreakIsNoItem ==
  ASSUME buf \in Seq(Byte), NEW q \in 1 .. Limit, BreakAt(q), NEW nest \in Nat
  PROVE  ItemEnd(q, nest) = Malformed
  <1>1. ~PlainHead(q) /\ ~StreamedHead(q, StringMajors) /\ ~StreamedHead(q, ContainerMajors)
    BY BreakIsNoHead
  <1> QED
    BY <1>1, ItemEndIs DEF EndOfItem

LEMMA BreakEndIs ==
  ASSUME buf \in Seq(Byte), NEW q \in 1 .. Limit, NEW map \in BOOLEAN, NEW midPair \in BOOLEAN,
         NEW nest \in Nat
  PROVE  /\ BreakEnd(q, map, midPair, nest) =
              IF BreakAt(q) THEN IF map /\ midPair THEN Malformed ELSE q + 1
              ELSE IF ItemEnd(q, nest) = Malformed THEN Malformed
              ELSE BreakEnd(ItemEnd(q, nest), map, ~midPair, nest)
         /\ BreakEnd(q, map, midPair, nest) \in 0 .. Limit
  <1> DEFINE piece == IF ~map THEN "array" ELSE IF midPair THEN "value" ELSE "map"
             rest == IF ~map THEN "array" ELSE IF ~midPair THEN "value" ELSE "map"
             g == Goal(piece, q, 0, nest)
  <1>1. piece \in Pieces /\ 0 \in Nat
    BY DEF Pieces, ContainerMajors
  <1>2. g.piece = piece /\ g.at = q /\ g.nest = nest
    BY <1>1, GoalIs
  <1>3. EndOf[g] = EndBy(EndOf, g) /\ EndOf[g] \in 0 .. Limit
    BY <1>1, EndOfType
  <1>4. BreakEnd(q, map, midPair, nest) = EndOf[g]
    BY DEF BreakEnd
  <1> HIDE DEF g
  <1>5. OneThen(EndOf, rest, q, 0, nest) =
          IF ItemEnd(q, nest) = Malformed THEN Malformed
          ELSE BreakEnd(ItemEnd(q, nest), map, ~midPair, nest)
    BY OneThenIs DEF BreakEnd
  <1>6. CASE map /\ midPair
    <2>1. BreakEnd(q, map, midPair, nest) = OneThen(EndOf, rest, q, 0, nest)
      BY <1>2, <1>3, <1>4, <1>6, Rules
    <2> QED
      BY <1>3, <1>4, <1>5, <1>6, <2>1, BreakIsNoItem
  <1>7. CASE ~(map /\ midPair)
    <2>1. piece \in ContainerMajors /\ rest = IF piece = "map" THEN "value" ELSE piece
      BY <1>7 DEF ContainerMajors
    <2> HIDE DEF piece, rest
    <2>2. BreakEnd(q, map, midPair, nest) =
            IF BreakAt(q) THEN q + 1 ELSE OneThen(EndOf, rest, q, 0, nest)
      BY <1>2, <1>3, <1>4, <2>1, Rules
    <2> QED
      BY <1>3, <1>4, <1>5, <1>7, <2>2
  <1> QED
    BY <1>6, <1>7

LEMMA ChunksEndIs ==
  ASSUME buf \in Seq(Byte), NEW q \in 1 .. Limit, NEW major \in StringMajors
  PROVE  /\ ChunksEnd(q, major) =
              IF BreakAt(q) THEN q + 1
              ELSE IF PlainHead(q) /\ MajorOf(buf[q]) = major /\ StringEnd(q) # Malformed
              THEN ChunksEnd(StringEnd(q), major)
              ELSE Malformed
         /\ ChunksEnd(q, major) \in 0 .. Limit
  <1> DEFINE g == Goal(major, q, 0, 0)
  <1>1. major \in Pieces /\ 0 \in Nat
    BY DEF Pieces
  <1>2. g.piece = major /\ g.at = q
    BY <1>1, GoalIs
  <1>3. EndOf[g] = EndBy(EndOf, g) /\ EndOf[g] \in 0 .. Limit
    BY <1>1, EndOfType
  <1>4. ChunksEnd(q, major) = EndOf[g]
    BY DEF ChunksEnd
  <1> HIDE DEF g
  <1>5. EndOf[g] = EndOfChunks(EndOf, q, major)
    BY <1>2, <1>3, Rules
  <1> QED
    BY <1>3, <1>4, <1>5 DEF EndOfChunks, ChunksEnd

LEMMA EndOfFact ==
  buf \in Seq(Byte) =>
    /\ EndOf \in Tables /\ EndOf = [g \in Goals |-> EndOf[g]]
    /\ \A g \in Goals : EndOf[g] = EndBy(EndOf, g)
  BY EndOfIs

(* The grammar is that of the bytes. *)
LEMMA RulesStay ==
  ASSUME buf' = buf, NEW f, NEW g
  PROVE  EndBy(f, g)' = EndBy(f, g)
  BY DEF EndBy, EndOfItem, EndOfChunks, EndOfContainer, OneThen, StringEnd, HeadLength,
         ItemCount, BreakAt, PlainHead, StreamedHead, Limit

LEMMA EndOfStays ==
  ASSUME buf \in Seq(Byte), buf' = buf
  PROVE  EndOf' = EndOf
  <1> SUFFICES ASSUME NEW h, EndOf' = h PROVE h = EndOf
    OBVIOUS
  <1>1. EndOfFact!1' => EndOfFact!2'
    BY EndOfFact, PTL
  <1>2. Goals' = Goals
    BY DEF Goals, Limit
  <1>3. h = [g \in Goals |-> h[g]] /\ \A g \in Goals : h[g] = EndBy(h, g)'
    BY <1>1, <1>2
  <1>4. \A g : EndBy(h, g)' = EndBy(h, g)
    BY RulesStay
  <1>5. /\ EndOf \in Tables
        /\ \A g \in Goals : EndOf[g] = EndBy(EndOf, g)
    BY EndOfIs
  <1> DEFINE f == EndOf
  <1>6. f \in Tables /\ \A g \in Goals : f[g] = EndBy(f, g)
    BY <1>5
  <1>7. \A g \in Goals : h[g] = EndBy(h, g)
    BY <1>3, <1>4
  <1> HIDE DEF f
  <1>8. f = h
    BY <1>3, <1>6, <1>7, TablesAgree
  <1> QED
    BY <1>8 DEF f

-----------------------------------------------------------------------------
(* What has an end with some levels of nesting to spare has the same with  *)
(* more, and so it is when there are as many as bytes ahead, each level    *)
(* taking a byte.                                                          *)
Enough(g) == EndOf[g] # Malformed \/ g.nest >= Limit - g.at
Deeper(g, m) == Goal(g.piece, g.at, g.n, m)
Settles(g) == Enough(g) => \A m \in Nat : m >= g.nest => EndOf[Deeper(g, m)] = EndOf[g]

LEMMA DeeperIs ==
  ASSUME NEW g \in Goals, NEW m \in Nat
  PROVE  /\ Deeper(g, m) \in Goals /\ Deeper(g, m).piece = g.piece /\ Deeper(g, m).at = g.at
         /\ Deeper(g, m).n = g.n /\ Deeper(g, m).nest = m
  BY GoalFields, GoalIs DEF Deeper

LEMMA GoalDeeper ==
  ASSUME NEW piece \in Pieces, NEW q \in 1 .. Limit, NEW n \in Nat, NEW nest \in Nat, NEW m
  PROVE  Deeper(Goal(piece, q, n, nest), m) = Goal(piece, q, n, m)
  BY GoalIs DEF Deeper

(* The contents of a container. *)
LEMMA ContentsSettle ==
  ASSUME buf \in Seq(Byte), NEW piece \in Pieces, NEW q \in 1 .. Limit, NEW n \in Nat,
         NEW nest \in Nat, NEW m \in Nat, m >= nest,
         \A u \in Goals : u.at = q => Settles(u),
         EndOfContainer(EndOf, piece, q, n, nest) # Malformed \/ nest > Limit - q
  PROVE  EndOfContainer(EndOf, piece, q, n, m) = EndOfContainer(EndOf, piece, q, n, nest)
  <1>1. Limit \in Nat \ {0} /\ Limit - q \in Nat
    BY BufferType
  <1>2. nest # 0 /\ m # 0 /\ nest - 1 \in Nat /\ m - 1 \in Nat /\ m - 1 >= nest - 1
    BY <1>1 DEF EndOfContainer
  <1> DEFINE g == Goal(piece, q, n, nest - 1)
  <1>3. g \in Goals /\ g.at = q /\ g.nest = nest - 1
    BY <1>2, GoalIs
  <1>4. Deeper(g, m - 1) = Goal(piece, q, n, m - 1)
    BY <1>2, GoalDeeper
  <1>5. EndOfContainer(EndOf, piece, q, n, nest) = EndOf[g]
    BY <1>2 DEF EndOfContainer
  <1>6. EndOfContainer(EndOf, piece, q, n, m) = EndOf[Deeper(g, m - 1)]
    BY <1>2, <1>4 DEF EndOfContainer
  <1> HIDE DEF g
  <1>7. Enough(g)
    <2>1. nest > Limit - q => g.nest >= Limit - g.at
      BY <1>1, <1>3
    <2> QED
      BY <1>5, <2>1 DEF Enough
  <1>8. Settles(g)
    BY <1>3
  <1> QED
    BY <1>2, <1>3, <1>5, <1>6, <1>7, <1>8 DEF Settles

(* One item, and then from where it ends. *)
LEMMA OneThenSettles ==
  ASSUME buf \in Seq(Byte), NEW piece \in Pieces, NEW q \in 1 .. Limit, NEW n \in Nat,
         NEW nest \in Nat, NEW m \in Nat, m >= nest,
         Settles(Goal("item", q, 0, nest)),
         \A u \in Goals : u.at > q => Settles(u),
         OneThen(EndOf, piece, q, n, nest) # Malformed \/ nest >= Limit - q
  PROVE  OneThen(EndOf, piece, q, n, m) = OneThen(EndOf, piece, q, n, nest)
  <1> DEFINE i == Goal("item", q, 0, nest)
             next == ItemEnd(q, nest)
             g == Goal(piece, next, n, nest)
  <1>1. Limit \in Nat \ {0} /\ "item" \in Pieces /\ 0 \in Nat
    BY BufferType DEF Pieces
  <1>2. i \in Goals /\ i.at = q /\ i.nest = nest /\ EndOf[i] = next
    BY <1>1, GoalIs DEF ItemEnd
  <1>3. OneThen(EndOf, piece, q, n, nest) = IF next = Malformed THEN Malformed ELSE EndOf[g]
    BY OneThenIs
  <1>4. OneThen(EndOf, piece, q, n, m) =
          IF ItemEnd(q, m) = Malformed THEN Malformed ELSE EndOf[Goal(piece, ItemEnd(q, m), n, m)]
    BY OneThenIs
  <1>5. Enough(i)
    BY <1>2, <1>3 DEF Enough
  <1>6. ItemEnd(q, m) = next
    <2>1. Deeper(i, m) = Goal("item", q, 0, m)
      BY <1>1, GoalDeeper
    <2>2. EndOf[Deeper(i, m)] = EndOf[i]
      BY <1>2, <1>5 DEF Settles
    <2> QED
      BY <1>2, <2>1, <2>2 DEF ItemEnd
  <1>7. next = Malformed \/ next \in q + 1 .. Limit
    BY ItemEndIs
  <1> HIDE DEF i, next
  <1>8. CASE next = Malformed
    BY <1>3, <1>4, <1>6, <1>8
  <1>9. CASE next # Malformed
    <2>1. next \in 1 .. Limit /\ next > q
      BY <1>1, <1>7, <1>9
    <2>2. g \in Goals /\ g.at = next /\ g.nest = nest
      BY <2>1, GoalIs
    <2>3. Deeper(g, m) = Goal(piece, next, n, m)
      BY <2>1, GoalDeeper
    <2> HIDE DEF g
    <2>4. Enough(g)
      <3>1. nest >= Limit - q => g.nest >= Limit - g.at
        BY <1>1, <2>1, <2>2
      <3> QED
        BY <1>3, <1>9, <3>1 DEF Enough
    <2>5. EndOf[Deeper(g, m)] = EndOf[g]
      BY <2>1, <2>2, <2>4 DEF Settles
    <2> QED
      BY <1>3, <1>4, <1>6, <1>9, <2>3, <2>5
  <1> QED
    BY <1>8, <1>9

LEMMA ItemSettles ==
  ASSUME buf \in Seq(Byte), NEW q \in 1 .. Limit, NEW nest \in Nat, NEW m \in Nat, m >= nest,
         \A u \in Goals : u.at > q => Settles(u),
         ItemEnd(q, nest) # Malformed \/ nest >= Limit - q
  PROVE  ItemEnd(q, m) = ItemEnd(q, nest)
  <1> DEFINE major == MajorOf(buf[q])
             after == q + HeadLength(q)
  <1>1. /\ ItemEnd(q, nest) = EndOfItem(EndOf, q, nest)
        /\ ItemEnd(q, m) = EndOfItem(EndOf, q, m)
    BY ItemEndIs
  <1>2. Limit \in Nat \ {0} /\ 0 \in Nat
    BY BufferType
  <1>3. CASE StreamedHead(q, StringMajors)
    BY <1>1, <1>3 DEF EndOfItem
  <1>4. CASE ~StreamedHead(q, StringMajors) /\ StreamedHead(q, ContainerMajors)
    <2>1. major \in Pieces /\ q + 1 \in 1 .. Limit /\ q + 1 > q /\ q < Limit
      BY <1>2, <1>4 DEF StreamedHead, Pieces
    <2>2. /\ ItemEnd(q, nest) = EndOfContainer(EndOf, major, q + 1, 0, nest)
          /\ ItemEnd(q, m) = EndOfContainer(EndOf, major, q + 1, 0, m)
      BY <1>1, <1>4 DEF EndOfItem
    <2>3. \A u \in Goals : u.at = q + 1 => Settles(u)
      BY <2>1
    <2>4. nest >= Limit - q => nest > Limit - (q + 1)
      BY <1>2
    <2> HIDE DEF major
    <2> QED
      BY <1>2, <2>1, <2>2, <2>3, <2>4, ContentsSettle
  <1>5. CASE ~StreamedHead(q, StringMajors) /\ ~StreamedHead(q, ContainerMajors) /\ ~PlainHead(q)
    BY <1>1, <1>5 DEF EndOfItem
  <1>6. CASE ~StreamedHead(q, StringMajors) /\ ~StreamedHead(q, ContainerMajors) /\ PlainHead(q)
    <2>1. after \in 1 .. Limit /\ after > q /\ Argument(buf, q) \in Nat
      BY <1>2, <1>6, WholeHead
    <2>2. ItemCount(q) \in Nat
      BY <2>1 DEF ItemCount
    <2>3. /\ ItemEnd(q, nest) =
                CASE major \in StringMajors -> StringEnd(q)
                  [] major = "tag" -> EndOf[Goal("item", after, 0, nest)]
                  [] major \in ContainerMajors ->
                       IF ItemCount(q) >= U32Max THEN Malformed
                       ELSE EndOfContainer(EndOf, "items", after, ItemCount(q), nest)
                  [] OTHER -> after
          /\ ItemEnd(q, m) =
                CASE major \in StringMajors -> StringEnd(q)
                  [] major = "tag" -> EndOf[Goal("item", after, 0, m)]
                  [] major \in ContainerMajors ->
                       IF ItemCount(q) >= U32Max THEN Malformed
                       ELSE EndOfContainer(EndOf, "items", after, ItemCount(q), m)
                  [] OTHER -> after
      BY <1>1, <1>6 DEF EndOfItem
    <2>4. "tag" \notin StringMajors /\ "tag" \notin ContainerMajors
          /\ \A x \in ContainerMajors : x \notin StringMajors
      BY DEF StringMajors, ContainerMajors
    <2>5. {"item", "items"} \subseteq Pieces
      BY DEF Pieces
    <2> HIDE DEF major, after
    <2>6. CASE major = "tag"
      <3> DEFINE g == Goal("item", after, 0, nest)
      <3>1. g \in Goals /\ g.at = after /\ g.nest = nest
        BY <1>2, <2>1, <2>5, GoalIs
      <3>2. Deeper(g, m) = Goal("item", after, 0, m)
        BY <1>2, <2>1, <2>5, GoalDeeper
      <3>3. ItemEnd(q, nest) = EndOf[g] /\ ItemEnd(q, m) = EndOf[Deeper(g, m)]
        BY <2>3, <2>4, <2>6, <3>2
      <3> HIDE DEF g
      <3>4. nest >= Limit - q => g.nest >= Limit - g.at
        BY <1>2, <2>1, <3>1
      <3>5. Enough(g)
        BY <3>3, <3>4 DEF Enough
      <3> QED
        BY <2>1, <3>1, <3>3, <3>5 DEF Settles
    <2>7. CASE major \in ContainerMajors
      <3>1. CASE ItemCount(q) >= U32Max
        BY <2>3, <2>4, <2>7, <3>1
      <3>2. CASE ~(ItemCount(q) >= U32Max)
        <4>1. /\ ItemEnd(q, nest) = EndOfContainer(EndOf, "items", after, ItemCount(q), nest)
              /\ ItemEnd(q, m) = EndOfContainer(EndOf, "items", after, ItemCount(q), m)
          BY <2>3, <2>4, <2>7, <3>2
        <4>2. \A u \in Goals : u.at = after => Settles(u)
          BY <2>1
        <4>3. nest >= Limit - q => nest > Limit - after
          BY <1>2, <2>1
        <4>4. "items" \in Pieces
          BY <2>5
        <4> QED
          BY <2>1, <2>2, <4>1, <4>2, <4>3, <4>4, ContentsSettle
      <3> QED
        BY <3>1, <3>2
    <2>8. CASE major # "tag" /\ major \notin ContainerMajors
      BY <2>3, <2>8
    <2> QED
      BY <2>6, <2>7, <2>8
  <1> QED
    BY <1>3, <1>4, <1>5, <1>6

LEMMA GoalSettles ==
  ASSUME buf \in Seq(Byte), NEW g \in Goals,
         \A u \in Goals : Rank(u) < Rank(g) => Settles(u)
  PROVE  Settles(g)
  <1> SUFFICES ASSUME Enough(g), NEW m \in Nat, m >= g.nest PROVE EndOf[Deeper(g, m)] = EndOf[g]
    BY DEF Settles
  <1> DEFINE q == g.at
             d == Deeper(g, m)
  <1>1. q \in 1 .. Limit /\ g.nest \in Nat /\ g.n \in Nat /\ g.piece \in Pieces /\ 0 \in Nat
        /\ Limit \in Nat
    BY GoalFields, BufferType
  <1>2. d \in Goals /\ d.piece = g.piece /\ d.at = q /\ d.n = g.n /\ d.nest = m
    BY DeeperIs
  <1>3. EndOf[g] = EndBy(EndOf, g) /\ EndOf[d] = EndBy(EndOf, d)
    BY <1>2, EndOfIs
  <1>4. \A u \in Goals : u.at > q => Settles(u)
    BY RankIs
  <1>5. EndOf[g] # Malformed \/ g.nest >= Limit - q
    BY DEF Enough
  <1> HIDE DEF d
  <1>6. CASE g.piece = "item"
    <2>1. EndOf[g] = EndOfItem(EndOf, q, g.nest) /\ EndOf[d] = EndOfItem(EndOf, q, m)
      BY <1>2, <1>3, <1>6, Rules
    <2>2. EndOf[g] = ItemEnd(q, g.nest) /\ EndOf[d] = ItemEnd(q, m)
      BY <1>1, <2>1, ItemEndIs
    <2> QED
      BY <1>1, <1>4, <1>5, <2>2, ItemSettles DEF d
  <1>7. CASE g.piece \in StringMajors
    BY <1>2, <1>3, <1>7, Rules DEF d
  <1>8. CASE g.piece \notin StringMajors /\ g.piece # "item"
    <2>1. \/ EndOf[g] = EndOf[d]
          \/ \E piece \in Pieces, n \in Nat :
               /\ EndOf[g] = OneThen(EndOf, piece, q, n, g.nest)
               /\ EndOf[d] = OneThen(EndOf, piece, q, n, m)
      <3>1. g.piece \in {"items", "value"} \cup ContainerMajors
            /\ {"items", "map", "value"} \cup ContainerMajors \subseteq Pieces
        BY <1>1, <1>8 DEF Pieces, ContainerMajors
      <3>2. CASE g.piece = "items"
        <4>1. /\ EndOf[g] = IF g.n = 0 THEN q ELSE OneThen(EndOf, "items", q, g.n - 1, g.nest)
              /\ EndOf[d] = IF g.n = 0 THEN q ELSE OneThen(EndOf, "items", q, g.n - 1, m)
          BY <1>2, <1>3, <3>2, Rules
        <4>2. g.n # 0 => g.n - 1 \in Nat
          BY <1>1
        <4> QED
          BY <3>1, <4>1, <4>2
      <3>3. CASE g.piece = "value"
        <4>1. /\ EndOf[g] = OneThen(EndOf, "map", q, 0, g.nest)
              /\ EndOf[d] = OneThen(EndOf, "map", q, 0, m)
          BY <1>2, <1>3, <3>3, Rules
        <4> QED
          BY <1>1, <3>1, <4>1
      <3>4. CASE g.piece \in ContainerMajors
        <4> DEFINE next == IF g.piece = "map" THEN "value" ELSE g.piece
        <4>1. /\ EndOf[g] = IF BreakAt(q) THEN q + 1 ELSE OneThen(EndOf, next, q, 0, g.nest)
              /\ EndOf[d] = IF BreakAt(q) THEN q + 1 ELSE OneThen(EndOf, next, q, 0, m)
          BY <1>2, <1>3, <3>4, Rules
        <4>2. next \in Pieces
          BY <1>1, <3>1
        <4> QED
          BY <1>1, <4>1, <4>2
      <3> QED
        BY <3>1, <3>2, <3>3, <3>4
    <2>2. ASSUME NEW piece \in Pieces, NEW n \in Nat,
                 EndOf[g] = OneThen(EndOf, piece, q, n, g.nest),
                 EndOf[d] = OneThen(EndOf, piece, q, n, m)
          PROVE  EndOf[g] = EndOf[d]
      <3> DEFINE i == Goal("item", q, 0, g.nest)
      <3>1. i \in Goals /\ i.at = q /\ i.piece = "item"
        BY SMTT(30), <1>1, GoalIs DEF Pieces
      <3>2. Settles(i)
        BY <1>8, <3>1, RankIs
      <3> QED
        BY <1>1, <1>4, <1>5, <2>2, <3>2, OneThenSettles
    <2> QED
      BY <2>1, <2>2 DEF d
  <1> QED
    BY <1>6, <1>7, <1>8

LEMMA AllSettle ==
  ASSUME buf \in Seq(Byte)
  PROVE  \A g \in Goals : Settles(g)
  <1> DEFINE Wrong == {r \in Nat : \E g \in Goals : Rank(g) = r /\ ~Settles(g)}
  <1>1. Wrong = {}
    <2> SUFFICES ASSUME Wrong # {} PROVE FALSE
      OBVIOUS
    <2>1. PICK r \in Wrong : \A s \in Wrong : ~(s < r)
      <3>1. Wrong \in SUBSET Nat
        OBVIOUS
      <3> HIDE DEF Wrong
      <3> QED
        BY <3>1, Least
    <2>2. PICK g \in Goals : Rank(g) = r /\ ~Settles(g)
      BY <2>1
    <2>3. \A u \in Goals : Rank(u) < Rank(g) => Settles(u)
      BY <2>1, <2>2, RankIs
    <2> QED
      BY <2>2, <2>3, GoalSettles
  <1> QED
    BY <1>1, RankIs

(* Nesting deeper than the buffer is long does not occur.                  *)
LEMMA NestGrows ==
  ASSUME buf \in Seq(Byte), NEW piece \in Pieces, NEW q \in 1 .. Limit, NEW n \in Nat,
         NEW nest \in Nat, NEW m \in Nat,
         \/ m >= nest /\ EndOf[Goal(piece, q, n, nest)] # Malformed
         \/ m >= Limit - q /\ nest >= Limit - q
         \/ m >= Limit - q /\ EndOf[Goal(piece, q, n, nest)] # Malformed
  PROVE  EndOf[Goal(piece, q, n, m)] = EndOf[Goal(piece, q, n, nest)]
  <1> DEFINE g == Goal(piece, q, n, nest)
             h == Goal(piece, q, n, m)
  <1>1. /\ g \in Goals /\ g.at = q /\ g.nest = nest
        /\ h \in Goals /\ h.at = q /\ h.nest = m
    BY GoalIs
  <1>2. Deeper(g, m) = h /\ Deeper(h, nest) = g
    BY GoalDeeper
  <1>3. Settles(g) /\ Settles(h)
    BY <1>1, AllSettle
  <1> HIDE DEF g, h
  <1>4. CASE m >= nest
    <2>1. Enough(g)
      BY <1>1, <1>4 DEF Enough, g
    <2> QED
      BY <1>1, <1>2, <1>3, <1>4, <2>1 DEF Settles, g, h
  <1>5. CASE nest >= m
    <2>1. Enough(h)
      BY <1>1, <1>5 DEF Enough, g, h
    <2> QED
      BY <1>1, <1>2, <1>3, <1>5, <2>1 DEF Settles, g, h
  <1> QED
    BY <1>4, <1>5

-----------------------------------------------------------------------------
(* A head the parser goes on from: one with its argument, or that of a     *)
(* string or container of unknown length.                                  *)
WholeAt(q) == PlainHead(q) \/ StreamedHead(q, StringMajors \cup ContainerMajors)

LEMMA NoHeadNoItem ==
  ASSUME buf \in Seq(Byte), NEW q \in 1 .. Limit, ~WholeAt(q), NEW nest \in Nat
  PROVE  ItemEnd(q, nest) = Malformed
  <1>1. ~PlainHead(q) /\ ~StreamedHead(q, StringMajors) /\ ~StreamedHead(q, ContainerMajors)
    BY DEF WholeAt, StreamedHead
  <1> QED
    BY <1>1, ItemEndIs DEF EndOfItem

(* The cached argument is that of the head. *)
LEMMA DecodedArgument ==
  ASSUME buf \in Seq(Byte), NEW it \in Cursors, it.ptr \in 1 .. Len(buf),
         NEW d, d = Descriptor(HeadByte(it)), d <= Value64Bit,
         it.ptr + 1 + BytesNeeded(d) <= Limit
  PROVE  /\ Int64(Decoded(it)) = Argument(buf, it.ptr)
         /\ d = Value8Bit => Decoded(it).extra = Argument(buf, it.ptr)
  <1> DEFINE need == BytesNeeded(d)
             extra == IF need = 0 THEN d
                      ELSE IF need <= ExtraBytes THEN BeLoad(buf, it.ptr + 1, need) ELSE 0
             wide == IF need <= ExtraBytes THEN 0 ELSE need
             type == MajorOf(HeadByte(it))
             blank == Blank(it)
             argument == Argument(buf, it.ptr)
  <1>1. HeadByte(it) \in Byte /\ HeadByte(it) = buf[it.ptr]
    BY BufferType DEF HeadByte
  <1>2. d \in Nat /\ need \in {0, 1, 2, 4, 8} /\ (need = 0 <=> d < Value8Bit)
    <2>1. d \in Nat
      BY <1>1, HeadType
    <2> QED
      BY <2>1, NeededType
  <1>3. argument = IF d < Value8Bit THEN d ELSE BeLoad(buf, it.ptr + 1, need)
    BY <1>1 DEF Argument
  <1>4. Decoded(it) = [blank EXCEPT !.type = type, !.extra = extra, !.wide = wide]
    BY DEF Decoded
  <1>5. blank \in Cursors /\ blank.ptr = it.ptr
    BY BlankIs
  <1>6. d = Value8Bit => need = 1
    BY DescriptorsAssumption DEF BytesNeeded
  <1>7. ExtraBytes \in {1, 2, 4}
    BY CursorAssumption
  <1>8. /\ wide = 0 => extra = argument
        /\ wide # 0 => wide = need /\ need # 0 /\ argument = BeLoad(buf, it.ptr + 1, need)
        /\ d = Value8Bit => extra = argument
    <2> HIDE DEF need, argument
    <2> QED
      BY <1>2, <1>3, <1>6, <1>7
  <1> HIDE DEF wide, extra, blank, argument, need, type
  <1>9. Decoded(it).wide = wide /\ Decoded(it).extra = extra /\ Decoded(it).ptr = it.ptr
    BY <1>4, <1>5 DEF Cursors
  <1>10. Int64(Decoded(it)) = argument
    BY <1>8, <1>9 DEF Int64
  <1> QED
    BY <1>8, <1>9, <1>10 DEF argument

(* preparse_value is content exactly with these. *)
LEMMA ValueIs ==
  ASSUME buf \in Seq(Byte), NEW it \in Cursors, Within(it)
  PROVE  LET r == PreparseValue(it)
         IN  /\ r.err = "ok" <=> WholeAt(it.ptr)
             /\ r.err = "ok" /\ ~r.it.unknown =>
                  PlainHead(it.ptr) /\ Int64(r.it) = Argument(buf, it.ptr)
  <1> DEFINE q == it.ptr
             d == Descriptor(HeadByte(it))
             blank == Blank(it)
             typed == [blank EXCEPT !.type = MajorOf(HeadByte(it)), !.extra = d]
             decoded == Decoded(it)
             unknown == [typed EXCEPT !.unknown = TRUE]
             r == PreparseValue(it)
  <1> SUFFICES /\ r.err = "ok" <=> WholeAt(q)
               /\ r.err = "ok" /\ ~r.it.unknown => PlainHead(q) /\ Int64(r.it) = Argument(buf, q)
    OBVIOUS
  <1>1. q \in 1 .. Limit /\ Limit \in Nat /\ HeadByte(it) = buf[q]
        /\ Limit = Len(buf) + 1
    BY BufferType DEF Within, HeadByte
  <1>2. CanRead(it, 1) <=> q < Limit
    BY <1>1, CanReadIs
  <1>3. CASE ~CanRead(it, 1)
    <2>1. r = Result("unexpected_eof", blank)
      BY <1>3 DEF PreparseValue
    <2>2. ~WholeAt(q)
      BY <1>2, <1>3 DEF WholeAt, PlainHead, StreamedHead
    <2> QED
      BY <2>1, <2>2 DEF Result
  <1>4. CASE CanRead(it, 1)
    <2>1. q \in 1 .. Len(buf) /\ q < Limit
      BY <1>1, <1>2, <1>4
    <2>2. d \in Nat /\ Descriptor(buf[q]) = d
      BY <1>1, <2>1, BufferType, HeadType
    <2>3. r = CASE d = IndefiniteLength -> IndefiniteHead(it, typed)
                [] d > Value64Bit /\ d # IndefiniteLength -> ReservedHead(typed)
                [] OTHER ->
                     IF ~CanRead(it, BytesNeeded(d) + 1) THEN Result("unexpected_eof", typed)
                     ELSE IF Overlong(decoded)
                     THEN Result("illegal_simple_type", [decoded EXCEPT !.type = "invalid"])
                     ELSE Result("ok", decoded)
      BY <1>4 DEF PreparseValue
    <2>4. typed.type = MajorOf(buf[q]) /\ unknown.unknown = TRUE
      <3>1. blank \in Cursors
        BY BlankIs
      <3> HIDE DEF blank, d
      <3> QED
        BY <1>1, <3>1 DEF Cursors
    <2>5. ~(IndefiniteLength <= Value64Bit) /\ IndefiniteLength \in Nat /\ Value64Bit \in Nat
      BY DescriptorsAssumption DEF IndefiniteLength
    <2> HIDE DEF typed, decoded, r, d, q, unknown
    <2>6. CASE d = IndefiniteLength
      <3>4. r = IndefiniteHead(it, typed)
        BY <2>3, <2>6
      <3>5. typed.type = "simple" => ~(IsString(typed) \/ IsContainer(typed))
        BY DEF IsString, IsContainer, StringMajors, ContainerMajors
      <3>1. /\ IsString(typed) \/ IsContainer(typed) => r = Result("ok", unknown)
            /\ ~(IsString(typed) \/ IsContainer(typed)) => r.err # "ok"
        BY <3>4, <3>5 DEF IndefiniteHead, Result, unknown
      <3>2. WholeAt(q) <=> IsString(typed) \/ IsContainer(typed)
        BY <2>1, <2>2, <2>4, <2>5, <2>6 DEF WholeAt, PlainHead, StreamedHead, IsString, IsContainer
      <3>3. r.err = "ok" => r.it.unknown = TRUE
        BY <2>4, <3>1 DEF Result
      <3> QED
        BY <3>1, <3>2, <3>3 DEF Result
    <2>7. CASE d > Value64Bit /\ d # IndefiniteLength
      <3>1. r = ReservedHead(typed)
        BY <2>3, <2>7
      <3>2. ~WholeAt(q)
        BY <2>2, <2>5, <2>7 DEF WholeAt, PlainHead, StreamedHead
      <3> QED
        BY <3>1, <3>2 DEF ReservedHead, Result
    <2>8. CASE d <= Value64Bit
      <3>1. r = IF ~CanRead(it, BytesNeeded(d) + 1) THEN Result("unexpected_eof", typed)
                ELSE IF Overlong(decoded)
                THEN Result("illegal_simple_type", [decoded EXCEPT !.type = "invalid"])
                ELSE Result("ok", decoded)
        BY <2>2, <2>3, <2>5, <2>8
      <3>2. BytesNeeded(d) \in Nat /\ HeadLength(q) = 1 + BytesNeeded(d)
        BY <2>2, <2>8, NeededType DEF HeadLength
      <3> DEFINE n == BytesNeeded(d)
      <3>3. CanRead(it, n + 1) <=> q + 1 + n <= Limit
        <4>1. n + 1 \in Nat \ {0}
          BY <3>2
        <4>2. CanRead(it, n + 1) <=> it.ptr + (n + 1) <= Limit
          BY <4>1, CanReadIs
        <4> HIDE DEF n
        <4> QED
          BY <1>1, <3>2, <4>2 DEF q, n
      <3>4. ~StreamedHead(q, StringMajors \cup ContainerMajors)
        BY <2>2, <2>5, <2>8 DEF StreamedHead
      <3>5. CASE ~CanRead(it, n + 1)
        <4>1. ~PlainHead(q)
          BY <1>1, <3>2, <3>3, <3>5 DEF PlainHead, q
        <4> QED
          BY <3>1, <3>4, <3>5, <4>1 DEF Result, WholeAt
      <3>6. CASE CanRead(it, n + 1)
        <4>1. it.ptr + 1 + BytesNeeded(d) <= Limit
          BY <3>3, <3>6 DEF q
        <4>2. it.ptr \in 1 .. Len(buf)
          BY <2>1 DEF q
        <4>3. /\ decoded.type = MajorOf(buf[q]) /\ decoded.ptr = q
              /\ Int64(decoded) = Argument(buf, q)
              /\ d = Value8Bit => decoded.extra = Argument(buf, q)
          BY <1>1, <2>8, <4>1, <4>2, DecodedIs, DecodedArgument DEF d, q, decoded, SameSlot
        <4>4. Descriptor(HeadByte(decoded)) = d
          BY <1>1, <4>3 DEF HeadByte, d
        <4>5. Overlong(decoded) <=> /\ MajorOf(buf[q]) = "simple" /\ d = Value8Bit
                                    /\ Argument(buf, q) < Descriptors
          BY <4>3, <4>4 DEF Overlong
        <4>6. PlainHead(q) <=> ~Overlong(decoded)
          BY <1>1, <2>1, <2>2, <2>8, <3>2, <4>1, <4>5 DEF PlainHead, q
        <4>7. r = IF Overlong(decoded)
                  THEN Result("illegal_simple_type", [decoded EXCEPT !.type = "invalid"])
                  ELSE Result("ok", decoded)
          BY <3>1, <3>6
        <4> QED
          BY <3>4, <4>3, <4>6, <4>7 DEF Result, WholeAt
      <3> QED
        BY <3>5, <3>6
    <2> QED
      BY <2>2, <2>5, <2>6, <2>7, <2>8 DEF q, r
  <1> QED
    BY <1>3, <1>4

-----------------------------------------------------------------------------
(* An operation that succeeds leaves a cursor that goes on to `end`; one   *)
(* that fails was on its way to no end.                                    *)
Owes(r, end, nest) ==
  IF r.err = "ok" THEN ContainerEnd(r.it, FALSE, nest) = end ELSE end = Malformed

(* The cursor's fields that say how its container goes on. *)
LEMMA SameContainer ==
  ASSUME NEW x, NEW y, x.remaining = y.remaining, x.map = y.map, x.key = y.key, NEW e, NEW nest
  PROVE  AfterThis(e, x, nest) = AfterThis(e, y, nest)
  BY DEF AfterThis

LEMMA AfterNothing ==
  ASSUME NEW c, NEW nest PROVE AfterThis(Malformed, c, nest) = Malformed
  BY DEF AfterThis

LEMMA AtBreakIs ==
  ASSUME buf \in Seq(Byte), NEW it \in Cursors
  PROVE  AtBreak(it) <=> BreakAt(it.ptr)
  <1>1. Limit \in Nat /\ it.ptr \in Nat
    BY BufferType DEF Cursors
  <1>2. CanRead(it, 1) <=> it.ptr < Limit
    BY <1>1, CanReadIs
  <1> QED
    BY <1>2 DEF AtBreak, BreakAt, HeadByte

(* preparse_next_value_nodecrement, before the head at `it` is decoded. *)
ToDecode(it, nest) ==
  IF it.remaining = U32Max /\ BreakAt(it.ptr) /\ ~BreakForbidden(it) THEN it.ptr + 1
  ELSE AfterThis(ItemEnd(it.ptr, nest), it, nest)

LEMMA NoDecrementOwes ==
  ASSUME buf \in Seq(Byte), NEW it \in Cursors, Within(it), it.remaining # 0, NEW nest \in Nat
  PROVE  Owes(PreparseNoDecrement(it), ToDecode(it, nest), nest)
  <1> DEFINE r == PreparseNoDecrement(it)
             end == ToDecode(it, nest)
             ended == [it EXCEPT !.type = "invalid", !.remaining = 0, !.unknown = TRUE]
  <1>1. it.ptr \in 1 .. Limit
    BY DEF Within
  <1>2. AtBreak(it) <=> BreakAt(it.ptr)
    BY AtBreakIs
  <1>3. CASE it.remaining = U32Max /\ AtBreak(it)
    <2>1. r = IF BreakForbidden(it) THEN Result("unexpected_break", it) ELSE Result("ok", ended)
      BY <1>3 DEF PreparseNoDecrement
    <2>2. ended.ptr = it.ptr /\ ended.remaining = 0 /\ ended.unknown = TRUE
      BY DEF Cursors
    <2>3. ItemEnd(it.ptr, nest) = Malformed
      BY <1>1, <1>2, <1>3, BreakIsNoItem
    <2>4. BreakForbidden(it) => end = Malformed
      BY <2>3, AfterNothing DEF ToDecode
    <2>5. ~BreakForbidden(it) => end = it.ptr + 1
      BY <1>2, <1>3 DEF ToDecode
    <2> HIDE DEF ended, end, r
    <2>6. ContainerEnd(ended, FALSE, nest) = it.ptr + 1
      BY <2>2 DEF ContainerEnd, ResumeAt
    <2>7. Owes(r, end, nest)
      BY <2>1, <2>4, <2>5, <2>6 DEF Owes, Result
    <2> QED
      BY <2>7 DEF end, r
  <1>4. CASE ~(it.remaining = U32Max /\ AtBreak(it))
    <2>1. r = PreparseValue(it)
      BY <1>4 DEF PreparseNoDecrement
    <2>2. /\ SameSlot(r.it, it) /\ (r.err = "ok" <=> WholeAt(it.ptr))
      BY <2>1, PreparseValueProperties, ValueIs
    <2>3. end = AfterThis(ItemEnd(it.ptr, nest), it, nest)
      BY <1>2, <1>4 DEF ToDecode
    <2>4. r.err # "ok" => end = Malformed
      BY <1>1, <2>2, <2>3, NoHeadNoItem, AfterNothing
    <2> HIDE DEF r, end
    <2>5. ContainerEnd(r.it, FALSE, nest) = AfterThis(ItemEnd(it.ptr, nest), r.it, nest)
      BY <2>2 DEF ContainerEnd, ThisEnd, SameSlot
    <2>6. AfterThis(ItemEnd(it.ptr, nest), r.it, nest) = AfterThis(ItemEnd(it.ptr, nest), it, nest)
      BY <2>2, SameContainer DEF SameSlot
    <2>7. Owes(r, end, nest)
      BY <2>3, <2>4, <2>5, <2>6 DEF Owes
    <2> QED
      BY <2>7 DEF end, r
  <1> QED
    BY <1>3, <1>4

(* Nothing of the next item having been read, that is where the remaining  *)
(* items end.                                                              *)
LEMMA ToDecodeIs ==
  ASSUME buf \in Seq(Byte), NEW it \in Cursors, Within(it), it.remaining # 0, it.type # "tag",
         NEW nest \in Nat
  PROVE  ToDecode(it, nest) =
           IF it.remaining = U32Max THEN BreakEnd(it.ptr, it.map, it.key, nest)
           ELSE ItemsEnd(it.ptr, it.remaining, nest)
  <1> DEFINE q == it.ptr
             next == ItemEnd(q, nest)
  <1>1. q \in 1 .. Limit /\ it.remaining \in Nat /\ it.map \in BOOLEAN /\ it.key \in BOOLEAN
    BY CursorAssumption DEF Within, Cursors
  <1>2. BreakForbidden(it) <=> it.map /\ it.key
    BY DEF BreakForbidden, MidPair
  <1>3. BreakAt(q) => next = Malformed
    BY <1>1, BreakIsNoItem
  <1>4. CASE it.remaining = U32Max
    <2>1. BreakEnd(q, it.map, it.key, nest) =
            IF BreakAt(q) THEN IF it.map /\ it.key THEN Malformed ELSE q + 1
            ELSE IF next = Malformed THEN Malformed
            ELSE BreakEnd(next, it.map, ~it.key, nest)
      BY <1>1, BreakEndIs
    <2>2. AfterThis(next, it, nest) =
            IF next = Malformed THEN Malformed ELSE BreakEnd(next, it.map, ~it.key, nest)
      BY <1>4 DEF AfterThis
    <2> HIDE DEF q, next
    <2>3. ToDecode(it, nest) = IF BreakAt(q) /\ ~BreakForbidden(it) THEN q + 1
                               ELSE AfterThis(next, it, nest)
      BY <1>4 DEF ToDecode, q, next
    <2>4. ToDecode(it, nest) = BreakEnd(q, it.map, it.key, nest)
      BY <1>2, <1>3, <2>1, <2>2, <2>3
    <2> QED
      BY <1>4, <2>4 DEF q
  <1>5. CASE it.remaining # U32Max
    <2>1. ItemsEnd(q, it.remaining, nest) =
            IF next = Malformed THEN Malformed ELSE ItemsEnd(next, it.remaining - 1, nest)
      BY ZenonT(30), <1>1, ItemsEndIs
    <2> QED
      BY <1>5, <2>1 DEF ToDecode, AfterThis
  <1> QED
    BY <1>4, <1>5

(* preparse_next_value: with the item done, and with a tag read. *)
LEMMA NextOwes ==
  ASSUME buf \in Seq(Byte), NEW it \in Cursors, Within(it), it.remaining # 0, it.type # "tag",
         NEW nest \in Nat
  PROVE  Owes(PreparseNext(it), AfterThis(it.ptr, it, nest), nest)
  <1> DEFINE r == PreparseNext(it)
             end == AfterThis(it.ptr, it, nest)
             ended == [it EXCEPT !.type = "invalid", !.remaining = 0, !.unknown = FALSE]
             left == IF it.remaining = U32Max THEN it.remaining ELSE it.remaining - 1
             flipped == ~it.key
             counted == [it EXCEPT !.remaining = left, !.key = flipped]
  <1>1. it.ptr \in 1 .. Limit /\ it.ptr # Malformed /\ CountsAsItem(it)
        /\ it.remaining \in 0 .. U32Max /\ U32Max \in Nat /\ U32Max > 1
    BY CursorAssumption DEF Within, Malformed, CountsAsItem, Cursors
  <1>2. CASE it.remaining = 1
    <2>1. r = Result("ok", ended)
      BY <1>1, <1>2 DEF PreparseNext
    <2>2. ended.ptr = it.ptr /\ ended.remaining = 0 /\ ended.unknown = FALSE
      BY DEF Cursors
    <2>3. 0 \in Nat /\ it.remaining - 1 = 0 /\ it.remaining # U32Max
      BY <1>1, <1>2
    <2>4. end = ItemsEnd(it.ptr, 0, nest)
      BY <1>1, <2>3 DEF AfterThis
    <2>5. end = it.ptr
      BY <1>1, <2>3, <2>4, ItemsEndIs
    <2> HIDE DEF ended, end, r
    <2>6. ContainerEnd(ended, FALSE, nest) = it.ptr
      BY <2>2 DEF ContainerEnd, ResumeAt
    <2>7. Owes(r, end, nest)
      BY <2>1, <2>5, <2>6 DEF Owes, Result
    <2> QED
      BY <2>7 DEF end, r
  <1>3. CASE it.remaining # 1
    <2>1. r = PreparseNoDecrement(counted)
      BY <1>1, <1>3 DEF PreparseNext
    <2>2. left \in 0 .. U32Max /\ left # 0 /\ flipped \in BOOLEAN
          /\ (left = U32Max <=> it.remaining = U32Max)
          /\ (it.remaining # U32Max => left = it.remaining - 1)
      BY <1>1, <1>3
    <2> HIDE DEF left, flipped
    <2>3. /\ counted \in Cursors /\ counted.ptr = it.ptr /\ counted.remaining = left
          /\ counted.type = it.type /\ counted.map = it.map /\ counted.key = flipped
      BY <2>2 DEF Cursors
    <2> HIDE DEF counted
    <2>4. Within(counted) /\ counted.remaining # 0 /\ counted.type # "tag"
      BY <1>1, <2>2, <2>3 DEF Within
    <2>5. Owes(r, ToDecode(counted, nest), nest)
      BY <2>1, <2>3, <2>4, NoDecrementOwes
    <2>6. ToDecode(counted, nest) =
            IF left = U32Max THEN BreakEnd(it.ptr, it.map, flipped, nest)
            ELSE ItemsEnd(it.ptr, left, nest)
      BY <2>3, <2>4, ToDecodeIs
    <2>7. end = IF it.remaining = U32Max THEN BreakEnd(it.ptr, it.map, flipped, nest)
                ELSE ItemsEnd(it.ptr, it.remaining - 1, nest)
      BY <1>1 DEF AfterThis, flipped
    <2> QED
      BY <2>2, <2>5, <2>6, <2>7
  <1> QED
    BY <1>2, <1>3

LEMMA TagOwes ==
  ASSUME buf \in Seq(Byte), NEW it \in Cursors, Within(it), it.remaining # 0, it.type = "tag",
         NEW nest \in Nat
  PROVE  Owes(PreparseNext(it), AfterThis(ItemEnd(it.ptr, nest), it, nest), nest)
  <1>1. PreparseNext(it) = PreparseNoDecrement(it)
    BY DEF PreparseNext, CountsAsItem
  <1>2. ToDecode(it, nest) = AfterThis(ItemEnd(it.ptr, nest), it, nest)
    BY DEF ToDecode, BreakForbidden
  <1> QED
    BY <1>1, <1>2, NoDecrementOwes

-----------------------------------------------------------------------------
(* What stands at q, by its major type. *)
LEMMA StreamedItem ==
  ASSUME buf \in Seq(Byte), NEW q \in 1 .. Limit, NEW nest \in Nat
  PROVE  /\ StreamedHead(q, StringMajors) =>
              ItemEnd(q, nest) = ChunksEnd(q + 1, MajorOf(buf[q]))
         /\ StreamedHead(q, ContainerMajors) =>
              ItemEnd(q, nest) =
                IF nest = 0 THEN Malformed
                ELSE BreakEnd(q + 1, MajorOf(buf[q]) = "map", FALSE, nest - 1)
  <1>1. ItemEnd(q, nest) = EndOfItem(EndOf, q, nest)
    BY ItemEndIs
  <1>2. \A m \in ContainerMajors : m \notin StringMajors /\ (m = "map" \/ m = "array")
    BY DEF StringMajors, ContainerMajors
  <1>3. StreamedHead(q, StringMajors) =>
              ItemEnd(q, nest) = ChunksEnd(q + 1, MajorOf(buf[q]))
    BY <1>1 DEF EndOfItem, ChunksEnd
  <1>4. ASSUME StreamedHead(q, ContainerMajors)
        PROVE ItemEnd(q, nest) =
                IF nest = 0 THEN Malformed
                ELSE BreakEnd(q + 1, MajorOf(buf[q]) = "map", FALSE, nest - 1)
    <2>1. MajorOf(buf[q]) \in ContainerMajors /\ ~StreamedHead(q, StringMajors)
      BY <1>2, <1>4 DEF StreamedHead
    <2>2. ItemEnd(q, nest) = EndOfContainer(EndOf, MajorOf(buf[q]), q + 1, 0, nest)
      BY <1>1, <1>4, <2>1 DEF EndOfItem
    <2>3. MajorOf(buf[q]) = IF MajorOf(buf[q]) = "map" THEN "map" ELSE "array"
      BY <1>2, <2>1
    <2> QED
      BY <2>2, <2>3 DEF EndOfContainer, BreakEnd
  <1> QED
    BY <1>3, <1>4

LEMMA DefiniteItem ==
  ASSUME buf \in Seq(Byte), NEW q \in 1 .. Limit, PlainHead(q), NEW nest \in Nat
  PROVE  LET after == q + HeadLength(q)
         IN  /\ MajorOf(buf[q]) \in StringMajors => ItemEnd(q, nest) = StringEnd(q)
             /\ MajorOf(buf[q]) = "tag" => ItemEnd(q, nest) = ItemEnd(after, nest)
             /\ MajorOf(buf[q]) \in ContainerMajors =>
                  ItemEnd(q, nest) =
                    IF ItemCount(q) >= U32Max \/ nest = 0 THEN Malformed
                    ELSE ItemsEnd(after, ItemCount(q), nest - 1)
             /\ MajorOf(buf[q]) \notin StringMajors \cup ContainerMajors \cup {"tag"} =>
                  ItemEnd(q, nest) = after
  <1> DEFINE major == MajorOf(buf[q])
             after == q + HeadLength(q)
  <1>1. ItemEnd(q, nest) = EndOfItem(EndOf, q, nest)
    BY ItemEndIs
  <1>2. \A majors : ~StreamedHead(q, majors)
    <2>1. ~(IndefiniteLength <= Value64Bit)
      BY DescriptorsAssumption DEF IndefiniteLength
    <2> QED
      BY <2>1 DEF PlainHead, StreamedHead
  <1>3. ItemEnd(q, nest) =
          CASE major \in StringMajors -> StringEnd(q)
            [] major = "tag" -> EndOf[Goal("item", after, 0, nest)]
            [] major \in ContainerMajors ->
                 IF ItemCount(q) >= U32Max THEN Malformed
                 ELSE EndOfContainer(EndOf, "items", after, ItemCount(q), nest)
            [] OTHER -> after
    BY <1>1, <1>2 DEF EndOfItem
  <1>5. "tag" \notin StringMajors /\ "tag" \notin ContainerMajors
        /\ \A m \in ContainerMajors : m \notin StringMajors
    BY DEF StringMajors, ContainerMajors
  <1> HIDE DEF major, after
  <1>7. major \in StringMajors => ItemEnd(q, nest) = StringEnd(q)
    BY <1>3, <1>5
  <1>8. major = "tag" => ItemEnd(q, nest) = EndOf[Goal("item", after, 0, nest)]
    BY <1>3, <1>5
  <1>9. major \in ContainerMajors =>
          ItemEnd(q, nest) = IF ItemCount(q) >= U32Max THEN Malformed
                             ELSE EndOfContainer(EndOf, "items", after, ItemCount(q), nest)
    BY <1>3, <1>5
  <1>10. major \notin StringMajors \cup ContainerMajors \cup {"tag"} => ItemEnd(q, nest) = after
    BY <1>3
  <1>11. ItemEnd(after, nest) = EndOf[Goal("item", after, 0, nest)]
    BY DEF ItemEnd
  <1>12. major \in ContainerMajors =>
           ItemEnd(q, nest) = IF ItemCount(q) >= U32Max \/ nest = 0 THEN Malformed
                              ELSE ItemsEnd(after, ItemCount(q), nest - 1)
    BY <1>9 DEF EndOfContainer, ItemsEnd
  <1> QED
    BY <1>7, <1>8, <1>10, <1>11, <1>12 DEF major, after

(* More items than can be counted: twice the length, for a map. *)
LEMMA TooManyItems ==
  ASSUME NEW n \in Nat, NEW map \in BOOLEAN
  PROVE  (IF map THEN 2 * n ELSE n) >= U32Max <=> n >= U32Max \/ (map /\ n > U32Max \div 2)
  <1>1. U32Max \in Nat /\ U32Max \div 2 \in Nat /\ U32Max = 2 * (U32Max \div 2) + 1
    BY CursorAssumption
  <1>2. 2 * n >= U32Max <=> n > U32Max \div 2
    BY <1>1
  <1>3. n >= U32Max => n > U32Max \div 2
    BY <1>1
  <1> QED
    BY <1>2, <1>3

-----------------------------------------------------------------------------
(* A cursor on a head, with the argument of that head. *)
HeadRead(c) ==
  /\ HeadHere(c) /\ c.remaining # 0
  /\ ~c.unknown => PlainHead(c.ptr) /\ Int64(c) = Argument(buf, c.ptr)

LEMMA HeadReadIs ==
  ASSUME buf \in Seq(Byte), NEW c \in Cursors, HeadRead(c)
  PROVE  /\ c.ptr \in 1 .. Limit /\ c.type = MajorOf(buf[c.ptr])
         /\ c.unknown =>
              /\ c.ptr + 1 \in 1 .. Limit
              /\ IsString(c) => StreamedHead(c.ptr, StringMajors)
              /\ IsContainer(c) => StreamedHead(c.ptr, ContainerMajors)
              /\ IsString(c) \/ IsContainer(c)
         /\ ~c.unknown =>
              /\ PastHead(c) \in Cursors /\ Within(PastHead(c))
              /\ PastHead(c).ptr = c.ptr + HeadLength(c.ptr)
              /\ PastHead(c) = [c EXCEPT !.ptr = c.ptr + HeadLength(c.ptr)]
              /\ PastHead(c).remaining = c.remaining /\ PastHead(c).type = c.type
              /\ PastHead(c).map = c.map /\ PastHead(c).key = c.key
              /\ PastHead(c).unknown = FALSE
  <1>1. /\ HeadHere(c) /\ c.ptr \in 1 .. Len(buf) /\ HeadByte(c) = buf[c.ptr]
        /\ c.type = MajorOf(buf[c.ptr])
        /\ c.unknown => Descriptor(buf[c.ptr]) = IndefiniteLength
                        /\ (IsString(c) \/ IsContainer(c))
    BY DEF HeadRead, HeadHere, HeadByte
  <1>2. Limit = Len(buf) + 1 /\ Len(buf) \in Nat
    BY BufferType
  <1>3. c.ptr \in 1 .. Limit /\ c.ptr < Limit /\ c.ptr + 1 \in 1 .. Limit
    BY <1>1, <1>2
  <1>4. c.unknown =>
          /\ IsString(c) => StreamedHead(c.ptr, StringMajors)
          /\ IsContainer(c) => StreamedHead(c.ptr, ContainerMajors)
    BY <1>1, <1>3 DEF StreamedHead, IsString, IsContainer
  <1>5. ASSUME ~c.unknown
        PROVE  /\ PastHead(c) \in Cursors /\ Within(PastHead(c))
               /\ PastHead(c).ptr = c.ptr + HeadLength(c.ptr)
               /\ PastHead(c) = [c EXCEPT !.ptr = c.ptr + HeadLength(c.ptr)]
               /\ PastHead(c).remaining = c.remaining /\ PastHead(c).type = c.type
               /\ PastHead(c).map = c.map /\ PastHead(c).key = c.key
               /\ PastHead(c).unknown = FALSE
    <2>1. PlainHead(c.ptr)
      BY <1>5 DEF HeadRead
    <2> DEFINE n == BytesNeeded(Descriptor(HeadByte(c))) + 1
    <2>2. n = HeadLength(c.ptr) /\ n \in Nat
      <3>1. HeadLength(c.ptr) \in Nat \ {0} /\ BytesNeeded(Descriptor(buf[c.ptr])) \in Nat
        <4>1. buf[c.ptr] \in Byte /\ Descriptor(buf[c.ptr]) <= Value64Bit
          BY <1>3, <2>1, WholeHead DEF PlainHead
        <4> QED
          BY <1>3, <2>1, <4>1, WholeHead, HeadType, NeededType
      <3> QED
        BY <1>1, <3>1 DEF HeadLength
    <2>3. PastHead(c) = Advanced(c, n)
      BY DEF PastHead
    <2> HIDE DEF n
    <2>4. /\ PastHead(c) \in Cursors /\ PastHead(c) = [c EXCEPT !.ptr = c.ptr + n]
          /\ PastHead(c).ptr = c.ptr + n
          /\ PastHead(c).remaining = c.remaining /\ PastHead(c).type = c.type
          /\ PastHead(c).map = c.map /\ PastHead(c).key = c.key
          /\ PastHead(c).unknown = c.unknown
      BY <2>2, <2>3, AdvancedIs
    <2>5. c.ptr + HeadLength(c.ptr) \in 1 .. Limit
      BY <1>3, <2>1, WholeHead
    <2>6. c.unknown = FALSE
      BY <1>5 DEF Cursors
    <2> QED
      BY <2>2, <2>4, <2>5, <2>6 DEF Within
  <1> QED
    BY <1>1, <1>3, <1>4, <1>5

(* Past an item that is its head, or past a tag. *)
LEMMA FixedEnd ==
  ASSUME buf \in Seq(Byte), NEW c \in Cursors, HeadRead(c), ~IsString(c), ~IsContainer(c),
         NEW nest \in Nat
  PROVE  /\ ~c.unknown
         /\ c.type = "tag" => ItemEnd(c.ptr, nest) = ItemEnd(PastHead(c).ptr, nest)
         /\ c.type # "tag" => ItemEnd(c.ptr, nest) = PastHead(c).ptr
  <1>1. ~c.unknown
    BY HeadReadIs
  <1>2. PlainHead(c.ptr) /\ c.ptr \in 1 .. Limit
    BY <1>1, HeadReadIs DEF HeadRead
  <1>3. c.type = MajorOf(buf[c.ptr]) /\ PastHead(c).ptr = c.ptr + HeadLength(c.ptr)
    BY <1>1, HeadReadIs
  <1> QED
    BY <1>1, <1>2, <1>3, DefiniteItem DEF IsString, IsContainer

LEMMA FixedOwes ==
  ASSUME buf \in Seq(Byte), NEW c \in Cursors, HeadRead(c), ~IsString(c), ~IsContainer(c),
         NEW nest \in Nat
  PROVE  Owes(AdvanceInternal(c), ContainerEnd(c, FALSE, nest), nest)
  <1> DEFINE past == PastHead(c)
  <1>1. AdvanceInternal(c) = PreparseNext(past)
    BY DEF AdvanceInternal
  <1>2. c.remaining # 0 /\ ContainerEnd(c, FALSE, nest) = AfterThis(ItemEnd(c.ptr, nest), c, nest)
    BY DEF HeadRead, ContainerEnd, ThisEnd
  <1>3. /\ ~c.unknown
        /\ c.type = "tag" => ItemEnd(c.ptr, nest) = ItemEnd(past.ptr, nest)
        /\ c.type # "tag" => ItemEnd(c.ptr, nest) = past.ptr
    BY FixedEnd
  <1>4. /\ past \in Cursors /\ Within(past) /\ past.remaining = c.remaining /\ past.type = c.type
        /\ past.map = c.map /\ past.key = c.key
    BY <1>3, HeadReadIs
  <1> HIDE DEF past
  <1>5. \A e : AfterThis(e, past, nest) = AfterThis(e, c, nest)
    BY <1>4, SameContainer
  <1>6. CASE c.type = "tag"
    BY <1>1, <1>2, <1>3, <1>4, <1>5, <1>6, TagOwes
  <1>7. CASE c.type # "tag"
    BY <1>1, <1>2, <1>3, <1>4, <1>5, <1>7, NextOwes
  <1> QED
    BY <1>6, <1>7

(* The item under the cursor has been got past some other way. *)
LEMMA MovedOwes ==
  ASSUME buf \in Seq(Byte), NEW it \in Cursors, it.remaining # 0, it.type # "tag",
         NEW at \in 1 .. Limit, NEW nest \in Nat
  PROVE  Owes(PreparseNext([it EXCEPT !.ptr = at]), AfterThis(at, it, nest), nest)
  <1> DEFINE moved == [it EXCEPT !.ptr = at]
  <1>1. at \in Nat
    BY BufferType
  <1>2. /\ moved \in Cursors /\ moved.ptr = at /\ moved.remaining = it.remaining
        /\ moved.type = it.type /\ moved.map = it.map /\ moved.key = it.key
    BY <1>1 DEF Cursors
  <1> HIDE DEF moved
  <1>3. Owes(PreparseNext(moved), AfterThis(at, moved, nest), nest)
    BY <1>2, NextOwes DEF Within
  <1>4. AfterThis(at, moved, nest) = AfterThis(at, it, nest)
    BY <1>2, SameContainer
  <1> QED
    BY <1>3, <1>4 DEF moved

-----------------------------------------------------------------------------
(* The cursor inside a container, before its first item is decoded. *)
LEMMA InsideOwes ==
  ASSUME buf \in Seq(Byte), NEW c \in Cursors, IsContainer(c), Within(c),
         NEW n \in 0 .. U32Max, n # 0, NEW nest \in Nat
  PROVE  Owes(PreparseNoDecrement([Inside(c) EXCEPT !.remaining = n]),
              IF n = U32Max THEN BreakEnd(c.ptr, c.type = "map", FALSE, nest)
              ELSE ItemsEnd(c.ptr, n, nest), nest)
  <1> DEFINE map == c.type = "map"
             x == [Inside(c) EXCEPT !.remaining = n]
  <1>1. map \in BOOLEAN
    OBVIOUS
  <1>2. /\ x \in Cursors /\ x.ptr = c.ptr /\ x.remaining = n /\ x.type = c.type
        /\ x.map = map /\ x.key = FALSE
    <2>1. x \in Cursors /\ x.ptr = c.ptr /\ x.remaining = n
      BY InsideIs
    <2>2. x.type = c.type /\ x.map = map /\ x.key = FALSE
      BY DEF Inside, Cursors
    <2> QED
      BY <2>1, <2>2
  <1> HIDE DEF x, map
  <1>3. Within(x) /\ x.type # "tag"
    BY <1>2 DEF Within, IsContainer, ContainerMajors
  <1>4. Owes(PreparseNoDecrement(x), ToDecode(x, nest), nest)
    BY <1>2, <1>3, NoDecrementOwes
  <1>5. ToDecode(x, nest) = IF n = U32Max THEN BreakEnd(c.ptr, map, FALSE, nest)
                            ELSE ItemsEnd(c.ptr, n, nest)
    BY <1>2, <1>3, ToDecodeIs
  <1> QED
    BY <1>4, <1>5 DEF x, map

(* enter_container: a level less to spare. *)
LEMMA EnterOwes ==
  ASSUME buf \in Seq(Byte), NEW c \in Cursors, HeadRead(c), IsContainer(c), NEW nest \in Nat
  PROVE  Owes(EnterContainer(c), ItemEnd(c.ptr, nest + 1), nest)
  <1> DEFINE r == EnterContainer(c)
             end == ItemEnd(c.ptr, nest + 1)
             past == PastHead(c)
             over == Advanced(c, 1)
             items == IF c.type = "map" THEN 2 * Int64(c) ELSE Int64(c)
             empty == [past EXCEPT !.remaining = 0, !.type = "invalid"]
  <1>1. /\ c.ptr \in 1 .. Limit /\ c.type = MajorOf(buf[c.ptr]) /\ c.type \in ContainerMajors
        /\ nest + 1 \in Nat /\ nest + 1 # 0 /\ nest + 1 - 1 = nest
    <2>1. c.ptr \in 1 .. Limit /\ c.type = MajorOf(buf[c.ptr])
      BY HeadReadIs
    <2>2. nest + 1 \in Nat /\ nest + 1 # 0 /\ nest + 1 - 1 = nest
      OBVIOUS
    <2> QED
      BY <2>1, <2>2 DEF IsContainer
  <1>2. CASE c.unknown
    <2>1. StreamedHead(c.ptr, ContainerMajors) /\ c.ptr + 1 \in 1 .. Limit
      BY <1>2, HeadReadIs
    <2>2. end = BreakEnd(c.ptr + 1, c.type = "map", FALSE, nest)
      <3> DEFINE m == nest + 1
      <3>1. m \in Nat /\ m # 0 /\ m - 1 = nest
        BY <1>1
      <3> HIDE DEF m
      <3>2. ItemEnd(c.ptr, m) = BreakEnd(c.ptr + 1, MajorOf(buf[c.ptr]) = "map", FALSE, m - 1)
        BY <1>1, <2>1, <3>1, StreamedItem
      <3> QED
        BY <1>1, <3>1, <3>2 DEF m
    <2>3. r = PreparseNoDecrement([Inside(over) EXCEPT !.remaining = U32Max])
      BY <1>2 DEF EnterContainer
    <2>4. over \in Cursors /\ over.ptr = c.ptr + 1 /\ over.type = c.type
      BY AdvancedIs
    <2> HIDE DEF over, r, end
    <2>5. Within(over) /\ IsContainer(over)
      BY <2>1, <2>4 DEF Within, IsContainer
    <2>6. U32Max \in 0 .. U32Max /\ U32Max # 0
      BY CursorAssumption
    <2>7. Owes(r, end, nest)
      BY <2>2, <2>3, <2>4, <2>5, <2>6, InsideOwes
    <2> QED
      BY <2>7 DEF r, end
  <1>3. CASE ~c.unknown
    <2>1. PlainHead(c.ptr) /\ Int64(c) = Argument(buf, c.ptr) /\ Int64(c) \in Nat
      <3>1. PlainHead(c.ptr) /\ Int64(c) = Argument(buf, c.ptr)
        BY <1>3 DEF HeadRead
      <3> QED
        BY <1>1, <3>1, WholeHead
    <2>2. /\ past \in Cursors /\ Within(past) /\ past.ptr = c.ptr + HeadLength(c.ptr)
          /\ past.type = c.type /\ past.unknown = FALSE
      BY <1>3, HeadReadIs
    <2>3. ItemCount(c.ptr) = items
      BY <1>1, <2>1 DEF ItemCount
    <2>4. end = IF items >= U32Max THEN Malformed ELSE ItemsEnd(past.ptr, items, nest)
      <3>1. end = IF ItemCount(c.ptr) >= U32Max \/ nest + 1 = 0 THEN Malformed
                  ELSE ItemsEnd(c.ptr + HeadLength(c.ptr), ItemCount(c.ptr), nest + 1 - 1)
        BY SMTT(30), <1>1, <2>1, DefiniteItem
      <3> HIDE DEF past, items, end
      <3> QED
        BY <1>1, <2>2, <2>3, <3>1
    <2>5. items >= U32Max <=> TooLarge(c)
      <3> DEFINE n == Int64(c)
                 map == c.type = "map"
      <3>1. (IF map THEN 2 * n ELSE n) >= U32Max <=> n >= U32Max \/ (map /\ n > U32Max \div 2)
        <4>1. n \in Nat /\ map \in BOOLEAN
          BY <2>1
        <4> HIDE DEF n, map
        <4> QED
          BY <4>1, TooManyItems
      <3> QED
        BY <3>1 DEF TooLarge
    <2>6. r = IF TooLarge(c)
              THEN Result("data_too_large", [c EXCEPT !.remaining = Int64(c) % (U32Max + 1)])
              ELSE IF items = 0 THEN Result("ok", empty)
              ELSE PreparseNoDecrement([Inside(past) EXCEPT !.remaining = items])
      BY <1>3 DEF EnterContainer
    <2>7. empty.remaining = 0 /\ empty.ptr = past.ptr /\ empty.unknown = FALSE
      <3> HIDE DEF past
      <3> QED
        BY <2>2 DEF Cursors
    <2>8. items \in Nat
      BY <2>1
    <2>9. IsContainer(past) /\ past.ptr \in 1 .. Limit
      BY <1>1, <2>2 DEF IsContainer, Within
    <2> HIDE DEF empty, past, items, r, end
    <2>10. CASE TooLarge(c)
      <3>1. r.err # "ok" /\ end = Malformed
        BY <2>4, <2>5, <2>6, <2>10 DEF Result
      <3>2. Owes(r, end, nest)
        BY <3>1 DEF Owes
      <3> QED
        BY <3>2 DEF r, end
    <2>11. CASE ~TooLarge(c) /\ items = 0
      <3>1. end = past.ptr
        BY <2>4, <2>5, <2>8, <2>9, <2>11, ItemsEndIs
      <3>2. ContainerEnd(empty, FALSE, nest) = past.ptr
        BY <2>7 DEF ContainerEnd, ResumeAt
      <3>3. Owes(r, end, nest)
        BY <2>6, <2>11, <3>1, <3>2 DEF Owes, Result
      <3> QED
        BY <3>3 DEF r, end
    <2>12. CASE ~TooLarge(c) /\ items # 0
      <3>1. r = PreparseNoDecrement([Inside(past) EXCEPT !.remaining = items])
        BY <2>6, <2>12
      <3>2. items \in 0 .. U32Max /\ items # 0 /\ items # U32Max
        <4>1. ~(items >= U32Max) /\ U32Max \in Nat
          BY <2>5, <2>12, CursorAssumption
        <4> QED
          BY <2>8, <2>12, <4>1
      <3>3. end = ItemsEnd(past.ptr, items, nest)
        BY <2>4, <2>5, <2>12
      <3>4. Owes(r, end, nest)
        BY <2>2, <2>9, <3>1, <3>2, <3>3, InsideOwes
      <3> QED
        BY <3>4 DEF r, end
    <2> QED
      BY <2>10, <2>11, <2>12
  <1> QED
    BY <1>2, <1>3

-----------------------------------------------------------------------------
(* What a client sees of a cursor on the same item. *)
SameSight(x, y) ==
  /\ x.remaining = y.remaining /\ x.extra = y.extra /\ x.wide = y.wide
  /\ x.type = y.type /\ x.unknown = y.unknown /\ x.map = y.map /\ x.key = y.key

(* A cursor inside a string: before the whole of it or one of its chunks,  *)
(* or past the last.                                                       *)
Iterated(c) ==
  /\ c \in Cursors /\ Within(c) /\ c.remaining # 0 /\ IsString(c)
  /\ ~c.unknown /\ c.first => PlainHead(c.ptr) /\ MajorOf(buf[c.ptr]) = c.type
ChunksOver(c) == IF c.unknown THEN BreakAt(c.ptr) ELSE ~c.first

LEMMA BeginEnds ==
  ASSUME buf \in Seq(Byte), NEW c \in Cursors, HeadRead(c), IsString(c)
  PROVE  LET begun == BeginStringIteration(c)
         IN  /\ Iterated(begun) /\ SameSight(begun, c)
             /\ \A nest \in Nat : ThisEnd(begun, TRUE, nest) = ItemEnd(c.ptr, nest)
  <1> DEFINE b == BeginStringIteration(c)
             begun == [c EXCEPT !.iterating = TRUE, !.first = TRUE]
  <1>1. /\ begun \in Cursors /\ begun.ptr = c.ptr /\ begun.first = TRUE /\ SameSight(begun, c)
    BY DEF Cursors, SameSight
  <1>2. b = IF c.unknown THEN Advanced(begun, 1) ELSE begun
    BY DEF BeginStringIteration
  <1> HIDE DEF begun
  <1>3. /\ b \in Cursors /\ b.ptr = (IF c.unknown THEN c.ptr + 1 ELSE c.ptr)
        /\ b.first = TRUE /\ SameSight(b, c)
    <2> DEFINE over == Advanced(begun, 1)
    <2>1. over \in Cursors /\ over = [begun EXCEPT !.ptr = begun.ptr + 1]
          /\ over.ptr = begun.ptr + 1 /\ over.first = begun.first
      BY <1>1, AdvancedIs
    <2>2. SameSight(over, c)
      BY <1>1, <2>1 DEF Cursors, SameSight
    <2> HIDE DEF over
    <2>3. CASE c.unknown
      BY <1>1, <1>2, <2>1, <2>2, <2>3 DEF over
    <2>4. CASE ~c.unknown
      BY <1>1, <1>2, <2>4
    <2> QED
      BY <2>3, <2>4
  <1> HIDE DEF b
  <1>4. c.ptr \in 1 .. Limit /\ c.type = MajorOf(buf[c.ptr]) /\ c.remaining # 0
    BY HeadReadIs DEF HeadRead
  <1>5. CASE c.unknown
    <2>1. StreamedHead(c.ptr, StringMajors) /\ c.ptr + 1 \in 1 .. Limit
      BY <1>5, HeadReadIs
    <2>2. Iterated(b)
      BY <1>3, <1>4, <1>5, <2>1 DEF Iterated, Within, SameSight, IsString
    <2>3. ASSUME NEW nest \in Nat PROVE ThisEnd(b, TRUE, nest) = ItemEnd(c.ptr, nest)
      <3>1. ThisEnd(b, TRUE, nest) = ChunksEnd(b.ptr, b.type)
        BY <1>3, <1>5 DEF ThisEnd, SameSight
      <3> QED
        BY <1>3, <1>4, <1>5, <2>1, <3>1, StreamedItem DEF SameSight
    <2> QED
      BY <1>3, <2>2, <2>3 DEF b
  <1>6. CASE ~c.unknown
    <2>1. PlainHead(c.ptr)
      BY <1>6 DEF HeadRead
    <2>2. Iterated(b)
      BY <1>3, <1>4, <1>6, <2>1 DEF Iterated, Within, SameSight, IsString
    <2>3. ASSUME NEW nest \in Nat PROVE ThisEnd(b, TRUE, nest) = ItemEnd(c.ptr, nest)
      BY <1>3, <1>6 DEF ThisEnd, SameSight
    <2> QED
      BY <1>3, <2>2, <2>3 DEF b
  <1> QED
    BY <1>5, <1>6

(* The chunk at the cursor, in the grammar's terms. *)
LEMMA ChunkSizeIs ==
  ASSUME buf \in Seq(Byte), NEW c, Iterated(c)
  PROVE  LET size == ChunkSize(c)
         IN  /\ size.err = "no_more_chunks" <=> ChunksOver(c)
             /\ size.err = "ok" <=> /\ ~ChunksOver(c)
                                    /\ PlainHead(c.ptr) /\ MajorOf(buf[c.ptr]) = c.type
             /\ size.err = "ok" => /\ size.offset = HeadLength(c.ptr)
                                   /\ size.len = Argument(buf, c.ptr)
  <1> DEFINE size == ChunkSize(c)
             d == Descriptor(HeadByte(c))
             fail(e) == [err |-> e, offset |-> 0, len |-> 0]
             plain == [err |-> "ok", offset |-> 1 + BytesNeeded(d), len |-> ChunkArgument(c)]
  <1>1. c \in Cursors /\ c.ptr \in 1 .. Limit /\ Limit \in Nat /\ HeadByte(c) = buf[c.ptr]
        /\ c.unknown \in BOOLEAN /\ c.first \in BOOLEAN /\ c.type \in StringMajors
    BY BufferType DEF Iterated, Within, HeadByte, Cursors, IsString
  <1>2. (AtBreak(c) <=> BreakAt(c.ptr)) /\ (CanRead(c, 1) <=> c.ptr < Limit)
    BY <1>1, AtBreakIs, CanReadIs
  <1>3. BreakAt(c.ptr) => ~PlainHead(c.ptr) /\ c.ptr < Limit
    BY BreakIsNoHead DEF BreakAt
  <1>4. c.ptr < Limit => d \in Nat
    <2>1. c.ptr < Limit => c.ptr \in 1 .. Len(buf)
      BY <1>1, BufferType
    <2> QED
      BY <1>1, <2>1, BufferType, HeadType
  <1>5. c.ptr < Limit /\ d <= Value64Bit =>
          (CanRead(c, 1 + BytesNeeded(d)) <=> c.ptr + HeadLength(c.ptr) <= Limit)
    <2> SUFFICES ASSUME c.ptr < Limit, d <= Value64Bit
                 PROVE  CanRead(c, 1 + BytesNeeded(d)) <=> c.ptr + HeadLength(c.ptr) <= Limit
      OBVIOUS
    <2>1. BytesNeeded(d) \in Nat
      BY <1>4, NeededType
    <2> DEFINE n == 1 + BytesNeeded(d)
    <2>2. n \in Nat \ {0} /\ n = HeadLength(c.ptr)
      BY <1>1, <2>1 DEF HeadLength
    <2> HIDE DEF n
    <2>3. CanRead(c, n) <=> c.ptr + n <= Limit
      BY <1>1, <2>2, CanReadIs
    <2> QED
      BY <2>2, <2>3 DEF n
  <1>6. size = IF ~c.unknown /\ ~c.first THEN fail("no_more_chunks")
               ELSE IF ~CanRead(c, 1) THEN fail("unexpected_eof")
               ELSE IF AtBreak(c) THEN fail("no_more_chunks")
               ELSE IF MajorOf(HeadByte(c)) # c.type THEN fail("illegal_type")
               ELSE IF d > Value64Bit THEN fail("illegal_number")
               ELSE IF ~CanRead(c, 1 + BytesNeeded(d)) THEN fail("unexpected_eof")
               ELSE plain
    BY DEF ChunkSize
  <1>7. c.type # "simple"
    BY <1>1 DEF StringMajors
  <1>8. PlainHead(c.ptr) /\ MajorOf(buf[c.ptr]) = c.type <=>
          /\ c.ptr < Limit /\ d <= Value64Bit /\ c.ptr + HeadLength(c.ptr) <= Limit
          /\ MajorOf(buf[c.ptr]) = c.type
    BY <1>1, <1>7 DEF PlainHead
  <1>9. ~c.unknown /\ c.first => ~BreakAt(c.ptr)
    BY <1>3 DEF Iterated
  <1>10. c.ptr < Limit => (d > Value64Bit <=> ~(d <= Value64Bit))
    BY <1>4, DescriptorsAssumption
  <1>11. plain.err = "ok" /\ plain.offset = HeadLength(c.ptr) /\ plain.len = Argument(buf, c.ptr)
    BY <1>1 DEF HeadLength, ChunkArgument
  <1> HIDE DEF size, d, plain
  <1> DEFINE whole == PlainHead(c.ptr) /\ MajorOf(buf[c.ptr]) = c.type
  <1>12. CASE ChunksOver(c)
    <2>1. size = fail("no_more_chunks")
      BY <1>2, <1>3, <1>6, <1>12 DEF ChunksOver
    <2> QED
      BY <1>12, <2>1 DEF size
  <1>13. CASE ~ChunksOver(c)
    <2>1. ~(~c.unknown /\ ~c.first) /\ ~BreakAt(c.ptr)
      BY <1>9, <1>13 DEF ChunksOver
    <2>2. CASE whole
      <3>1. size = plain
        BY <1>1, <1>2, <1>5, <1>6, <1>8, <1>10, <2>1, <2>2
      <3> QED
        BY <1>11, <1>13, <2>2, <3>1 DEF size
    <2>3. CASE ~whole
      <3>1. \E e \in {"unexpected_eof", "illegal_type", "illegal_number"} : size = fail(e)
        BY <1>1, <1>2, <1>5, <1>6, <1>8, <1>10, <2>1, <2>3
      <3> QED
        BY <1>13, <2>3, <3>1 DEF size
    <2> QED
      BY <2>2, <2>3
  <1> QED
    BY <1>12, <1>13

-----------------------------------------------------------------------------
LEMMA ChunkEnds ==
  ASSUME buf \in Seq(Byte), NEW c, Iterated(c)
  PROVE  LET chunk == GetChunk(c)
         IN  /\ chunk.err = "ok" =>
                  /\ Iterated(chunk.it) /\ SameSight(chunk.it, c)
                  /\ \A nest \in Nat : ThisEnd(chunk.it, TRUE, nest) = ThisEnd(c, TRUE, nest)
             /\ chunk.err = "no_more_chunks" => ChunksOver(c)
             /\ chunk.err \notin {"ok", "no_more_chunks"} =>
                  \A nest \in Nat : ThisEnd(c, TRUE, nest) = Malformed
  <1> DEFINE size == ChunkSize(c)
             chunk == GetChunk(c)
             end == StringEnd(c.ptr)
             past == Advanced(c, size.offset)
             over == Advanced(past, size.len)
             next == [over EXCEPT !.first = FALSE]
             whole == PlainHead(c.ptr) /\ MajorOf(buf[c.ptr]) = c.type
  <1>1. /\ c \in Cursors /\ c.ptr \in 1 .. Limit /\ Limit \in Nat /\ c.type \in StringMajors
        /\ c.remaining # 0
    BY BufferType DEF Iterated, Within, IsString
  <1>2. /\ size.err = "no_more_chunks" <=> ChunksOver(c)
        /\ size.err = "ok" <=> ~ChunksOver(c) /\ whole
        /\ size.err = "ok" => size.offset = HeadLength(c.ptr) /\ size.len = Argument(buf, c.ptr)
    BY ChunkSizeIs
  <1>3. chunk = IF size.err # "ok" THEN Result(size.err, c)
                ELSE IF ~CanRead(past, size.len) THEN Result("unexpected_eof", past)
                ELSE Result("ok", next)
    BY DEF GetChunk
  <1>4. ASSUME NEW nest \in Nat, ~ChunksOver(c)
        PROVE  ThisEnd(c, TRUE, nest) =
                 IF whole /\ end # Malformed
                 THEN IF c.unknown THEN ChunksEnd(end, c.type) ELSE end
                 ELSE Malformed
    <2>1. CASE c.unknown
      <3>1. ThisEnd(c, TRUE, nest) = ChunksEnd(c.ptr, c.type) /\ ~BreakAt(c.ptr)
        BY <1>4, <2>1 DEF ThisEnd, ChunksOver
      <3>2. ChunksEnd(c.ptr, c.type) =
              IF BreakAt(c.ptr) THEN c.ptr + 1
              ELSE IF PlainHead(c.ptr) /\ MajorOf(buf[c.ptr]) = c.type /\ StringEnd(c.ptr) # Malformed
              THEN ChunksEnd(StringEnd(c.ptr), c.type)
              ELSE Malformed
        BY <1>1, ChunksEndIs
      <3> QED
        BY <2>1, <3>1, <3>2
    <2>2. CASE ~c.unknown
      <3>1. c.first /\ ThisEnd(c, TRUE, nest) = ItemEnd(c.ptr, nest)
        BY <1>4, <2>2 DEF ThisEnd, ChunksOver
      <3>2. whole
        BY <2>2, <3>1 DEF Iterated
      <3>3. ItemEnd(c.ptr, nest) = end
        BY <1>1, <3>2, DefiniteItem
      <3> QED
        BY <2>2, <3>1, <3>2, <3>3
    <2> QED
      BY <2>1, <2>2
  <1>5. CASE size.err # "ok"
    <2>1. chunk.err = size.err /\ (chunk.err # "no_more_chunks" => ~ChunksOver(c) /\ ~whole)
      BY <1>2, <1>3, <1>5 DEF Result
    <2>2. chunk.err # "no_more_chunks" => \A nest \in Nat : ThisEnd(c, TRUE, nest) = Malformed
      BY <1>4, <2>1
    <2> QED
      BY <1>2, <1>5, <2>1, <2>2
  <1>6. CASE size.err = "ok"
    <2>1. ~ChunksOver(c) /\ whole
      BY <1>2, <1>6
    <2>2. /\ HeadLength(c.ptr) \in Nat \ {0} /\ c.ptr + HeadLength(c.ptr) \in 1 .. Limit
          /\ Argument(buf, c.ptr) \in Nat
      BY <1>1, <2>1, WholeHead
    <2> DEFINE offset == size.offset
               len == size.len
               after == c.ptr + offset
    <2>3. /\ offset \in Nat /\ len \in Nat /\ after \in 1 .. Limit
          /\ end = IF after + len <= Limit THEN after + len ELSE Malformed
      <3>1. offset = HeadLength(c.ptr) /\ len = Argument(buf, c.ptr)
        BY <1>2, <1>6
      <3> HIDE DEF offset, len
      <3> QED
        BY <1>1, <2>1, <2>2, <3>1, StringEndIs
    <2>4. /\ past \in Cursors /\ past.ptr = after /\ past.first = c.first
          /\ past = [c EXCEPT !.ptr = after]
      <3> HIDE DEF len
      <3>1. offset \in Nat
        BY <2>3
      <3>2. past = Advanced(c, offset)
        OBVIOUS
      <3> HIDE DEF offset, past
      <3> QED
        BY <1>1, <3>1, <3>2, AdvancedIs
    <2>5. SameSight(past, c)
      <3> HIDE DEF past, after
      <3> QED
        BY <1>1, <2>4 DEF Cursors, SameSight
    <2>6. over = Advanced(past, len)
      OBVIOUS
    <2> HIDE DEF over, past, len, after, offset
    <2>7. /\ over \in Cursors /\ over.ptr = after + len /\ over = [past EXCEPT !.ptr = past.ptr + len]
      BY <2>3, <2>4, <2>6, AdvancedIs
    <2>8. SameSight(over, c)
      BY <2>4, <2>5, <2>7 DEF Cursors, SameSight
    <2>9. /\ next \in Cursors /\ next.ptr = after + len /\ next.first = FALSE /\ SameSight(next, c)
      BY <2>7, <2>8 DEF Cursors, SameSight
    <2>10. CanRead(past, len) <=> after + len <= Limit
      BY <1>1, <2>3, <2>4 DEF CanRead
    <2>11. chunk = IF ~CanRead(past, len) THEN Result("unexpected_eof", past) ELSE Result("ok", next)
      BY <1>3, <1>6 DEF len
    <2> HIDE DEF next, chunk, end
    <2>12. CASE after + len <= Limit
      <3>1. chunk = Result("ok", next)
        BY <2>10, <2>11, <2>12
      <3>2. end = after + len /\ after + len \in 1 .. Limit /\ end # Malformed
        BY <1>1, <2>3, <2>12 DEF Malformed
      <3>3. Iterated(next)
        BY <1>1, <2>9, <3>2 DEF Iterated, Within, SameSight, IsString
      <3>4. ASSUME NEW nest \in Nat PROVE ThisEnd(next, TRUE, nest) = ThisEnd(c, TRUE, nest)
        <4>1. ThisEnd(c, TRUE, nest) = IF c.unknown THEN ChunksEnd(end, c.type) ELSE end
          BY <1>4, <2>1, <3>2
        <4>3. next.unknown = c.unknown /\ next.type = c.type /\ next.ptr = end /\ ~next.first
          BY <2>9, <3>2 DEF SameSight
        <4>2. ThisEnd(next, TRUE, nest) = IF c.unknown THEN ChunksEnd(end, c.type) ELSE end
          BY <4>3 DEF ThisEnd
        <4>4. PICK e : e = IF c.unknown THEN ChunksEnd(end, c.type) ELSE end
          OBVIOUS
        <4>5. ThisEnd(c, TRUE, nest) = e
          BY <4>1, <4>4
        <4>6. ThisEnd(next, TRUE, nest) = e
          BY <4>2, <4>4
        <4> QED
          BY <4>5, <4>6
      <3>5. chunk.err = "ok" /\ chunk.it = next
        BY <3>1 DEF Result
      <3>6. /\ Iterated(chunk.it) /\ SameSight(chunk.it, c)
            /\ \A nest \in Nat : ThisEnd(chunk.it, TRUE, nest) = ThisEnd(c, TRUE, nest)
        BY <2>9, <3>3, <3>4, <3>5
      <3> QED
        BY <3>5, <3>6 DEF chunk
    <2>13. CASE ~(after + len <= Limit)
      <3>1. chunk.err = "unexpected_eof"
        BY <2>10, <2>11, <2>13 DEF Result
      <3>2. end = Malformed
        BY <2>3, <2>13
      <3>3. \A nest \in Nat : ThisEnd(c, TRUE, nest) = Malformed
        BY <1>4, <2>1, <3>2
      <3> QED
        BY <3>1, <3>3 DEF chunk
    <2> QED
      BY <2>12, <2>13
  <1> QED
    BY <1>5, <1>6

(* finish_string_iteration: past the break, if there is one. *)
LEMMA FinishIs ==
  ASSUME buf \in Seq(Byte), NEW c, Iterated(c), ChunksOver(c)
  PROVE  \E x \in Cursors :
           /\ FinishStringIteration(c) = PreparseNext(x)
           /\ SameSight(x, c) /\ x.ptr \in 1 .. Limit
           /\ \A nest \in Nat : ThisEnd(c, TRUE, nest) = x.ptr
  <1> DEFINE over == Advanced(c, 1)
             x == IF c.unknown THEN over ELSE c
  <1>1. c \in Cursors /\ c.ptr \in 1 .. Limit /\ Limit \in Nat /\ c.type \in StringMajors
    BY BufferType DEF Iterated, Within, IsString
  <1>2. over \in Cursors /\ over.ptr = c.ptr + 1 /\ over = [c EXCEPT !.ptr = c.ptr + 1]
    BY SMTT(30), <1>1, AdvancedIs
  <1>3. SameSight(over, c) /\ SameSight(c, c)
    <2> HIDE DEF over
    <2> QED
      BY <1>1, <1>2 DEF Cursors, SameSight
  <1>4. FinishStringIteration(c) = PreparseNext(x)
    BY DEF FinishStringIteration
  <1> HIDE DEF over
  <1>5. CASE c.unknown
    <2>1. BreakAt(c.ptr) /\ c.ptr < Limit
      BY <1>5 DEF ChunksOver, BreakAt
    <2>2. ChunksEnd(c.ptr, c.type) = c.ptr + 1
      BY <1>1, <2>1, ChunksEndIs
    <2>3. x = over /\ x.ptr \in 1 .. Limit
      BY <1>1, <1>2, <1>5, <2>1
    <2>4. \A nest \in Nat : ThisEnd(c, TRUE, nest) = x.ptr
      BY <1>2, <1>5, <2>2, <2>3 DEF ThisEnd
    <2> QED
      BY <1>2, <1>3, <1>4, <2>3, <2>4
  <1>6. CASE ~c.unknown
    <2>1. ~c.first
      BY <1>6 DEF ChunksOver
    <2>2. x = c
      BY <1>6
    <2>3. \A nest \in Nat : ThisEnd(c, TRUE, nest) = x.ptr
      BY <1>6, <2>1, <2>2 DEF ThisEnd
    <2> QED
      BY <1>1, <1>3, <1>4, <2>2, <2>3
  <1> QED
    BY <1>5, <1>6

LEMMA FinishOwes ==
  ASSUME buf \in Seq(Byte), NEW c, Iterated(c), ChunksOver(c), NEW nest \in Nat
  PROVE  Owes(FinishStringIteration(c), ContainerEnd(c, TRUE, nest), nest)
  <1>1. PICK x \in Cursors :
          /\ FinishStringIteration(c) = PreparseNext(x)
          /\ SameSight(x, c) /\ x.ptr \in 1 .. Limit
          /\ \A n \in Nat : ThisEnd(c, TRUE, n) = x.ptr
    BY FinishIs
  <1>2. c.remaining # 0 /\ c.type # "tag"
    BY DEF Iterated, IsString, StringMajors
  <1>3. Owes(PreparseNext(x), AfterThis(x.ptr, x, nest), nest)
    BY <1>1, <1>2, NextOwes DEF Within, SameSight
  <1>4. ContainerEnd(c, TRUE, nest) = AfterThis(x.ptr, c, nest)
    BY <1>1, <1>2 DEF ContainerEnd
  <1>5. AfterThis(x.ptr, c, nest) = AfterThis(x.ptr, x, nest)
    BY <1>1, SameContainer DEF SameSight
  <1> QED
    BY <1>1, <1>3, <1>4, <1>5

-----------------------------------------------------------------------------
(* Decoding does not depend on what is left of a string's iteration. *)
LEMMA ValueSeen ==
  ASSUME NEW x \in Cursors, NEW y \in Cursors, x.ptr = y.ptr, SameSight(x, y)
  PROVE  PreparseValue(x) = PreparseValue(y)
  <1>1. Blank(x) = Blank(y)
    <2>1. PICK bx, by : bx = Blank(x) /\ by = Blank(y)
      OBVIOUS
    <2>2. /\ bx \in Cursors /\ by \in Cursors /\ bx.ptr = by.ptr /\ bx.remaining = by.remaining
          /\ bx.extra = by.extra /\ bx.wide = by.wide /\ bx.type = by.type
          /\ bx.unknown = by.unknown /\ bx.map = by.map /\ bx.key = by.key
          /\ bx.first = by.first /\ bx.iterating = by.iterating
      <3>1. bx \in Cursors /\ by \in Cursors
        BY <2>1, BlankIs
      <3>2. /\ bx.ptr = by.ptr /\ bx.remaining = by.remaining
            /\ bx.extra = by.extra /\ bx.wide = by.wide /\ bx.type = by.type
            /\ bx.unknown = by.unknown /\ bx.map = by.map /\ bx.key = by.key
            /\ bx.first = by.first /\ bx.iterating = by.iterating
        BY <2>1 DEF Blank, Cursors, SameSight
      <3> QED
        BY <3>1, <3>2
    <2>3. bx = by
      BY <2>2, CursorsEqual
    <2> QED
      BY <2>1, <2>3
  <1>2. HeadByte(x) = HeadByte(y) /\ \A n : CanRead(x, n) = CanRead(y, n)
    BY DEF HeadByte, CanRead
  <1>3. Decoded(x) = Decoded(y)
    BY <1>1, <1>2 DEF Decoded
  <1>4. \A t : IndefiniteHead(x, t) = IndefiniteHead(y, t)
    BY DEF IndefiniteHead
  <1> DEFINE d == Descriptor(HeadByte(x))
             tx == [Blank(x) EXCEPT !.type = MajorOf(HeadByte(x)), !.extra = d]
             ty == [Blank(y) EXCEPT !.type = MajorOf(HeadByte(x)), !.extra = d]
             ix == [Decoded(x) EXCEPT !.type = "invalid"]
             iy == [Decoded(y) EXCEPT !.type = "invalid"]
  <1>5. PreparseValue(x) =
          IF ~CanRead(x, 1) THEN Result("unexpected_eof", Blank(x))
          ELSE CASE d = IndefiniteLength -> IndefiniteHead(x, tx)
                 [] d > Value64Bit /\ d # IndefiniteLength -> ReservedHead(tx)
                 [] OTHER ->
                      IF ~CanRead(x, BytesNeeded(d) + 1) THEN Result("unexpected_eof", tx)
                      ELSE IF Overlong(Decoded(x)) THEN Result("illegal_simple_type", ix)
                      ELSE Result("ok", Decoded(x))
    BY DEF PreparseValue
  <1>6. PreparseValue(y) =
          IF ~CanRead(y, 1) THEN Result("unexpected_eof", Blank(y))
          ELSE CASE d = IndefiniteLength -> IndefiniteHead(y, ty)
                 [] d > Value64Bit /\ d # IndefiniteLength -> ReservedHead(ty)
                 [] OTHER ->
                      IF ~CanRead(y, BytesNeeded(d) + 1) THEN Result("unexpected_eof", ty)
                      ELSE IF Overlong(Decoded(y)) THEN Result("illegal_simple_type", iy)
                      ELSE Result("ok", Decoded(y))
    BY <1>2 DEF PreparseValue
  <1>7. tx = ty /\ ix = iy
    BY <1>1, <1>3
  <1>8. (CanRead(x, 1) <=> CanRead(y, 1))
        /\ (CanRead(x, BytesNeeded(d) + 1) <=> CanRead(y, BytesNeeded(d) + 1))
    BY DEF CanRead
  <1>9. IndefiniteHead(x, tx) = IndefiniteHead(y, tx)
    BY <1>4
  <1> HIDE DEF d, tx, ty, ix, iy
  <1> QED
    BY <1>1, <1>3, <1>5, <1>6, <1>7, <1>8, <1>9

SeenAlike(r, s) == r.err = s.err /\ r.it.ptr = s.it.ptr /\ SameSight(r.it, s.it)

LEMMA NoDecrementSeen ==
  ASSUME NEW x \in Cursors, NEW y \in Cursors, x.ptr = y.ptr, SameSight(x, y)
  PROVE  SeenAlike(PreparseNoDecrement(x), PreparseNoDecrement(y))
  <1> DEFINE ended(it) == [it EXCEPT !.type = "invalid", !.remaining = 0, !.unknown = TRUE]
  <1>1. /\ x.remaining = y.remaining /\ (AtBreak(x) <=> AtBreak(y))
        /\ (BreakForbidden(x) <=> BreakForbidden(y))
    BY DEF SameSight, AtBreak, CanRead, HeadByte, BreakForbidden, MidPair
  <1>2. ended(x).ptr = ended(y).ptr /\ SameSight(ended(x), ended(y))
    BY DEF Cursors, SameSight
  <1>3. PreparseValue(x) = PreparseValue(y)
    BY ValueSeen
  <1> HIDE DEF ended
  <1>4. ASSUME NEW it
        PROVE  PreparseNoDecrement(it) =
                 IF it.remaining = U32Max /\ AtBreak(it)
                 THEN IF BreakForbidden(it) THEN Result("unexpected_break", it)
                      ELSE Result("ok", ended(it))
                 ELSE PreparseValue(it)
    BY DEF PreparseNoDecrement, ended
  <1>5. CASE x.remaining = U32Max /\ AtBreak(x)
    <2>1. CASE BreakForbidden(x)
      BY <1>1, <1>4, <1>5, <2>1 DEF SeenAlike, Result
    <2>2. CASE ~BreakForbidden(x)
      BY <1>1, <1>2, <1>4, <1>5, <2>2 DEF SeenAlike, Result
    <2> QED
      BY <2>1, <2>2
  <1>6. CASE ~(x.remaining = U32Max /\ AtBreak(x))
    BY <1>1, <1>3, <1>4, <1>6 DEF SeenAlike, SameSight
  <1> QED
    BY <1>5, <1>6

LEMMA NextSeen ==
  ASSUME NEW x \in Cursors, NEW y \in Cursors, x.ptr = y.ptr, SameSight(x, y), x.remaining # 0
  PROVE  SeenAlike(PreparseNext(x), PreparseNext(y))
  <1> DEFINE ended(it) == [it EXCEPT !.type = "invalid", !.remaining = 0, !.unknown = FALSE]
             left == IF x.remaining = U32Max THEN x.remaining ELSE x.remaining - 1
             flipped == ~x.key
             counted(it) == [it EXCEPT !.remaining = left, !.key = flipped]
  <1>1. x.remaining = y.remaining /\ (CountsAsItem(x) <=> CountsAsItem(y)) /\ x.key = y.key
    BY DEF SameSight, CountsAsItem
  <1>2. CASE ~CountsAsItem(x)
    BY <1>1, <1>2, NoDecrementSeen DEF PreparseNext
  <1>3. CASE CountsAsItem(x) /\ x.remaining = 1
    <2>1. PreparseNext(x) = Result("ok", ended(x)) /\ PreparseNext(y) = Result("ok", ended(y))
      BY <1>1, <1>3 DEF PreparseNext
    <2>2. ended(x).ptr = ended(y).ptr /\ SameSight(ended(x), ended(y))
      BY DEF Cursors, SameSight
    <2> HIDE DEF ended
    <2> QED
      BY <2>1, <2>2 DEF SeenAlike, Result
  <1>4. CASE CountsAsItem(x) /\ x.remaining # 1
    <2>1. /\ PreparseNext(x) = PreparseNoDecrement(counted(x))
          /\ PreparseNext(y) = PreparseNoDecrement(counted(y))
      BY <1>1, <1>4 DEF PreparseNext
    <2>2. left \in 0 .. U32Max /\ flipped \in BOOLEAN
      BY <1>4, CursorAssumption DEF Cursors
    <2> HIDE DEF left, flipped
    <2>3. /\ counted(x) \in Cursors /\ counted(y) \in Cursors /\ counted(x).ptr = counted(y).ptr
          /\ SameSight(counted(x), counted(y))
      BY <2>2 DEF Cursors, SameSight
    <2> HIDE DEF counted
    <2> QED
      BY <2>1, <2>3, NoDecrementSeen
  <1> QED
    BY <1>2, <1>3, <1>4

(* The top level holds one item. *)
Rooted(c) == c.remaining \in {0, 1} /\ (c.remaining = 0 => ~c.unknown)

LEMMA NextRooted ==
  ASSUME buf \in Seq(Byte), NEW it \in Cursors, Within(it), it.remaining = 1
  PROVE  Rooted(PreparseNext(it).it)
  <1> DEFINE ended == [it EXCEPT !.type = "invalid", !.remaining = 0, !.unknown = FALSE]
  <1>1. U32Max # 1
    BY CursorAssumption
  <1>2. CASE CountsAsItem(it)
    <2>1. PreparseNext(it) = Result("ok", ended)
      BY <1>2 DEF PreparseNext
    <2>2. ended.remaining = 0 /\ ended.unknown = FALSE
      BY DEF Cursors
    <2> HIDE DEF ended
    <2> QED
      BY <2>1, <2>2 DEF Rooted, Result
  <1>3. CASE ~CountsAsItem(it)
    <2>1. PreparseNext(it) = PreparseValue(it)
      BY <1>1, <1>3 DEF PreparseNext, PreparseNoDecrement
    <2>2. SameSlot(PreparseValue(it).it, it)
      BY PreparseValueProperties
    <2> QED
      BY <2>1, <2>2 DEF Rooted, SameSlot
  <1> QED
    BY <1>2, <1>3

-----------------------------------------------------------------------------
(* The end of the tags looks up only what starts later too: it exists, has *)
(* its rule, and is that of the bytes.                                     *)
TagsBy(f, q) ==
  IF PlainHead(q) /\ MajorOf(buf[q]) = "tag" THEN f[q + HeadLength(q)] ELSE q
TagsFrom(f, k) == \A q \in 1 .. Limit : q >= k => f[q] = TagsBy(f, q)

LEMMA TagsExist ==
  ASSUME buf \in Seq(Byte)
  PROVE  \E f \in [1 .. Limit -> 1 .. Limit] : TagsFrom(f, 1)
  <1> DEFINE Table(f) == f \in [1 .. Limit -> 1 .. Limit]
             Without == {m \in Nat : m <= Limit /\ ~ \E f : Table(f) /\ TagsFrom(f, Limit + 1 - m)}
  <1>1. Limit \in Nat \ {0}
    BY BufferType
  <1>2. Without = {}
    <2> SUFFICES ASSUME Without # {} PROVE FALSE
      OBVIOUS
    <2>1. PICK m \in Without : \A j \in Without : ~(j < m)
      <3>1. Without \in SUBSET Nat
        OBVIOUS
      <3> HIDE DEF Without
      <3> QED
        BY <3>1, Least
    <2>2. m \in Nat /\ m <= Limit /\ ~ \E f : Table(f) /\ TagsFrom(f, Limit + 1 - m)
      OBVIOUS
    <2>3. m # 0
      <3> DEFINE f == [q \in 1 .. Limit |-> q]
      <3>1. Table(f) /\ TagsFrom(f, Limit + 1)
        BY <1>1 DEF TagsFrom
      <3> HIDE DEF Table
      <3> QED
        BY <1>1, <2>2, <3>1
    <2>4. PICK f : Table(f) /\ TagsFrom(f, Limit + 1 - (m - 1))
      <3>1. m - 1 \in Nat /\ m - 1 < m /\ m - 1 <= Limit
        BY <1>1, <2>2, <2>3
      <3> QED
        BY <2>1, <3>1
    <2> DEFINE h == [q \in 1 .. Limit |-> TagsBy(f, q)]
    <2>5. \A q \in 1 .. Limit : TagsBy(f, q) \in 1 .. Limit
      BY <2>4, WholeHead DEF TagsBy
    <2>6. Table(h)
      BY <2>5
    <2>7. \A q \in 1 .. Limit : h[q] = TagsBy(f, q)
      OBVIOUS
    <2> HIDE DEF h
    <2>8. TagsFrom(h, Limit + 1 - m)
      <3> SUFFICES ASSUME NEW q \in 1 .. Limit, q >= Limit + 1 - m PROVE h[q] = TagsBy(h, q)
        BY DEF TagsFrom
      <3>1. CASE PlainHead(q) /\ MajorOf(buf[q]) = "tag"
        <4> DEFINE p == q + HeadLength(q)
        <4>1. p \in 1 .. Limit /\ p > q
          BY <3>1, WholeHead
        <4>2. TagsBy(f, q) = f[p] /\ TagsBy(h, q) = h[p]
          BY <3>1 DEF TagsBy
        <4> HIDE DEF p
        <4>3. p >= Limit + 1 - (m - 1)
          BY <1>1, <2>2, <4>1
        <4>4. f[p] = TagsBy(f, p)
          BY <2>4, <4>1, <4>3 DEF TagsFrom
        <4> QED
          BY <2>7, <4>1, <4>2, <4>4
      <3>2. CASE ~(PlainHead(q) /\ MajorOf(buf[q]) = "tag")
        BY <2>7, <3>2 DEF TagsBy
      <3> QED
        BY <3>1, <3>2
    <2> HIDE DEF Table
    <2> QED
      BY <2>2, <2>6, <2>8
  <1>3. \E f : Table(f) /\ TagsFrom(f, Limit + 1 - Limit)
    <2>1. Limit \in Nat /\ Limit <= Limit
      BY <1>1
    <2> HIDE DEF Table
    <2> QED
      BY <1>2, <2>1
  <1>4. Limit + 1 - Limit = 1
    BY <1>1
  <1> QED
    BY <1>3, <1>4

LEMMA TagsAgree ==
  ASSUME buf \in Seq(Byte), NEW f \in [1 .. Limit -> 1 .. Limit], TagsFrom(f, 1),
         NEW h, h = [q \in 1 .. Limit |-> h[q]], TagsFrom(h, 1)
  PROVE  f = h
  <1>1. Limit \in Nat \ {0}
    BY BufferType
  <1>2. \A q \in 1 .. Limit : f[q] = TagsBy(f, q) /\ h[q] = TagsBy(h, q)
    BY <1>1 DEF TagsFrom
  <1> DEFINE Wrong == {r \in Nat : \E q \in 1 .. Limit : r = Limit - q /\ f[q] # h[q]}
  <1>3. Wrong = {}
    <2> SUFFICES ASSUME Wrong # {} PROVE FALSE
      OBVIOUS
    <2>1. PICK r \in Wrong : \A s \in Wrong : ~(s < r)
      <3>1. Wrong \in SUBSET Nat
        OBVIOUS
      <3> HIDE DEF Wrong
      <3> QED
        BY <3>1, Least
    <2>2. PICK q \in 1 .. Limit : r = Limit - q /\ f[q] # h[q]
      BY <2>1
    <2>3. PlainHead(q) /\ MajorOf(buf[q]) = "tag"
      BY <1>2, <2>2 DEF TagsBy
    <2> DEFINE p == q + HeadLength(q)
    <2>4. p \in 1 .. Limit /\ p > q
      BY <2>3, WholeHead
    <2>5. f[q] = f[p] /\ h[q] = h[p]
      BY <1>2, <2>3 DEF TagsBy
    <2> HIDE DEF p
    <2>6. Limit - p \in Nat /\ Limit - p < r
      BY <1>1, <2>2, <2>4
    <2>7. f[p] = h[p]
      BY <2>1, <2>4, <2>6
    <2> QED
      BY <2>2, <2>5, <2>7
  <1>4. \A q \in 1 .. Limit : f[q] = h[q]
    <2> SUFFICES ASSUME NEW q \in 1 .. Limit, f[q] # h[q] PROVE FALSE
      OBVIOUS
    <2>1. Limit - q \in Nat
      BY <1>1
    <2> QED
      BY <1>3, <2>1
  <1>5. f = [q \in 1 .. Limit |-> f[q]]
    OBVIOUS
  <1> QED
    BY <1>4, <1>5

LEMMA TagsEndIs ==
  ASSUME buf \in Seq(Byte)
  PROVE  /\ TagsEnd \in [1 .. Limit -> 1 .. Limit] /\ TagsFrom(TagsEnd, 1)
         /\ TagsEnd = [q \in 1 .. Limit |-> TagsEnd[q]]
  <1>1. PICK f \in [1 .. Limit -> 1 .. Limit] : TagsFrom(f, 1)
    BY TagsExist
  <1>2. Limit \in Nat \ {0}
    BY BufferType
  <1>3. f = [q \in 1 .. Limit |-> TagsBy(f, q)]
    <2>1. f = [q \in 1 .. Limit |-> f[q]] /\ \A q \in 1 .. Limit : f[q] = TagsBy(f, q)
      BY <1>1, <1>2 DEF TagsFrom
    <2> QED
      BY <2>1
  <1>4. TagsEnd = [q \in 1 .. Limit |-> TagsBy(TagsEnd, q)]
    BY <1>3 DEF TagsEnd, TagsBy
  <1>5. \A q \in 1 .. Limit : TagsEnd[q] = TagsBy(TagsEnd, q)
    BY <1>4
  <1>6. TagsEnd = [q \in 1 .. Limit |-> TagsEnd[q]]
    BY <1>4
  <1> DEFINE h == TagsEnd
  <1>7. h = [q \in 1 .. Limit |-> h[q]] /\ TagsFrom(h, 1)
    BY <1>5, <1>6 DEF TagsFrom
  <1> HIDE DEF h
  <1>8. f = h
    BY <1>1, <1>7, TagsAgree
  <1> QED
    BY <1>1, <1>7, <1>8 DEF h

LEMMA TagsEndFact ==
  buf \in Seq(Byte) =>
    /\ TagsEnd \in [1 .. Limit -> 1 .. Limit] /\ TagsFrom(TagsEnd, 1)
    /\ TagsEnd = [q \in 1 .. Limit |-> TagsEnd[q]]
  BY TagsEndIs

LEMMA TagsEndStays ==
  ASSUME buf \in Seq(Byte), buf' = buf PROVE TagsEnd' = TagsEnd
  <1> SUFFICES ASSUME NEW h, TagsEnd' = h PROVE h = TagsEnd
    OBVIOUS
  <1>1. TagsEndFact!1' => TagsEndFact!2'
    BY TagsEndFact, PTL
  <1>2. Limit' = Limit
    BY DEF Limit
  <1>3. h = [q \in 1 .. Limit |-> h[q]] /\ TagsFrom(h, 1)'
    BY <1>1, <1>2
  <1>4. TagsFrom(h, 1)
    BY <1>2, <1>3 DEF TagsFrom, TagsBy, PlainHead, HeadLength
  <1>5. TagsEnd \in [1 .. Limit -> 1 .. Limit] /\ TagsFrom(TagsEnd, 1)
    BY TagsEndIs
  <1> DEFINE f == TagsEnd
  <1>6. f \in [1 .. Limit -> 1 .. Limit] /\ TagsFrom(f, 1)
    BY <1>5
  <1> HIDE DEF f
  <1>7. f = h
    BY <1>3, <1>4, <1>6, TagsAgree
  <1> QED
    BY <1>7 DEF f

LEMMA TagsEndRule ==
  ASSUME buf \in Seq(Byte), NEW q \in 1 .. Limit
  PROVE  /\ TagsEnd[q] \in 1 .. Limit
         /\ TagsEnd[q] = IF PlainHead(q) /\ MajorOf(buf[q]) = "tag"
                         THEN TagsEnd[q + HeadLength(q)] ELSE q
  <1>1. TagsEnd \in [1 .. Limit -> 1 .. Limit] /\ TagsFrom(TagsEnd, 1) /\ Limit \in Nat
    BY TagsEndIs, BufferType
  <1>2. TagsEnd[q] = TagsBy(TagsEnd, q)
    BY <1>1 DEF TagsFrom
  <1> QED
    BY <1>1, <1>2 DEF TagsBy

-----------------------------------------------------------------------------
(* No error of the cursor's is that of a buffer too small.                 *)
LEMMA ValueNotOom == \A c : PreparseValue(c).err # "oom"
  <1> SUFFICES ASSUME NEW c PROVE PreparseValue(c).err # "oom"
    OBVIOUS
  <1>1. \A t : IndefiniteHead(c, t).err # "oom" /\ ReservedHead(t).err # "oom"
    BY DEF IndefiniteHead, ReservedHead, Result
  <1>2. \A t : Result("unexpected_eof", t).err # "oom" /\ Result("ok", t).err # "oom"
               /\ Result("illegal_simple_type", t).err # "oom"
    BY DEF Result
  <1> QED
    BY <1>1, <1>2 DEF PreparseValue

LEMMA NextNotOom == \A c : PreparseNext(c).err # "oom"
  BY ValueNotOom DEF PreparseNext, PreparseNoDecrement, Result

(* What an operation fails with depends on no more of the cursor than this. *)
LEMMA ValueError ==
  ASSUME NEW x \in Cursors, NEW y \in Cursors, x.ptr = y.ptr
  PROVE  PreparseValue(x).err = PreparseValue(y).err
  <1> DEFINE b == HeadByte(x)
             d == Descriptor(b)
             kind == MajorOf(b)
             bx == Blank(x)
             by == Blank(y)
             tx == [bx EXCEPT !.type = kind, !.extra = d]
             ty == [by EXCEPT !.type = kind, !.extra = d]
             need == BytesNeeded(d)
             extra == IF need = 0 THEN d
                      ELSE IF need <= ExtraBytes THEN BeLoad(buf, x.ptr + 1, need) ELSE 0
             wide == IF need <= ExtraBytes THEN 0 ELSE need
             dx == [bx EXCEPT !.type = kind, !.extra = extra, !.wide = wide]
             dy == [by EXCEPT !.type = kind, !.extra = extra, !.wide = wide]
  <1>1. HeadByte(y) = b /\ \A n : CanRead(x, n) <=> CanRead(y, n)
    BY DEF HeadByte, CanRead
  <1>2. bx \in Cursors /\ by \in Cursors /\ bx.ptr = by.ptr
    BY BlankIs
  <1> HIDE DEF bx, by
  <1>3. Decoded(x) = dx /\ Decoded(y) = dy
    BY <1>1 DEF Decoded, bx, by
  <1> HIDE DEF extra, wide, kind, d
  <1>4. tx.type = ty.type /\ dx.type = dy.type /\ dx.extra = dy.extra /\ dx.ptr = dy.ptr
    BY <1>2 DEF Cursors
  <1> HIDE DEF tx, ty, dx, dy
  <1>5. Overlong(dx) <=> Overlong(dy)
    BY <1>4 DEF Overlong, HeadByte
  <1>6. /\ IndefiniteHead(x, tx).err = IndefiniteHead(y, ty).err
        /\ ReservedHead(tx).err = ReservedHead(ty).err
    BY <1>4 DEF IndefiniteHead, ReservedHead, Result, IsString, IsContainer
  <1> DEFINE verdict(c, t, long) ==
               IF ~CanRead(c, 1) THEN "unexpected_eof"
               ELSE CASE d = IndefiniteLength -> IndefiniteHead(c, t).err
                      [] d > Value64Bit /\ d # IndefiniteLength -> ReservedHead(t).err
                      [] OTHER -> IF ~CanRead(c, BytesNeeded(d) + 1) THEN "unexpected_eof"
                                  ELSE IF long THEN "illegal_simple_type" ELSE "ok"
  <1>7. PreparseValue(x).err = verdict(x, tx, Overlong(dx))
    BY <1>3 DEF PreparseValue, Result, tx, d, kind, bx
  <1>8. PreparseValue(y).err = verdict(y, ty, Overlong(dy))
    BY <1>1, <1>3 DEF PreparseValue, Result, ty, d, kind, by
  <1>9. (CanRead(x, 1) <=> CanRead(y, 1))
        /\ (CanRead(x, BytesNeeded(d) + 1) <=> CanRead(y, BytesNeeded(d) + 1))
    BY <1>1
  <1> HIDE DEF d
  <1> QED
    BY <1>5, <1>6, <1>7, <1>8, <1>9

LEMMA NextError ==
  ASSUME NEW x \in Cursors, NEW y \in Cursors, x.ptr = y.ptr, x.remaining = y.remaining,
         x.type = y.type, x.map = y.map, x.key = y.key, x.remaining # 0
  PROVE  PreparseNext(x).err = PreparseNext(y).err
  <1>1. ASSUME NEW u \in Cursors, NEW v \in Cursors, u.ptr = v.ptr, u.remaining = v.remaining,
               u.type = v.type, u.map = v.map, u.key = v.key
        PROVE  PreparseNoDecrement(u).err = PreparseNoDecrement(v).err
    <2>1. (AtBreak(u) <=> AtBreak(v)) /\ (BreakForbidden(u) <=> BreakForbidden(v))
      BY <1>1 DEF AtBreak, CanRead, HeadByte, BreakForbidden, MidPair
    <2>2. PreparseValue(u).err = PreparseValue(v).err
      BY <1>1, ValueError
    <2> QED
      BY <1>1, <2>1, <2>2 DEF PreparseNoDecrement, Result
  <1> DEFINE left == IF x.remaining = U32Max THEN x.remaining ELSE x.remaining - 1
             flipped == ~x.key
             counted(c) == [c EXCEPT !.remaining = left, !.key = flipped]
  <1>2. CountsAsItem(x) <=> CountsAsItem(y)
    BY DEF CountsAsItem
  <1>3. CASE ~CountsAsItem(x)
    BY <1>1, <1>2, <1>3 DEF PreparseNext
  <1>4. CASE CountsAsItem(x) /\ x.remaining = 1
    BY <1>2, <1>4 DEF PreparseNext, Result
  <1>5. CASE CountsAsItem(x) /\ x.remaining # 1
    <2>1. /\ PreparseNext(x) = PreparseNoDecrement(counted(x))
          /\ PreparseNext(y) = PreparseNoDecrement(counted(y))
      BY <1>2, <1>5 DEF PreparseNext
    <2>2. left \in 0 .. U32Max /\ flipped \in BOOLEAN
      BY <1>5, CursorAssumption DEF Cursors
    <2> HIDE DEF left, flipped
    <2>3. /\ counted(x) \in Cursors /\ counted(y) \in Cursors /\ counted(x).ptr = counted(y).ptr
          /\ counted(x).remaining = counted(y).remaining /\ counted(x).key = counted(y).key
          /\ counted(x).type = counted(y).type /\ counted(x).map = counted(y).map
      BY <2>2 DEF Cursors
    <2> HIDE DEF counted
    <2> QED
      BY <1>1, <2>1, <2>3
  <1> QED
    BY <1>3, <1>4, <1>5

(* What comes next is read from the bytes alone. *)
LEMMA NextStays ==
  ASSUME buf' = buf, NEW c PROVE PreparseNext(c)' = PreparseNext(c)
  <1>1. ASSUME NEW x PROVE PreparseValue(x)' = PreparseValue(x)
    <2>1. /\ CanRead(x, 1)' = CanRead(x, 1) /\ HeadByte(x)' = HeadByte(x)
          /\ CanRead(x, BytesNeeded(Descriptor(HeadByte(x))) + 1)'
               = CanRead(x, BytesNeeded(Descriptor(HeadByte(x))) + 1)
      BY DEF CanRead, Limit, HeadByte
    <2>2. Decoded(x)' = Decoded(x)
      BY DEF Decoded, HeadByte
    <2>3. Overlong(Decoded(x))' = Overlong(Decoded(x))
      BY <2>2 DEF Overlong, HeadByte
    <2> QED
      BY <2>1, <2>2, <2>3 DEF PreparseValue
  <1>2. ASSUME NEW x PROVE PreparseNoDecrement(x)' = PreparseNoDecrement(x)
    <2>1. AtBreak(x)' = AtBreak(x)
      BY DEF AtBreak, CanRead, HeadByte, Limit
    <2> QED
      BY <1>1, <2>1 DEF PreparseNoDecrement
  <1> QED
    BY <1>2 DEF PreparseNext

-----------------------------------------------------------------------------
(* Past a tag stands what the tags at its end do, if it is a head. *)
LEMMA TagPassed ==
  ASSUME buf \in Seq(Byte), NEW c \in Cursors, HeadRead(c), c.type = "tag"
  PROVE  LET r == AdvanceInternal(c)
             q == c.ptr + HeadLength(c.ptr)
         IN  /\ q \in 1 .. Limit /\ TagsEnd[c.ptr] = TagsEnd[q]
             /\ r.err = "ok" => /\ r.it \in Cursors /\ HeadRead(r.it) /\ r.it.ptr = q
                                /\ r.it.remaining = c.remaining
                                /\ r.it.map = c.map /\ r.it.key = c.key
             /\ r.err # "ok" => ~WholeAt(q)
             /\ r.err # "oom"
  <1> DEFINE r == AdvanceInternal(c)
             q == c.ptr + HeadLength(c.ptr)
             past == PastHead(c)
             v == PreparseValue(past)
  <1>1. ~IsString(c) /\ ~IsContainer(c) /\ c.remaining # 0
    BY DEF IsString, IsContainer, StringMajors, ContainerMajors, HeadRead
  <1>2. ~c.unknown /\ PlainHead(c.ptr) /\ c.ptr \in 1 .. Limit /\ c.type = MajorOf(buf[c.ptr])
    BY <1>1, HeadReadIs DEF HeadRead
  <1>3. /\ past \in Cursors /\ Within(past) /\ past.ptr = q /\ past.type = c.type
        /\ past.remaining = c.remaining /\ past.map = c.map /\ past.key = c.key
    BY <1>2, HeadReadIs
  <1>4. q \in 1 .. Limit /\ TagsEnd[c.ptr] = TagsEnd[q]
    BY <1>2, WholeHead, TagsEndRule
  <1>5. r = PreparseNext(past)
    BY <1>1 DEF AdvanceInternal
  <1> HIDE DEF past, q
  <1>6. r = IF past.remaining = U32Max /\ AtBreak(past) THEN Result("unexpected_break", past) ELSE v
    BY <1>3, <1>5 DEF PreparseNext, CountsAsItem, PreparseNoDecrement, BreakForbidden
  <1>7. r.err # "oom"
    BY <1>5, NextNotOom
  <1>8. CASE past.remaining = U32Max /\ AtBreak(past)
    <2>1. BreakAt(q)
      BY <1>3, <1>8, AtBreakIs
    <2>2. ~WholeAt(q)
      BY <2>1, BreakIsNoHead DEF WholeAt
    <2>3. r.err # "ok"
      BY <1>6, <1>8 DEF Result
    <2> HIDE DEF r
    <2> QED
      BY <1>4, <1>7, <2>2, <2>3 DEF r, q
  <1>9. CASE ~(past.remaining = U32Max /\ AtBreak(past))
    <2>1. r = v
      BY <1>6, <1>9
    <2>2. /\ v.it \in Cursors /\ SameSlot(v.it, past) /\ (v.err = "ok" => HeadHere(v.it))
      BY <1>3, PreparseValueProperties
    <2>3. /\ v.err = "ok" <=> WholeAt(q)
          /\ v.err = "ok" /\ ~v.it.unknown => PlainHead(q) /\ Int64(v.it) = Argument(buf, q)
      BY <1>3, ValueIs
    <2> HIDE DEF r, v
    <2>4. v.err = "ok" => HeadRead(v.it)
      BY <1>1, <1>3, <2>2, <2>3 DEF HeadRead, SameSlot
    <2> QED
      BY <1>3, <1>4, <1>7, <2>1, <2>2, <2>3, <2>4 DEF r, q, SameSlot
  <1> QED
    BY <1>8, <1>9

(* What the client stands on has its head read, with its argument. *)
LEMMA ValueRead ==
  ASSUME buf \in Seq(Byte), NEW c \in Cursors, Within(c), c.remaining # 0,
         PreparseValue(c).err = "ok"
  PROVE  HeadRead(PreparseValue(c).it)
  <1> DEFINE v == PreparseValue(c)
  <1>1. /\ v.it \in Cursors /\ SameSlot(v.it, c) /\ HeadHere(v.it)
        /\ ~v.it.unknown => PlainHead(c.ptr) /\ Int64(v.it) = Argument(buf, c.ptr)
    BY PreparseValueProperties, ValueIs
  <1> HIDE DEF v
  <1>2. HeadRead(v.it)
    BY <1>1 DEF HeadRead, SameSlot
  <1> QED
    BY <1>2 DEF v

LEMMA NoDecrementRead ==
  ASSUME buf \in Seq(Byte), NEW c \in Cursors, Within(c), c.remaining # 0,
         NEW r, r = PreparseNoDecrement(c), r.err = "ok", r.it.type # "invalid"
  PROVE  HeadRead(r.it)
  <1> DEFINE ended == [c EXCEPT !.type = "invalid", !.remaining = 0, !.unknown = TRUE]
  <1>1. ended.type = "invalid"
    BY DEF Cursors
  <1> HIDE DEF ended
  <1>2. r = IF c.remaining = U32Max /\ AtBreak(c)
            THEN IF BreakForbidden(c) THEN Result("unexpected_break", c) ELSE Result("ok", ended)
            ELSE PreparseValue(c)
    BY DEF PreparseNoDecrement, ended
  <1>3. r = PreparseValue(c)
    BY <1>1, <1>2 DEF Result
  <1> QED
    BY <1>3, ValueRead

LEMMA EnterRead ==
  ASSUME buf \in Seq(Byte), NEW c \in Cursors, HeadRead(c), IsContainer(c),
         NEW r, r = EnterContainer(c), r.err = "ok", r.it.type # "invalid"
  PROVE  HeadRead(r.it)
  <1> DEFINE items == IF c.type = "map" THEN 2 * Int64(c) ELSE Int64(c)
             past == PastHead(c)
             over == Advanced(c, 1)
             unknown == [Inside(over) EXCEPT !.remaining = U32Max]
             known == [Inside(past) EXCEPT !.remaining = items]
             empty == [past EXCEPT !.remaining = 0, !.type = "invalid"]
  <1>1. HeadHere(c)
    BY DEF HeadRead
  <1>2. CASE c.unknown
    <2>1. over \in Cursors /\ Within(over) /\ U32Max \in 0 .. U32Max /\ U32Max # 0
      BY <1>1, HeadProperties, CursorAssumption
    <2>2. r = PreparseNoDecrement(unknown)
      BY <1>2 DEF EnterContainer
    <2> HIDE DEF over
    <2>3. unknown \in Cursors /\ Within(unknown) /\ unknown.remaining # 0
      BY <2>1, InsideIs DEF Within
    <2> HIDE DEF unknown
    <2> QED
      BY <2>2, <2>3, NoDecrementRead
  <1>3. CASE ~c.unknown
    <2>1. past \in Cursors /\ Within(past)
      BY <1>1, <1>3, HeadProperties
    <2>2. ~TooLarge(c)
      BY <1>3 DEF EnterContainer, Result
    <2>3. items \in 0 .. U32Max
      BY <1>1, <1>3, <2>2, ItemsFit
    <2>4. r = IF items = 0 THEN Result("ok", empty) ELSE PreparseNoDecrement(known)
      BY <1>3, <2>2 DEF EnterContainer
    <2> HIDE DEF past, items
    <2>5. empty.type = "invalid"
      BY <2>1 DEF Cursors
    <2> HIDE DEF empty
    <2>6. items # 0 /\ r = PreparseNoDecrement(known)
      BY <2>4, <2>5 DEF Result
    <2>7. known \in Cursors /\ Within(known) /\ known.remaining # 0
      BY <2>1, <2>3, <2>6, InsideIs DEF Within
    <2> HIDE DEF known
    <2> QED
      BY <2>6, <2>7, NoDecrementRead
  <1> QED
    BY <1>2, <1>3
=============================================================================
