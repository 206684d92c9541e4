------------------------------- MODULE Grammar -------------------------------
(***************************************************************************)
(* Reference definition of where a CBOR item ends, by recursion on the     *)
(* grammar rather than on the parser's code, with the limits the parser    *)
(* documents: containers of at most 2^32 - 2 items and bounded nesting.    *)
(* A position of 0 means the bytes are not a complete item.                *)
(*                                                                         *)
(* What the scan, the walk, the navigation and all that is built on them   *)
(* are checked against.  The recursion is that of one function, not of     *)
(* operators, so that one can also prove about it.                         *)
(***************************************************************************)
EXTENDS Cursor

Malformed == 0

HeadLength(q) == 1 + BytesNeeded(Descriptor(buf[q]))

(* A head that is neither cut short, reserved, indefinite nor overlong. *)
PlainHead(q) ==
  /\ q < Limit /\ Descriptor(buf[q]) <= Value64Bit
  /\ q + HeadLength(q) <= Limit
  /\ ~(MajorOf(buf[q]) = "simple" /\ Descriptor(buf[q]) = Value8Bit
       /\ Argument(buf, q) < Descriptors)

StreamedHead(q, majors) ==
  q < Limit /\ Descriptor(buf[q]) = IndefiniteLength /\ MajorOf(buf[q]) \in majors

BreakAt(q) == q < Limit /\ buf[q] = BreakByte

(* The end of the payload of a definite string that starts at q. *)
StringEnd(q) ==
  LET end == q + HeadLength(q) + Argument(buf, q)
  IN  IF end <= Limit THEN end ELSE Malformed

(* What is to be got past from a position on, with `nest` levels to spare: *)
(* an item, n items, or what is left of a streamed string or container up  *)
(* to its break, named after its major type; "value" is left of a map that *)
(* is between a key and its value, where no break may stand.               *)
Pieces == {"item", "items", "value"} \cup StringMajors \cup ContainerMajors
Goals == [piece : Pieces, at : 1 .. Limit, n : Nat, nest : Nat]
Goal(piece, at, n, nest) == [piece |-> piece, at |-> at, n |-> n, nest |-> nest]

(* The rules of the grammar, each for a position from which something      *)
(* starts, given the ends of whatever starts later.                        *)
ItemCount(q) == IF MajorOf(buf[q]) = "map" THEN 2 * Argument(buf, q) ELSE Argument(buf, q)

EndOfContainer(ends, piece, q, n, nest) ==
  IF nest = 0 THEN Malformed ELSE ends[Goal(piece, q, n, nest - 1)]

EndOfItem(ends, q, nest) ==
  IF StreamedHead(q, StringMajors) THEN ends[Goal(MajorOf(buf[q]), q + 1, 0, 0)]
  ELSE IF StreamedHead(q, ContainerMajors)
  THEN EndOfContainer(ends, MajorOf(buf[q]), q + 1, 0, nest)
  ELSE IF ~PlainHead(q) THEN Malformed
  ELSE CASE MajorOf(buf[q]) \in StringMajors -> StringEnd(q)
         [] MajorOf(buf[q]) = "tag" -> ends[Goal("item", q + HeadLength(q), 0, nest)]
         [] MajorOf(buf[q]) \in ContainerMajors ->
              IF ItemCount(q) >= U32Max THEN Malformed
              ELSE EndOfContainer(ends, "items", q + HeadLength(q), ItemCount(q), nest)
         [] OTHER -> q + HeadLength(q)

EndOfChunks(ends, q, major) ==
  IF BreakAt(q) THEN q + 1
  ELSE IF PlainHead(q) /\ MajorOf(buf[q]) = major /\ StringEnd(q) # Malformed
  THEN ends[Goal(major, StringEnd(q), 0, 0)]
  ELSE Malformed

(* One item, and then the rest. *)
OneThen(ends, piece, q, n, nest) ==
  LET next == ends[Goal("item", q, 0, nest)]
  IN  IF next > q THEN ends[Goal(piece, next, n, nest)] ELSE Malformed

EndBy(ends, g) ==
  CASE g.piece = "item" -> EndOfItem(ends, g.at, g.nest)
    [] g.piece = "items" ->
         IF g.n = 0 THEN g.at ELSE OneThen(ends, "items", g.at, g.n - 1, g.nest)
    [] g.piece \in StringMajors -> EndOfChunks(ends, g.at, g.piece)
    [] g.piece \in ContainerMajors ->
         IF BreakAt(g.at) THEN g.at + 1
         ELSE OneThen(ends, IF g.piece = "map" THEN "value" ELSE g.piece, g.at, 0, g.nest)
    [] g.piece = "value" -> OneThen(ends, "map", g.at, 0, g.nest)

EndOf[g \in Goals] == EndBy(EndOf, g)

ItemEnd(q, nest) == EndOf[Goal("item", q, 0, nest)]
ItemsEnd(q, n, nest) == EndOf[Goal("items", q, n, nest)]
ChunksEnd(q, major) == EndOf[Goal(major, q, 0, 0)]
BreakEnd(q, map, midPair, nest) ==
  EndOf[Goal(IF ~map THEN "array" ELSE IF midPair THEN "value" ELSE "map", q, 0, nest)]

(* Nesting deeper than the buffer is long does not occur. *)
Unlimited == Len(buf) + 1

(* Where the item starts that has the tags at q before it. *)
TagsEnd[q \in 1 .. Limit] ==
  IF PlainHead(q) /\ MajorOf(buf[q]) = "tag" THEN TagsEnd[q + HeadLength(q)] ELSE q

-----------------------------------------------------------------------------
(* What a cursor still has before it, in the grammar's terms: where the    *)
(* item under c ends, c being inside it if it is iterated over, ...        *)
ThisEnd(c, iterating, nest) ==
  IF iterating /\ c.unknown THEN ChunksEnd(c.ptr, c.type)
  ELSE IF iterating /\ ~c.first THEN c.ptr
  ELSE ItemEnd(c.ptr, nest)

(* ... where the container that c is in ends if that item ends at e, ...   *)
AfterThis(e, c, nest) ==
  IF e = Malformed THEN Malformed
  ELSE IF c.remaining = U32Max THEN BreakEnd(e, c.map, ~c.key, nest)
  ELSE ItemsEnd(e, c.remaining - 1, nest)

(* ... and where it does, past all the items c still owes.                 *)
ContainerEnd(c, iterating, nest) ==
  IF c.remaining = 0 THEN ResumeAt(c)
  ELSE AfterThis(ThisEnd(c, iterating, nest), c, nest)
=============================================================================
