------------------------------ MODULE MCRender ------------------------------
(* Small instances of Render for TLC: its calls against the grammar, and   *)
(* against what cbordump makes of the same bytes.                          *)
EXTENDS Render, DumpPrinters, Grammar

SeqUpTo(S, n) == UNION {[1 .. k -> S] : k \in 0 .. n}
Joined(pieces) == {FlattenSeq(s) : s \in pieces}

(* Bytes split 8 x 11: the heads of arrays and maps of one, of two and of  *)
(* unknown length, a tag, a chunked text, a break, a text, an integer.     *)
Structure == {<< 45 >>, << 46 >>, << 54 >>, << 56 >>, << 65 >>, << 66 >>, << 87 >>, << 34, 1 >>, << 1 >>}

(* A text with a quotation mark, one that is not UTF-8, a byte string, an  *)
(* empty and a chunked text, a chunked byte string, an integer longer than *)
(* it need be, a negative one, false, null, undefined, an unassigned       *)
(* simple value, three halves, a single and two doubles, the three tags    *)
(* for byte strings, a reserved head, an array too long.                   *)
Atoms ==
  {<< 34, 2 >>, << 34, 3 >>, << 23, 1 >>, << 33 >>, << 43 >>, << 32 >>, << 5, 1 >>, << 13 >>,
   << 78 >>, << 80 >>, << 81 >>, << 77 >>, << 83, 0, 1 >>, << 83, 0, 12 >>, << 83, 0, 29 >>,
   << 84, 0, 0, 1, 24 >>, << 85, 0, 0, 0, 0, 0, 0, 2, 48 >>, << 85, 0, 0, 0, 0, 0, 0, 8, 0 >>,
   << 67 >>, << 68 >>, << 69 >>, << 9 >>, << 49, 7 >>}

(* Around the limits of the two integer types, on either side of zero. *)
Integers == {<< h, n >> : h \in {5, 16}, n \in {7, 8, 15, 16}}

(* Maps of two pairs, of known and of unknown length: keys that are equal, *)
(* longer, tagged, chunked, no text or broken, values that are in the way. *)
KeyItems ==
  {<< 34, 1 >>, << 35, 1, 2 >>, << 66, 34, 1 >>, << 43, 34, 1, 34, 2, 87 >>, << 45, 1 >>, << 34 >>}
ValueItems == {<< 1 >>, << 66, 1 >>, << 45, 45, 45, 1 >>, << 43, 33, 87 >>, << 67 >>}
Pairs == {k \o v : k \in KeyItems, v \in ValueItems}
Maps ==
  {<< 57 >> \o a \o b : a, b \in Pairs}
    \cup {<< 65 >> \o a \o b \o << 87 >> : a \in Pairs, b \in Pairs \cup {<< >>, << 34, 1 >>}}

MCKeys == {<< >>, << 1 >>, << 1, 2 >>}

MCDocuments ==
  Integers \cup Maps \cup Joined(SeqUpTo(Structure, 3)) \cup Joined(SeqUpTo(Atoms \cup Structure, 2))
    \cup {<< 56 >> \o k \o v : k \in {<< 34, 1 >>, << 1 >>, << 66, 1 >>}, v \in Atoms}
    \cup {<< 65, 34, 1 >> \o v \o t : v \in Atoms, t \in {<< 87 >>, << 34, 1, 87 >>}}

MCPrettyFlags == {DefaultFlags, {"fragments", "indeterminate", "overlong"}}
MCJsonFlags ==
  {{}, {"metadata", "stringify"}, {"metadata", "stringify", "tags_to_objects"}, {"metadata", "to_base64url"}}

-----------------------------------------------------------------------------
(* How far the item at q can be read: its end, or the head of the first    *)
(* item in it that is malformed; nothing is said of an item with more      *)
(* containers and tags around it than are printed.                         *)
Good(q) == [is |-> "good", at |-> q]
Bad(q) == [is |-> "bad", at |-> q]
Deep == [is |-> "deep", at |-> 0]

RECURSIVE ChunksAt(_, _), ItemAt(_, _), ItemsAt(_, _, _), ToBreakAt(_, _, _, _)
ChunksAt(q, major) ==
  IF BreakAt(q) THEN Good(q + 1)
  ELSE IF PlainHead(q) /\ MajorOf(buf[q]) = major /\ StringEnd(q) # Malformed
  THEN ChunksAt(StringEnd(q), major)
  ELSE Bad(q)
ItemAt(q, left) ==
  IF StreamedHead(q, StringMajors) THEN ChunksAt(q + 1, MajorOf(buf[q]))
  ELSE IF StreamedHead(q, ContainerMajors)
  THEN IF left <= 1 THEN Deep ELSE ToBreakAt(q + 1, MajorOf(buf[q]) = "map", FALSE, left - 1)
  ELSE IF ~PlainHead(q) THEN Bad(q)
  ELSE LET major == MajorOf(buf[q])
           items == IF major = "map" THEN 2 * Argument(buf, q) ELSE Argument(buf, q)
           next == q + HeadLength(q)
       IN  CASE major \in StringMajors ->
                  IF StringEnd(q) = Malformed THEN Bad(q) ELSE Good(StringEnd(q))
             [] major = "tag" -> IF left = 0 THEN Deep ELSE ItemAt(next, left - 1)
             [] major \in ContainerMajors ->
                  IF items >= U32Max THEN Bad(q)
                  ELSE IF left <= 1 THEN Deep ELSE ItemsAt(next, items, left - 1)
             [] OTHER -> Good(next)
ItemsAt(q, n, left) ==
  IF n = 0 THEN Good(q)
  ELSE LET item == ItemAt(q, left)
       IN  IF item.is = "good" THEN ItemsAt(item.at, n - 1, left) ELSE item
ToBreakAt(q, map, midPair, left) ==
  IF BreakAt(q) THEN IF map /\ midPair THEN Bad(q) ELSE Good(q + 1)
  ELSE LET item == ItemAt(q, left)
       IN  IF item.is = "good" THEN ToBreakAt(item.at, map, ~midPair, left) ELSE item

(* The cursor behind an item that ends at q, and what is wrong there. *)
Behind(q) == PreparseNext([before EXCEPT !.ptr = q, !.type = "uint"])
SameItem(a, b) == << a.ptr, a.type, a.remaining >> = << b.ptr, b.type, b.remaining >>
Pretties == {"pretty", "stream"}
SinkErrors == {"io", "callback_error"}

-----------------------------------------------------------------------------
(* Diagnostic notation is refused exactly when the bytes are malformed, in *)
(* the item or at the head after it, when a text in it is not UTF-8, or by *)
(* the sink; what is printed is nothing less than the whole item.          *)
PrettyExact ==
  call \in Pretties /\ err \notin SinkErrors \cup {"invalid_utf8"} =>
    LET item == ItemAt(before.ptr, MAX_RECURSIONS)
    IN  /\ item.is = "bad" => err # "ok"
        /\ item.is = "good" => err = Behind(item.at).err

(* Where the cursor is left: behind the item, with one item less to go, if *)
(* the walk got through it; at the item that is malformed if diagnostic    *)
(* notation stumbled on it, however deep; where it was if JSON did, inside *)
(* a container.  A sink that fails makes no difference.                    *)
CursorExact ==
  LET item == ItemAt(before.ptr, MAX_RECURSIONS)
  IN  /\ call \in Pretties /\ item.is = "bad" /\ err # "invalid_utf8" => value.ptr = item.at
      /\ call \in Pretties \cup {"json"} /\ item.is = "good" /\ err \in {"ok"} \cup SinkErrors =>
           /\ SameItem(value, Behind(item.at).it)
           /\ value.type # "invalid" => value.remaining = U32Max \/ value.remaining = before.remaining - 1
      /\ call = "json" /\ IsContainer(before) /\ item.is = "bad" => value.ptr = before.ptr

(* map_find_value, by the grammar: the value of the first key that is the  *)
(* text asked for, tags aside, when everything up to that value's head is  *)
(* well formed.                                                            *)
RECURSIVE Fragments(_), Lookup(_, _, _), Untagged(_)
Untagged(q) == IF MajorOf(buf[q]) = "tag" THEN Untagged(q + HeadLength(q)) ELSE q
PayloadAt(q) == SubSeq(buf, q + HeadLength(q), StringEnd(q) - 1)
Fragments(q) == IF BreakAt(q) THEN << >> ELSE PayloadAt(q) \o Fragments(StringEnd(q))
TextAt(q) == IF StreamedHead(q, {"text"}) THEN Fragments(q + 1) ELSE PayloadAt(q)

Lookup(q, pairs, wanted) ==
  LET value_at == ItemEnd(q, MAX_RECURSIONS)
      next == ItemEnd(value_at, MAX_RECURSIONS)
  IN  IF pairs = 0 \/ (pairs = U32Max /\ BreakAt(q)) THEN [is |-> "absent"]
      ELSE IF value_at = Malformed \/ ~(PlainHead(value_at) \/ StreamedHead(value_at, StringMajors \cup ContainerMajors))
      THEN [is |-> "broken"]
      ELSE IF MajorOf(buf[Untagged(q)]) = "text" /\ TextAt(Untagged(q)) = wanted
      THEN [is |-> "found", at |-> value_at]
      ELSE IF next = Malformed THEN [is |-> "broken"]
      ELSE Lookup(next, IF pairs = U32Max THEN pairs ELSE pairs - 1, wanted)

(* Looking a key up finds what the grammar finds, and an element that can  *)
(* be told from one: invalid, with no error only if the whole map was      *)
(* searched.                                                               *)
FindExact ==
  call = "find" =>
    LET pairs == IF before.unknown THEN U32Max ELSE Argument(buf, before.ptr)
        inside == before.ptr + IF before.unknown THEN 1 ELSE HeadLength(before.ptr)
        found == IF ~before.unknown /\ 2 * pairs >= U32Max THEN [is |-> "broken"]
                 ELSE Lookup(inside, pairs, text)
    IN  /\ (err = "ok") = (found.is # "broken")
        /\ (value.type # "invalid") = (found.is = "found")
        /\ found.is = "found" => value.ptr = found.at /\ value.type = MajorOf(buf[found.at])

(* A checked integer is the item's value when the type has it, and refused *)
(* otherwise: the type has one more below zero than above it.              *)
IntegersExact ==
  call \in {"int64", "int"} =>
    LET n == Argument(buf, before.ptr)
        encoded == IF before.type = "negative" THEN -1 - n ELSE n
        limit == IF call = "int64" THEN Int64Limit ELSE IntLimit
    IN  IF encoded \in -limit .. limit - 1
        THEN err = "ok" /\ text = << Num("integer", encoded) >>
        ELSE err = "data_too_large"

AccessExact == FindExact /\ IntegersExact

(* The two programs agree on the same bytes: the same error, and without   *)
(* one the same text.  A key that is printed although its slot is not      *)
(* filled, a tag at the recursion limit, is where they differ.             *)
KeyAtLimit == \E p \in DOMAIN text : text[p] = Tok("<nesting too deep, recursion stopped>")
AgreesWithCbordump ==
  call \in Pretties \cup {"json"} /\ before = ParserInit.it /\ err \notin SinkErrors =>
    LET tool == IF call = "json" THEN DumpJson(flags) ELSE DumpPretty(flags)
    IN  \/ call = "json" /\ KeyAtLimit
        \/ tool.err = err /\ (err = "ok" => tool.out = text)
=============================================================================
