---------------------------- MODULE MCValidation ----------------------------
(* Small instances of Validation for TLC, and its answer against the rules *)
(* stated over the grammar.                                                *)
EXTENDS ValidationContract, TLC, FiniteSetsExt, Functions

SeqUpTo(S, n) == UNION {[1 .. k -> S] : k \in 0 .. n}

(* Bytes split 8 x 11, five literals: the integer 1 and one with its value *)
(* in the next byte, text(1), text of unknown length, array(1), array and  *)
(* map of unknown length, tag 0, break; in shorter documents also tag 2,   *)
(* an unassigned simple value, undefined, a simple value in the next byte. *)
MCItems ==
  SeqUpTo({1, 5, 34, 43, 45, 54, 65, 66, 87}, 3) \cup SeqUpTo({1, 45, 68, 77, 79, 82, 87}, 3)

(* Maps of two entries, and longer nests.                                  *)
MCKeys == {<< 0 >>, << 1 >>, << 5, 1 >>, << 34, 1 >>, << 34, 2 >>, << 35, 1, 1 >>,
           << 66, 34, 1 >>, << 66, 34, 45 >>, << 43, 34, 1, 87 >>, << 45, 1 >>}
MCMaps ==
  {<< 57 >> \o k \o << 1 >> \o l \o << 78 >> : k \in MCKeys, l \in MCKeys}
    \cup {<< 65 >> \o k \o << 56, 1, 1 >> \o l \o << 1, 87 >> : k \in MCKeys, l \in MCKeys}
MCNests == {s \o << 1 >> : s \in SeqUpTo({45, 66}, 4)}

(* Every float of every width, its bits in the last bytes of the argument. *)
FloatItem(descriptor, bits) ==
  << 7 * Descriptors + descriptor >>
    \o [i \in 1 .. BytesNeeded(descriptor) - 2 |-> 0] \o << bits \div ByteBase, bits % ByteBase >>
MCFloats ==
  UNION {{FloatItem(Value8Bit + k, bits) :
            bits \in Floats!Patterns(<< Floats!Half, Floats!Single, Floats!Double >>[k])} : k \in 1 .. 3}

MCDocuments == MCItems \cup MCMaps \cup MCNests \cup MCFloats

MCFlagSets ==
  {{}, SHORTEST_INTEGRALS, NO_INDETERMINATE_LENGTH, MAP_IS_SORTED,
   MAP_KEYS_ARE_UNIQUE, {"tag_use", "utf8", "complete"}, {"keys_string"},
   NO_UNKNOWN_SIMPLE_TYPES_SA \cup NO_UNKNOWN_TAGS_SA, {"no_tags"},
   NO_UNKNOWN_SIMPLE_TYPES \cup NO_UNKNOWN_TAGS_SR, NO_UNKNOWN_TAGS,
   {"shortest_float"}, {"finite", "undefined"}}

(* Tag 0 goes with text, tag 1 with an integer or an array. *)
MCTagTiers == << 2, 3 >>
MCKnownTags == 0 :> {"text"} @@ 1 :> {"integer", "array"}

-----------------------------------------------------------------------------
(* The items directly inside the well-formed item at q: a container's, a   *)
(* tag's, the chunks of a string of unknown length.                        *)
Streamed(q) == Descriptor(buf[q]) = IndefiniteLength
MajorAt(q) == MajorOf(buf[q])

RECURSIVE Between(_, _)
Between(q, end) == IF q = end THEN << >> ELSE << q >> \o Between(ItemEnd(q, Unlimited), end)

Parts(q) ==
  IF Streamed(q) THEN Between(q + 1, ItemEnd(q, Unlimited) - 1)
  ELSE IF MajorAt(q) \in ContainerMajors \cup {"tag"}
  THEN Between(q + HeadLength(q), ItemEnd(q, Unlimited))
  ELSE << >>

RECURSIVE Within(_), Depth(_)
Within(q) == {q} \cup UNION {Within(part) : part \in Range(Parts(q))}
Depth(q) ==
  IF MajorAt(q) \notin ContainerMajors \cup {"tag"} THEN 0
  ELSE 1 + Max({0} \cup {Depth(part) : part \in Range(Parts(q))})

(* No encoding is a prefix of another, so bytewise order is enough.        *)
Precedes(a, b) ==
  \E i \in DOMAIN a \cap DOMAIN b : a[i] < b[i] /\ \A j \in 1 .. i - 1 : a[j] = b[j]

Keys(q) == [i \in 1 .. Len(Parts(q)) \div 2 |-> Parts(q)[2 * i - 1]]
Encoded(q) == SubSeq(buf, q, ItemEnd(q, Unlimited) - 1)

TypeAt(q) == IF MajorAt(q) \in {"uint", "negative"} THEN "integer" ELSE MajorAt(q)

-----------------------------------------------------------------------------
(* Each rule, of one item: a number takes as few bytes as the encoder      *)
(* would; no length is unknown; the keys of a map are in ascending order   *)
(* of their encoding, or strictly so; and so on.                           *)
FloatAt(q) == MajorAt(q) = "simple" /\ Descriptor(buf[q]) > Value8Bit
FormatAt(q) == << Floats!Half, Floats!Single, Floats!Double >>[Descriptor(buf[q]) - Value8Bit]
Values(f) == {<< Floats!Sign(f, bits), Floats!Magnitude(f, bits) >> :
                bits \in {bits \in Floats!Patterns(f) : Floats!IsFinite(f, bits)}}
HalfValues == Values(Floats!Half)
SingleValues == Values(Floats!Single)
Shortest(f, bits) ==
  LET means == << Floats!Sign(f, bits), Floats!Magnitude(f, bits) >>
  IN  CASE Floats!IsNaN(f, bits) -> f = Floats!Half /\ bits = Floats!QuietNaN(f, 0)
        [] Floats!IsInfinite(f, bits) -> f = Floats!Half
        [] f = Floats!Single -> means \notin HalfValues
        [] f = Floats!Double -> means \notin SingleValues
        [] OTHER -> TRUE

SimpleAt(q) == MajorAt(q) = "simple" /\ Descriptor(buf[q]) <= Value8Bit
Obeys(q, rule) ==
  CASE rule = "shortest" ->
         Streamed(q) \/ HeadLength(q) = HeadSize(Argument(buf, q))
           \/ FloatAt(q)
    [] rule = "shortest_float" -> FloatAt(q) => Shortest(FormatAt(q), Argument(buf, q))
    [] rule = "finite" -> FloatAt(q) => Floats!IsFinite(FormatAt(q), Argument(buf, q))
    [] rule = "definite" -> ~Streamed(q)
    [] rule = "sorted" ->
         MajorAt(q) = "map" => \A i, j \in 1 .. Len(Keys(q)) :
           i < j => ~Precedes(Encoded(Keys(q)[j]), Encoded(Keys(q)[i]))
    [] rule = "unique" ->
         MajorAt(q) = "map" => \A i, j \in 1 .. Len(Keys(q)) :
           i # j => Encoded(Keys(q)[i]) # Encoded(Keys(q)[j])
    [] rule = "keys_string" ->
         MajorAt(q) = "map" => \A i \in 1 .. Len(Keys(q)) : MajorAt(TagsEnd[Keys(q)[i]]) = "text"
    [] rule = "undefined" -> ~(SimpleAt(q) /\ Argument(buf, q) = Undefined)
    [] rule = "simple_sa" ->
         SimpleAt(q) => Argument(buf, q) \in Assigned \/ Argument(buf, q) >= Descriptors
    [] rule = "simple" -> SimpleAt(q) => Argument(buf, q) \in Assigned
    [] rule = "no_tags" -> MajorAt(q) # "tag"
    [] rule = "tags_sa" -> MajorAt(q) = "tag" /\ Argument(buf, q) < TagTiers[1]
                             => Argument(buf, q) \in DOMAIN KnownTags
    [] rule = "tags_sr" -> MajorAt(q) = "tag" /\ Argument(buf, q) < TagTiers[2]
                             => Argument(buf, q) \in DOMAIN KnownTags
    [] rule = "tags" -> MajorAt(q) = "tag" => Argument(buf, q) \in DOMAIN KnownTags
    [] rule = "tag_use" ->
         MajorAt(q) = "tag" /\ Argument(buf, q) \in DOMAIN KnownTags =>
           KnownTags[Argument(buf, q)] \in {{}} \/ TypeAt(Parts(q)[1]) \in KnownTags[Argument(buf, q)]
    [] rule = "utf8" ->
         MajorAt(q) = "text" /\ ~Streamed(q) =>
           \A i \in q + HeadLength(q) .. ItemEnd(q, Unlimited) - 1 : buf[i] \notin NotUtf8
    [] rule = "complete" -> TRUE

(* The code sorts whenever any bit of MAP_IS_SORTED is set. *)
RulesAsked ==
  flags \cup (IF flags \cap MAP_IS_SORTED # {} THEN {"sorted"} ELSE {})

Valid ==
  /\ Whole /\ Depth(value.ptr) < MAX_RECURSIONS
  /\ \A q \in Within(value.ptr), rule \in RulesAsked : Obeys(q, rule)
  /\ "complete" \in flags => End.it.ptr = Limit

(* A call says "ok" exactly if the item is well-formed, is not nested too  *)
(* deep and every item in it obeys every rule asked for.  Three rules read *)
(* again or remember a place, which a source read through callbacks does   *)
(* not have: there, documents with a byte that reads as a head they look   *)
(* at are left out (findings: keys in order, texts behind the tags of a    *)
(* key, the heads of chunks).                                              *)
Holds(majors) == \E i \in DOMAIN buf : MajorOf(buf[i]) \in majors
LooksAround ==
  \/ flags \cap MAP_KEYS_ARE_UNIQUE # {} /\ Holds({"map"})
  \/ "keys_string" \in flags /\ Holds({"tag"})
  \/ flags \cap SHORTEST_INTEGRALS # {} /\ Holds(StringMajors)
Exact == phase = "done" => (answer = "ok" <=> Valid)
ValidExact == ~(reader /\ LooksAround) => Exact

(* The two kinds of source are the same to a client: docs/src/using/       *)
(* parsing.md of a reader, "The rest of the API is identical afterwards."  *)
(* Keys are unique or not whatever they are read from.                     *)
UniqueKeysOverCallbacks == reader /\ flags = MAP_KEYS_ARE_UNIQUE => Exact
=============================================================================
