------------------------- MODULE ValidationContract -------------------------
(***************************************************************************)
(* What cbor_value_validate promises of any document whatever rules are    *)
(* asked for: Validation against the grammar, without the rules.           *)
(***************************************************************************)
EXTENDS Validation, Grammar

(* Over callbacks every cursor moves, so that a look past the tags of a    *)
(* key (skip_tag on a copy, validation.rs:342) loses the place.            *)
KeepsPlace == ~(reader /\ HasBit("keys_string"))

(* Where an advance over the client's item would leave the cursor.        *)
Kind == MajorOf(buf[TagsEnd[value.ptr]])
End == PreparseNext([value EXCEPT !.type = Kind, !.ptr = ItemEnd(@, Unlimited)])

Whole ==
  value.type # "invalid" /\ ItemEnd(value.ptr, Unlimited) # Malformed /\ End.err = "ok"

-----------------------------------------------------------------------------
(* The copy that is validated ends where an advance would have.            *)
EndsWhereAdvanceWould ==
  KeepsPlace /\ phase = "after" /\ Top.container = "none" =>
    Here.ptr = End.it.ptr /\ Here.remaining = End.it.remaining

(* An answer tells a broken encoding from a broken rule: "ok" is said only *)
(* of an item that is well-formed, within the limit of the recursion and,  *)
(* if the flag asks for it, at the end of the input; any error but those   *)
(* the rules have for their own, only of one that is not well-formed.      *)
(* Over callbacks the head of a string's chunk is read too late, after the *)
(* callbacks got past it (validation.rs:437), and an end of input may then *)
(* mean no more than that nothing follows the string.                      *)
RuleErrors ==
  {"nesting_too_deep", "unknown_length", "overlong_encoding", "excluded_type", "excluded_value",
   "improper_value", "unknown_simple_type", "unknown_tag", "inappropriate_tag_for_type",
   "invalid_utf8", "map_key_not_string", "map_not_sorted", "map_keys_not_unique"}

LateErrors ==
  IF reader /\ SomeBit(SHORTEST_INTEGRALS) THEN {"unexpected_eof"} ELSE {}

BlamesTruly ==
  KeepsPlace /\ phase = "done" =>
    /\ answer \in {"ok", "garbage_at_end"} =>
         /\ Whole /\ ItemEnd(value.ptr, MAX_RECURSIONS - 1) # Malformed
         /\ "complete" \in flags => (answer = "ok" <=> End.it.ptr = Limit)
    /\ answer \notin {"ok", "garbage_at_end"} \cup RuleErrors \cup LateErrors => ~Whole

(* Both: the walk of validate ends and answers as the grammar says.        *)
AgreesWithGrammar == EndsWhereAdvanceWould /\ BlamesTruly
=============================================================================
