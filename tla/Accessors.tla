----------------------------- MODULE Accessors -----------------------------
(***************************************************************************)
(* Calls of cbor-ffi/src/parser.rs made of many steps on one cursor, each  *)
(* as one operator: advancing over an item (Advance.tla has its steps),    *)
(* finding a key of a map, reading an integer that must fit the caller's   *)
(* type.                                                                   *)
(***************************************************************************)
EXTENDS Cursor, Binding

CONSTANTS
  MAX_RECURSIONS,
  Int64Limit, IntLimit     \* 2^63 and 2^31

ASSUME AccessorsAssumption ==
  MAX_RECURSIONS \in Nat /\ {Int64Limit, IntLimit} \subseteq Nat \ {0}

AdvanceFixed(it) ==
  IF it.remaining = 0 THEN Result("advance_past_eof", it) ELSE AdvanceInternal(it)

(* advance_recursive, through every chunk and every level. *)
RECURSIVE SkipChunks(_), SkipItem(_, _), SkipItems(_, _)
SkipChunks(it) ==
  With(GetChunk(it), LAMBDA chunk :
    CASE chunk.err = "ok" -> SkipChunks(chunk.it)
      [] chunk.err = "no_more_chunks" -> FinishStringIteration(it)
      [] OTHER -> chunk)
SkipItem(it, nesting) ==
  IF IsString(it) THEN SkipChunks(BeginStringIteration(it))
  ELSE IF ~IsContainer(it) THEN AdvanceInternal(it)
  ELSE IF nesting = 0 THEN Result("nesting_too_deep", it)
  ELSE With(EnterContainer(it), LAMBDA inside :
         IF inside.err # "ok" THEN Result(inside.err, it)
         ELSE With(SkipItems(inside.it, nesting - 1), LAMBDA through :
                IF through.err # "ok" THEN Result(through.err, it)
                ELSE LeaveContainer(it, through.it)))
SkipItems(it, nesting) ==
  IF it.type = "invalid" THEN Result("ok", it)
  ELSE With(SkipItem(it, nesting), LAMBDA r :
         IF r.err = "ok" THEN SkipItems(r.it, nesting) ELSE r)

AdvanceOver(it) ==
  IF it.remaining = 0 THEN Result("advance_past_eof", it) ELSE SkipItem(it, MAX_RECURSIONS)

RECURSIVE SkipTags(_)
SkipTags(it) ==
  IF it.type # "tag" THEN Result("ok", it)
  ELSE With(AdvanceFixed(it), LAMBDA r : IF r.err = "ok" THEN SkipTags(r.it) ELSE r)

-----------------------------------------------------------------------------
(* iterate_string_chunks comparing with a C string: each chunk with its    *)
(* place in the string, then, if there is more of the string, its NUL.     *)
SameSoFar(expected, total, chunk) ==
  total + Len(chunk) <= Len(expected)
    /\ SubSeq(expected, total + 1, total + Len(chunk)) = chunk
EndsToo_Unchecked(expected, total) == TRUE
EndsToo(expected, total) == total = Len(expected)

ChunkBytes(at, past) == SubSeq(buf, at.ptr + ChunkSize(at).offset, past.ptr - 1)
Compared(r, equals) == [err |-> r.err, it |-> r.it, equals |-> equals]

RECURSIVE CompareChunks(_, _, _, _)
CompareChunks(it, expected, total, same) ==
  With(GetChunk(it), LAMBDA chunk :
    CASE chunk.err = "ok" ->
           With(ChunkBytes(it, chunk.it), LAMBDA bytes :
             CompareChunks(chunk.it, expected, total + Len(bytes),
                           same /\ SameSoFar(expected, total, bytes)))
      [] chunk.err = "no_more_chunks" ->
           Compared(FinishStringIteration(it), same /\ EndsToo(expected, total))
      [] OTHER -> Compared(chunk, FALSE))

(* map_find_value: the tags before a key are not compared, a key that is   *)
(* no text is passed over, and so is the value of one that differs.        *)
Invalidated(r) == Result(r.err, [r.it EXCEPT !.type = "invalid"])
Valid(r, Step(_)) == With(r, LAMBDA x : IF x.err = "ok" THEN Step(x) ELSE Invalidated(x))
PastKey(it, expected) ==
  IF it.type = "text" THEN CompareChunks(BeginStringIteration(it), expected, 0, TRUE)
  ELSE Compared(AdvanceOver(it), FALSE)

RECURSIVE FindFrom(_, _)
FindFrom(element, expected) ==
  IF element.type = "invalid" THEN Result("ok", element)
  ELSE Valid(SkipTags(element), LAMBDA key :
         Valid(PastKey(key.it, expected), LAMBDA passed :
           IF passed.equals THEN PreparseValue(passed.it)
           ELSE Valid(SkipTags(passed.it), LAMBDA val :
                  Valid(AdvanceOver(val.it), LAMBDA behind : FindFrom(behind.it, expected)))))

MapFindValue(map, expected) ==
  Valid(EnterContainer(map), LAMBDA entered : FindFrom(entered.it, expected))

(* get_int64_checked and get_int_checked.  The value of a negative integer *)
(* is encoded as -1 - raw, so one bound serves both signs.                 *)
FitsInt64(raw) == raw < Int64Limit
FitsInt(v) == -IntLimit <= v /\ v < IntLimit
Int64Checked(it) ==
  LET raw == Int64(it)
  IN  IF ~FitsInt64(raw) THEN [err |-> "data_too_large", result |-> 0]
      ELSE [err |-> "ok", result |-> IF it.type = "negative" THEN -1 - raw ELSE raw]
IntChecked(it) ==
  LET wide == Int64Checked(it)
  IN  IF wide.err = "ok" /\ ~FitsInt(wide.result) THEN [err |-> "data_too_large", result |-> 0]
      ELSE wide
=============================================================================
