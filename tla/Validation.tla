----------------------------- MODULE Validation -----------------------------
(***************************************************************************)
(* cbor_value_validate of cbor-ffi/src/validation.rs: a walk over the item *)
(* under a copy of the client's cursor that also checks the rules whose    *)
(* flags are set.  The recursion of validate_value and validate_container  *)
(* is a stack of frames, one per open container above the client's item.   *)
(*                                                                         *)
(* The flag word is a set of bits.  Whether bytes are UTF-8 is data, hence *)
(* a parameter; floats are the bit patterns of HalfFloat.                  *)
(***************************************************************************)
EXTENDS Cursor

CONSTANTS
  MAX_RECURSIONS,      \* levels of containers and tags, plus one
  FlagSets,            \* flag words a client may pass
  Undefined, Assigned, \* the simple value undefined; it, null and the Booleans
  KnownTags,           \* the types allowed under each known tag, {} for any
  TagTiers,            \* the tags below << 24, 256 >> are the more reserved ones
  NotUtf8,             \* bytes that are part of no text
  HalfExponent, HalfMantissa, SingleExponent, SingleMantissa,
  DoubleExponent, DoubleMantissa   \* the floats' fields, see HalfFloat

ASSUME ValidationAssumption ==
  /\ MAX_RECURSIONS \in Nat \ {0}
  /\ Undefined \in Assigned /\ Assigned \subseteq 0 .. Value8Bit - 1
  /\ TagTiers \in Nat \X Nat /\ NotUtf8 \subseteq Byte
  /\ Value64Bit = Value8Bit + 3   \* the three floats have their descriptors

VARIABLES
  reader,     \* the source is read through callbacks
  flags,      \* the flag word of the call
  value,      \* the client's cursor
  frames,     \* the cursors of the recursion, see Frame
  left,       \* recursion_left of the current validate_value
  phase,      \* "item", "chunks", "after" an item, "loop" of a container, "done"
  answer      \* what the call returns

Floats == INSTANCE HalfFloat

vars == << buf, reader, flags, value, frames, left, phase, answer >>

SHORTEST_INTEGRALS == {"shortest"}
NO_INDETERMINATE_LENGTH == {"definite"}
MAP_IS_SORTED == {"sorted"} \cup NO_INDETERMINATE_LENGTH
MAP_KEYS_ARE_UNIQUE == {"unique"} \cup MAP_IS_SORTED
NO_UNKNOWN_SIMPLE_TYPES_SA == {"simple_sa"}
NO_UNKNOWN_SIMPLE_TYPES == {"simple"} \cup NO_UNKNOWN_SIMPLE_TYPES_SA
NO_UNKNOWN_TAGS_SA == {"tags_sa"}
NO_UNKNOWN_TAGS_SR == {"tags_sr"} \cup NO_UNKNOWN_TAGS_SA
NO_UNKNOWN_TAGS == {"tags"} \cup NO_UNKNOWN_TAGS_SR

SomeBit(composite) == flags \cap composite # {}
AllBits(composite) == composite \subseteq flags
HasBit(bit) == bit \in flags

-----------------------------------------------------------------------------
(* A frame: the cursor, the container it is in ("none" for the client's    *)
(* item), the recursion left for its items and, in a map, whether the item *)
(* is a key, where that key starts, and where the last key was.            *)
Frame(it, container, levels) ==
  [it |-> it, container |-> container, left |-> levels, onKey |-> container = "map",
   current |-> 0, previous |-> << >>]

Last(s) == s[Len(s)]
Front(s) == SubSeq(s, 1, Len(s) - 1)
Top == Last(frames)
Here == Top.it

(* Callbacks keep one position for all cursors. *)
AllAt(stack, ptr) ==
  IF reader THEN [k \in DOMAIN stack |-> [stack[k] EXCEPT !.it.ptr = ptr]] ELSE stack
Moved(it) == AllAt([frames EXCEPT ![Len(frames)].it = it], it.ptr)

(* `source`: the position in a buffer, but the token of a reader. *)
Source(it) == IF reader THEN 0 ELSE it.ptr

Fail(err) ==
  /\ phase' = "done" /\ answer' = err
  /\ UNCHANGED << frames, left >>
Validated(r) ==
  IF r.err # "ok" THEN Fail(r.err)
  ELSE phase' = "after" /\ frames' = Moved(r.it) /\ UNCHANGED << left, answer >>

-----------------------------------------------------------------------------
(* Each container and each tag takes one level. *)
TooDeep_OffByOne(levels) == levels < 0
TooDeep(levels) == levels = 0

(* validate_number: more bytes than the value needed?  It reads the head   *)
(* from the bytes, as in a string the cursor is on the head of a chunk.    *)
IsFloat(it) == it.type = "simple" /\ Descriptor(HeadByte(it)) > Value8Bit

Needed(n) ==
  CASE n < Value8Bit -> 0 [] n < ByteBase -> 1
    [] n < ByteBase * ByteBase -> 2 [] n < ByteBase * ByteBase * ByteBase * ByteBase -> 4
    [] OTHER -> 8

NumberVerdict(it) ==
  LET d == Descriptor(HeadByte(it))
  IN  IF ~SomeBit(SHORTEST_INTEGRALS) THEN "ok"
      ELSE IF ~CanRead(it, 1) THEN "unexpected_eof"
      ELSE IF IsFloat(it) THEN "ok"
      ELSE IF d > Value64Bit \/ ~CanRead(it, 1 + BytesNeeded(d)) THEN "unexpected_eof"
      ELSE IF Needed(Argument(buf, it.ptr)) < BytesNeeded(d) THEN "overlong_encoding"
      ELSE "ok"

(* What validate_value says of any item before it looks at its type. *)
HeadVerdict(it) ==
  IF ~it.unknown THEN NumberVerdict(it)
  ELSE IF SomeBit(NO_INDETERMINATE_LENGTH) THEN "unknown_length" ELSE "ok"

(* validate_floating_point: a float is shortest if the next narrower one   *)
(* would not say the same; what is not finite fits a half, and a NaN has   *)
(* one pattern there.                                                      *)
FloatFormat(it) ==
  << Floats!Half, Floats!Single, Floats!Double >>[Descriptor(HeadByte(it)) - Value8Bit]

Narrows(f, bits) ==
  CASE f = Floats!Half -> FALSE
    [] f = Floats!Single -> Floats!decode(Floats!encode(bits)) = bits
    [] f = Floats!Double ->
         Floats!Convert(Floats!Single, f, Floats!Convert(f, Floats!Single, bits)) = bits

FloatVerdict(it) ==
  LET f == FloatFormat(it)
      bits == Int64(it)
      special == ~Floats!IsFinite(f, bits)
      overlong == IF special THEN f # Floats!Half ELSE Narrows(f, bits)
      improper == Floats!IsNaN(f, bits) /\ bits # Floats!QuietNaN(Floats!Half, 0)
  IN  IF special /\ HasBit("finite") THEN "excluded_value"
      ELSE IF ~HasBit("shortest_float") THEN "ok"
      ELSE IF overlong THEN "overlong_encoding"
      ELSE IF improper THEN "improper_value" ELSE "ok"

(* validate_simple_type, with the types that are no "simple" any more. *)
SimpleVerdict(it) ==
  LET d == Descriptor(HeadByte(it))
  IN  CASE d = Undefined -> IF HasBit("undefined") THEN "excluded_type" ELSE "ok"
        [] IsFloat(it) -> FloatVerdict(it)
        [] d \in Assigned \ {Undefined} -> "ok"
        [] OTHER ->
             IF IF it.extra < Descriptors THEN SomeBit(NO_UNKNOWN_SIMPLE_TYPES_SA)
                ELSE AllBits(NO_UNKNOWN_SIMPLE_TYPES)
             THEN "unknown_simple_type" ELSE "ok"

(* validate_tag, on the tagged item: each tier of unknown tags contains    *)
(* the one before.                                                         *)
TagUnknown(tag) ==
  /\ tag \notin DOMAIN KnownTags
  /\ \/ SomeBit(NO_UNKNOWN_TAGS_SA) /\ tag < TagTiers[1]
     \/ AllBits(NO_UNKNOWN_TAGS_SR) /\ tag < TagTiers[2]
     \/ AllBits(NO_UNKNOWN_TAGS)

TypeName(it) == IF it.type \in {"uint", "negative"} THEN "integer" ELSE it.type
TagMisused(tag, it) ==
  /\ HasBit("tag_use") /\ tag \in DOMAIN KnownTags
  /\ KnownTags[tag] # {} /\ TypeName(it) \notin KnownTags[tag]

TagVerdict(tag, it, levels) ==
  IF TooDeep(levels) THEN "nesting_too_deep"
  ELSE IF HasBit("no_tags") THEN "excluded_type"
  ELSE IF TagUnknown(tag) THEN "unknown_tag"
  ELSE IF TagMisused(tag, it) THEN "inappropriate_tag_for_type" ELSE "ok"

-----------------------------------------------------------------------------
(* validate_value. *)
AtItem == phase = "item" /\ HeadVerdict(Here) = "ok"

RefuseHead ==
  /\ phase = "item" /\ HeadVerdict(Here) # "ok"
  /\ Fail(HeadVerdict(Here))

ValidateInvalid == AtItem /\ Here.type = "invalid" /\ Fail("unknown_type")

ValidateFixed ==
  /\ AtItem /\ Here.type \in {"uint", "negative", "simple"}
  /\ IF Here.type = "simple" /\ SimpleVerdict(Here) # "ok" THEN Fail(SimpleVerdict(Here))
     ELSE Validated(AdvanceInternal(Here))

ValidateTag ==
  /\ AtItem /\ Here.type = "tag"
  /\ LET r == AdvanceInternal(Here)
         verdict == TagVerdict(Int64(Here), r.it, left - 1)
     IN  IF r.err # "ok" THEN Fail(r.err)
         ELSE IF verdict # "ok" THEN Fail(verdict)
         ELSE /\ frames' = Moved(r.it) /\ left' = left - 1
              /\ UNCHANGED << phase, answer >>

ValidateContainer ==
  /\ AtItem /\ IsContainer(Here)
  /\ LET r == EnterContainer(Here)
     IN  IF r.err # "ok" THEN Fail(r.err)
         ELSE IF TooDeep(left - 1) THEN Fail("nesting_too_deep")
         ELSE /\ frames' = AllAt(Append(frames, Frame(r.it, Here.type, left - 1)), r.it.ptr)
              /\ phase' = "loop" /\ UNCHANGED << left, answer >>

ValidateString ==
  /\ AtItem /\ IsString(Here)
  /\ frames' = Moved(BeginStringIteration(Here))
  /\ phase' = "chunks" /\ UNCHANGED << left, answer >>

(* In a text no character may span two chunks.                             *)
ChunkIsText(it) ==
  LET size == ChunkSize(it)
      from == it.ptr + size.offset
  IN  \A i \in from .. from + size.len - 1 : buf[i] \notin NotUtf8

(* The chunk has been got past before it is judged.  The cursor is still   *)
(* on its head if it is a position in a buffer; callbacks have moved on,   *)
(* and whatever follows the chunk is judged for it.                        *)
Judged(it, next) == IF reader THEN [it EXCEPT !.ptr = next.ptr] ELSE it

ChunkVerdict(it, next) ==
  IF NumberVerdict(Judged(it, next)) # "ok" THEN NumberVerdict(Judged(it, next))
  ELSE IF it.type = "text" /\ HasBit("utf8") /\ ~ChunkIsText(it) THEN "invalid_utf8" ELSE "ok"

ValidateChunk ==
  /\ phase = "chunks"
  /\ LET chunk == GetChunk(Here)
     IN  CASE chunk.err = "no_more_chunks" -> Validated(FinishStringIteration(Here))
           [] chunk.err = "ok" ->
                IF ChunkVerdict(Here, chunk.it) # "ok" THEN Fail(ChunkVerdict(Here, chunk.it))
                ELSE frames' = Moved(chunk.it) /\ UNCHANGED << left, phase, answer >>
           [] OTHER -> Fail(chunk.err)

-----------------------------------------------------------------------------
(* validate_container: the loop over its items. *)
AtLoop == phase = "loop" /\ Here.type # "invalid"

(* skip_tag on a copy of the cursor. *)
Untagged(it) ==
  LET skip[n \in 0 .. Len(buf)] ==
        LET r == IF n = 0 THEN Result("ok", it) ELSE skip[n - 1]
        IN  IF r.err = "ok" /\ r.it.type = "tag" THEN AdvanceInternal(r.it) ELSE r
  IN  skip[Len(buf)]

KeyVerdict(r) ==
  IF r.err # "ok" THEN r.err
  ELSE IF r.it.type # "text" THEN "map_key_not_string" ELSE "ok"

NextItem ==
  /\ AtLoop
  /\ LET checked == Top.container = "map" /\ HasBit("keys_string")
         r == IF checked THEN Untagged(Here) ELSE Result("ok", Here)
         begun == [frames EXCEPT ![Len(frames)].current = Source(Here)]
     IN  IF checked /\ KeyVerdict(r) # "ok" THEN Fail(KeyVerdict(r))
         ELSE /\ frames' = AllAt(begun, r.it.ptr)
              /\ left' = Top.left /\ phase' = "item" /\ UNCHANGED answer

LeaveFrame ==
  /\ phase = "loop" /\ Here.type = "invalid"
  /\ LET outer == Front(frames)
         r == LeaveContainer(Last(outer).it, Here)
     IN  IF r.err # "ok" THEN Fail(r.err)
         ELSE /\ frames' = AllAt([outer EXCEPT ![Len(outer)].it = r.it], r.it.ptr)
              /\ phase' = "after" /\ UNCHANGED << left, answer >>

(* Encoded keys are compared over their common length, then by length. *)
Bytes(range) == SubSeq(buf, range[1], range[2] - 1)
Before_ShorterFirst(a, b) ==
  Len(a) < Len(b) \/ (Len(a) = Len(b) /\ \E i \in 1 .. Len(a) :
    a[i] < b[i] /\ \A j \in 1 .. i - 1 : a[j] = b[j])
Before(a, b) ==
  LET Alike(n) == \A i \in 1 .. n : i <= Len(a) /\ a[i] = b[i]
  IN  \E n \in 0 .. Len(b) - 1 :
        /\ Alike(n) /\ (n = Len(a) \/ (n < Len(a) /\ a[n + 1] < b[n + 1]))

OrderVerdict(previous, key) ==
  IF ~SomeBit(MAP_IS_SORTED) \/ previous = << >> THEN "ok"
  ELSE IF Before(Bytes(key), Bytes(previous)) THEN "map_not_sorted"
  ELSE IF Bytes(key) = Bytes(previous) /\ AllBits(MAP_KEYS_ARE_UNIQUE)
  THEN "map_keys_not_unique" ELSE "ok"

(* The key just validated, as a range of the buffer. *)
Key_Swapped == << Source(Here), Top.current >>
Key == << Top.current, Source(Here) >>

AfterKey ==
  /\ phase = "after" /\ Top.container = "map" /\ Top.onKey
  /\ LET verdict == OrderVerdict(Top.previous, Key)
     IN  IF verdict # "ok" THEN Fail(verdict)
         ELSE /\ frames' = [frames EXCEPT
                              ![Len(frames)].previous = IF SomeBit(MAP_IS_SORTED) THEN Key ELSE @,
                              ![Len(frames)].onKey = FALSE]
              /\ left' = Top.left /\ phase' = "item" /\ UNCHANGED answer

AfterValue ==
  /\ phase = "after" /\ Top.container # "none" /\ ~(Top.container = "map" /\ Top.onKey)
  /\ frames' = [frames EXCEPT ![Len(frames)].onKey = Top.container = "map"]
  /\ phase' = "loop" /\ UNCHANGED << left, answer >>

(* cbor_value_validate returns. *)
Answer ==
  /\ phase = "after" /\ Top.container = "none"
  /\ phase' = "done"
  /\ answer' = IF HasBit("complete") /\ CanRead(Here, 1) THEN "garbage_at_end" ELSE "ok"
  /\ UNCHANGED << frames, left >>

-----------------------------------------------------------------------------
(* The client stands on the document, or on the first item inside it.      *)
ClientCursors ==
  LET entered == EnterContainer(ParserInit.it)
  IN  IF ParserInit.err # "ok" THEN {}
      ELSE {ParserInit.it} \cup (IF IsContainer(ParserInit.it) /\ entered.err = "ok"
                                 THEN {entered.it} ELSE {})

Init ==
  /\ buf \in Documents /\ reader \in BOOLEAN /\ flags \in FlagSets
  /\ value \in ClientCursors /\ frames = << Frame(value, "none", MAX_RECURSIONS) >>
  /\ left = MAX_RECURSIONS /\ phase = "item" /\ answer = "none"

Next ==
  /\ \/ RefuseHead \/ ValidateInvalid \/ ValidateFixed \/ ValidateTag
     \/ ValidateContainer \/ ValidateString \/ ValidateChunk
     \/ NextItem \/ LeaveFrame \/ AfterKey \/ AfterValue \/ Answer
  /\ UNCHANGED << buf, reader, flags, value >>

Spec == Init /\ [][Next]_vars

-----------------------------------------------------------------------------
(* The walk stays in the buffer and within its recursion limit.            *)
TypeOK ==
  /\ phase \in {"item", "chunks", "after", "loop", "done"}
  /\ Len(frames) \in 1 .. MAX_RECURSIONS
  /\ left \in 1 .. MAX_RECURSIONS
  /\ \A k \in DOMAIN frames : frames[k].it.ptr \in 1 .. Limit /\ frames[k].left >= 1

(* The remembered key lies inside the buffer, before the current one: the  *)
(* ranges the comparison reads are keys the walk has been over.            *)
KeyRangesInside ==
  ~reader =>
    \A k \in DOMAIN frames :
      LET f == frames[k]
      IN  f.previous # << >> =>
            /\ 1 <= f.previous[1] /\ f.previous[1] < f.previous[2]
            /\ f.previous[2] <= f.it.ptr
            /\ f.onKey /\ k = Len(frames) /\ phase \in {"item", "after"} => f.previous[2] < f.current
=============================================================================
