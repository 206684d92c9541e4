------------------------------- MODULE Cursor -------------------------------
(***************************************************************************)
(* The CborValue of cbor-ffi/src/parser.rs: a cursor into the buffer with  *)
(* the decoded head of the item it stands on, the number of items left in  *)
(* its container and the phase of the map it is in.  Each operator is one  *)
(* of the parser's internal functions; it yields the error returned and    *)
(* the cursor left behind, which the code also writes when it fails.       *)
(*                                                                         *)
(* Positions are 1 .. Len(buf), the end is Limit.  `type` is the name of   *)
(* the major type or "invalid"; integers keep their sign in it and the     *)
(* simple values of major type 7 are one type.                             *)
(***************************************************************************)
EXTENDS CborHead, Sequences

CONSTANTS
  Documents,     \* the byte sequences a caller may hand to the parser
  U32Max,        \* u32::MAX, also the mark of an unknown number of items
  ExtraBytes     \* arguments of at most this many bytes are cached (2)

ASSUME CursorAssumption ==
  /\ Documents \subseteq Seq(Byte)
  /\ U32Max \in Nat /\ U32Max > 1 /\ U32Max % 2 = 1
  /\ ExtraBytes \in {1, 2, 4}

VARIABLE buf     \* the bytes being parsed

Limit == Len(buf) + 1

Result(err, it) == [err |-> err, it |-> it]

(* Saturating, as a cursor past the end can read nothing. *)
CanRead(it, n) == (IF it.ptr < Limit THEN Limit - it.ptr ELSE 0) >= n
Advanced(it, n) == [it EXCEPT !.ptr = @ + n]
HeadByte(it) == buf[it.ptr]
AtBreak(it) == CanRead(it, 1) /\ HeadByte(it) = BreakByte

IsContainer(it) == it.type \in ContainerMajors
IsString(it) == it.type \in StringMajors

-----------------------------------------------------------------------------
(* preparse_value: decode the head at the cursor.  Only the two map flags  *)
(* survive.                                                                *)
Blank_KeepsUnknown(it) ==
  [it EXCEPT !.type = "invalid", !.wide = 0, !.first = FALSE, !.iterating = FALSE]
Blank(it) ==
  [it EXCEPT !.type = "invalid", !.unknown = FALSE, !.wide = 0,
             !.first = FALSE, !.iterating = FALSE]

Decoded(it) ==
  LET d == Descriptor(HeadByte(it))
      need == BytesNeeded(d)
  IN  [Blank(it) EXCEPT
         !.type = MajorOf(HeadByte(it)),
         !.extra = IF need = 0 THEN d
                   ELSE IF need <= ExtraBytes THEN BeLoad(buf, it.ptr + 1, need) ELSE 0,
         !.wide = IF need <= ExtraBytes THEN 0 ELSE need]

IndefiniteHead(it, typed) ==
  CASE IsString(typed) \/ IsContainer(typed) -> Result("ok", [typed EXCEPT !.unknown = TRUE])
    [] typed.type = "simple" -> Result("unexpected_break", typed)
    [] OTHER -> Result("illegal_number", typed)

ReservedHead(typed) ==
  Result(IF typed.type = "simple" THEN "unknown_type" ELSE "illegal_number", typed)

(* A simple value that fits the descriptor may not be spelled in two bytes. *)
Overlong(it) ==
  /\ it.type = "simple" /\ Descriptor(HeadByte(it)) = Value8Bit
  /\ it.extra < Descriptors

PreparseValue(it) ==
  IF ~CanRead(it, 1) THEN Result("unexpected_eof", Blank(it))
  ELSE LET d == Descriptor(HeadByte(it))
           typed == [Blank(it) EXCEPT !.type = MajorOf(HeadByte(it)), !.extra = d]
       IN  CASE d = IndefiniteLength -> IndefiniteHead(it, typed)
             [] d > Value64Bit /\ d # IndefiniteLength -> ReservedHead(typed)
             [] OTHER ->
                  IF ~CanRead(it, BytesNeeded(d) + 1) THEN Result("unexpected_eof", typed)
                  ELSE IF Overlong(Decoded(it))
                  THEN Result("illegal_simple_type", [Decoded(it) EXCEPT !.type = "invalid"])
                  ELSE Result("ok", Decoded(it))

(* preparse_next_value_nodecrement: a break ends a container of unknown    *)
(* length, except between a key and its value or right after a tag.        *)
MidPair(it) == it.map /\ it.key
BreakForbidden_AnyPhase(it) == it.type = "tag"
BreakForbidden(it) == MidPair(it) \/ it.type = "tag"

PreparseNoDecrement(it) ==
  IF it.remaining = U32Max /\ AtBreak(it)
  THEN IF BreakForbidden(it) THEN Result("unexpected_break", it)
       ELSE Result("ok", [it EXCEPT !.type = "invalid", !.remaining = 0, !.unknown = TRUE])
  ELSE PreparseValue(it)

(* preparse_next_value: the item under the cursor is done.  A tag is not   *)
(* an item: it uses no slot and does not flip the phase of the map.        *)
CountsAsItem_TagsToo(it) == TRUE
CountsAsItem(it) == it.type # "tag"

PreparseNext(it) ==
  IF ~CountsAsItem(it) THEN PreparseNoDecrement(it)
  ELSE IF it.remaining = 1
  THEN Result("ok", [it EXCEPT !.type = "invalid", !.remaining = 0, !.unknown = FALSE])
  ELSE PreparseNoDecrement(
         [it EXCEPT !.remaining = IF @ = U32Max THEN @ ELSE @ - 1, !.key = ~@])

(* The argument of the current head: cached, or read again past the head.  *)
Int64(it) == IF it.wide # 0 THEN BeLoad(buf, it.ptr + 1, it.wide) ELSE it.extra
PastHead(it) == Advanced(it, BytesNeeded(Descriptor(HeadByte(it))) + 1)

AdvanceInternal(it) ==
  PreparseNext(IF IsString(it) THEN Advanced(PastHead(it), Int64(it)) ELSE PastHead(it))

-----------------------------------------------------------------------------
(* The cursor cbor_parser_init leaves: exactly one item at the top level. *)
Start ==
  [ptr |-> 1, remaining |-> 1, extra |-> 0, wide |-> 0, type |-> "invalid",
   unknown |-> FALSE, map |-> FALSE, key |-> FALSE, first |-> FALSE, iterating |-> FALSE]

ParserInit == PreparseValue(Start)

TooLarge(it) ==
  \/ Int64(it) >= U32Max
  \/ it.type = "map" /\ Int64(it) > U32Max \div 2

Inside(it) ==
  [it EXCEPT !.map = it.type = "map", !.key = FALSE, !.first = FALSE,
             !.iterating = FALSE, !.unknown = FALSE, !.wide = 0]

EnterContainer(it) ==
  IF it.unknown
  THEN PreparseNoDecrement([Inside(Advanced(it, 1)) EXCEPT !.remaining = U32Max])
  ELSE LET items == IF it.type = "map" THEN 2 * Int64(it) ELSE Int64(it)
       IN  IF TooLarge(it) THEN Result("data_too_large", [it EXCEPT !.remaining = Int64(it) % (U32Max + 1)])
           ELSE IF items = 0
           THEN Result("ok", [PastHead(it) EXCEPT !.remaining = 0, !.type = "invalid"])
           ELSE PreparseNoDecrement([Inside(PastHead(it)) EXCEPT !.remaining = items])

(* The parent resumes where the child stopped, past the break if the child *)
(* saw one.                                                                *)
ResumeAt_OnBreak(recursed) == recursed.ptr
ResumeAt(recursed) == IF recursed.unknown THEN recursed.ptr + 1 ELSE recursed.ptr
LeaveContainer(it, recursed) == PreparseNext([it EXCEPT !.ptr = ResumeAt(recursed)])

-----------------------------------------------------------------------------
(* A string is a run of chunks: its own payload, or the definite strings   *)
(* between an indefinite head and a break.                                 *)
BeginStringIteration(it) ==
  LET begun == [it EXCEPT !.iterating = TRUE, !.first = TRUE]
  IN  IF it.unknown THEN Advanced(begun, 1) ELSE begun

(* chunk_size reads the chunk head from the bytes: the cached argument     *)
(* belongs to the enclosing string.                                        *)
ChunkArgument(it) == Argument(buf, it.ptr)

ChunkSize_AnyMajor(it) ==
  LET fail(err) == [err |-> err, offset |-> 0, len |-> 0]
      d == Descriptor(HeadByte(it))
  IN  IF ~it.unknown /\ ~it.first THEN fail("no_more_chunks")
      ELSE IF ~CanRead(it, 1) THEN fail("unexpected_eof")
      ELSE IF AtBreak(it) THEN fail("no_more_chunks")
      ELSE IF d > Value64Bit THEN fail("illegal_number")
      ELSE IF ~CanRead(it, 1 + BytesNeeded(d)) THEN fail("unexpected_eof")
      ELSE [err |-> "ok", offset |-> 1 + BytesNeeded(d), len |-> ChunkArgument(it)]
ChunkSize(it) ==
  LET fail(err) == [err |-> err, offset |-> 0, len |-> 0]
      d == Descriptor(HeadByte(it))
  IN  IF ~it.unknown /\ ~it.first THEN fail("no_more_chunks")
      ELSE IF ~CanRead(it, 1) THEN fail("unexpected_eof")
      ELSE IF AtBreak(it) THEN fail("no_more_chunks")
      ELSE IF MajorOf(HeadByte(it)) # it.type THEN fail("illegal_type")
      ELSE IF d > Value64Bit THEN fail("illegal_number")
      ELSE IF ~CanRead(it, 1 + BytesNeeded(d)) THEN fail("unexpected_eof")
      ELSE [err |-> "ok", offset |-> 1 + BytesNeeded(d), len |-> ChunkArgument(it)]

(* transfer_string: past the chunk head, and past the bytes if they exist. *)
GetChunk_Unchecked(it) ==
  LET chunk == ChunkSize(it)
      past == Advanced(it, chunk.offset)
  IN  IF chunk.err # "ok" THEN Result(chunk.err, it)
      ELSE Result("ok", [Advanced(past, chunk.len) EXCEPT !.first = FALSE])
GetChunk_PayloadOnly(it) ==
  LET chunk == ChunkSize(it)
  IN  IF chunk.err # "ok" THEN Result(chunk.err, it)
      ELSE IF ~CanRead(it, chunk.offset + chunk.len) THEN Result("unexpected_eof", it)
      ELSE Result("ok", [Advanced(it, chunk.len) EXCEPT !.first = FALSE])
GetChunk(it) ==
  LET chunk == ChunkSize(it)
      past == Advanced(it, chunk.offset)
  IN  IF chunk.err # "ok" THEN Result(chunk.err, it)
      ELSE IF ~CanRead(past, chunk.len) THEN Result("unexpected_eof", past)
      ELSE Result("ok", [Advanced(past, chunk.len) EXCEPT !.first = FALSE])

FinishStringIteration_AlwaysPast(it) == PreparseNext(Advanced(it, 1))
FinishStringIteration_OnBreak(it) == PreparseNext(it)
FinishStringIteration(it) ==
  PreparseNext(IF it.unknown THEN Advanced(it, 1) ELSE it)
=============================================================================
