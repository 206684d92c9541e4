------------------------------ MODULE Strings ------------------------------
(***************************************************************************)
(* String access of cbor-ffi/src/parser.rs: measuring, copying,            *)
(* duplicating and comparing a string, definite or chunked.  All are one   *)
(* walk, iterate_string_chunks, with a different thing done to each chunk. *)
(*                                                                         *)
(* The walk runs on a copy of the client's cursor.  A flat buffer is       *)
(* addressed by the cursor; a source read through callbacks keeps its own  *)
(* position, which every walk moves for all copies of the cursor.          *)
(***************************************************************************)
EXTENDS Cursor, Sequences

CONSTANTS
  Capacities,    \* sizes of the buffers a client may copy into
  Expected,      \* strings a client may compare with, without their NUL
  Room           \* bytes modelled at the buffer pointer

ASSUME StringsAssumption ==
  /\ Room \in Nat /\ Capacities \subseteq 0 .. Room
  /\ \A d \in Documents : Len(d) <= Room
  /\ \A s \in Expected : s \in Seq(Byte \ {0}) /\ Len(s) < Room

VARIABLES
  reader,     \* the source is read through callbacks
  position,   \* where the callbacks read next
  value,      \* the client's cursor, on a string or on tags before one
  call,       \* "none", "length", "copy", "equals", or dup's two passes
  step,       \* "idle", "tags", "chunks", "measured", "done"
  it,         \* the walk's cursor
  capacity,   \* buflen going in
  memory,     \* at the buffer pointer: bytes, or Untouched
  total,      \* bytes of string walked past
  all,        \* `result`: every chunk so far was processed
  answer,     \* what the call returns: the error, buflen and `result`
  next        \* the cursor handed back, or None

vars == << buf, reader, position, value, call, step, it, capacity, memory, total, all,
           answer, next >>
source == << buf, reader, value >>

Untouched == 256
None == << >>

(* A C string: the NUL is there but not counted in its length. *)
CString(s) == [i \in 1 .. Room |-> IF i <= Len(s) THEN s[i] ELSE 0]

(* The bytes a copy of the client's cursor reads: the callbacks know no    *)
(* other place than their own.                                             *)
Seen(c) == IF reader THEN [c EXCEPT !.ptr = position] ELSE c
Moved(c) == IF reader THEN c.ptr ELSE position

-----------------------------------------------------------------------------
(* Op::apply on `bytes` at offset `total`: CompareTo, CopyOut, Measure. *)
Matches(offset, bytes) ==
  \A i \in 1 .. Len(bytes) : memory[offset + i] = bytes[i]
Overwritten(offset, bytes) ==
  [i \in DOMAIN memory |->
     IF i > offset /\ i <= offset + Len(bytes) THEN bytes[i - offset] ELSE memory[i]]

Applied(bytes) == call = "equals" => Matches(total, bytes)
Stored(bytes) ==
  IF call \in {"copy", "dup_copy"} THEN Overwritten(total, bytes) ELSE memory

(* A chunk is processed if all before it were and it fits. *)
Processed_OldTotal(len) == all /\ capacity >= total
Processed_FitsOnly(len) == capacity >= total + len
Processed(len) == all /\ capacity >= total + len

(* The NUL goes only where there is room beyond the content. *)
NulFits_Never == FALSE
NulFits == all /\ capacity > total

-----------------------------------------------------------------------------
(* iterate_string_chunks begins on c. *)
Walk(c, room) ==
  /\ it' = BeginStringIteration(c) /\ position' = Moved(BeginStringIteration(c))
  /\ capacity' = room /\ total' = 0 /\ all' = TRUE
  /\ step' = "chunks"

Return(err, len, result) ==
  /\ answer' = [err |-> err, buflen |-> len, result |-> result]
  /\ step' = "done"

(* hand_back, and what the call makes of the walk's outcome: the first     *)
(* pass of dup goes on to allocate.                                        *)
WalkReturns(c, err, len, processed) ==
  /\ it' = c /\ position' = Moved(c)
  /\ next' = IF call \in {"copy", "dup", "dup_copy"} THEN << c >> ELSE next
  /\ IF err = "ok" /\ call = "dup" THEN step' = "measured" /\ UNCHANGED answer
     ELSE Return(IF err = "ok" /\ call # "equals" /\ ~processed THEN "oom" ELSE err,
                 len, processed)

Chunk ==
  /\ step = "chunks"
  /\ LET size == ChunkSize(it)
         chunk == GetChunk(it)
         bytes == SubSeq(buf, it.ptr + size.offset, it.ptr + size.offset + size.len - 1)
     IN  /\ chunk.err = "ok"
         /\ it' = chunk.it /\ position' = Moved(chunk.it)
         /\ IF Processed(size.len) THEN all' = Applied(bytes) /\ memory' = Stored(bytes)
            ELSE all' = FALSE /\ UNCHANGED memory
         /\ total' = total + size.len
  /\ UNCHANGED << source, call, step, capacity, answer, next >>

EndOfString ==
  /\ step = "chunks" /\ GetChunk(it).err = "no_more_chunks"
  /\ all' = (all /\ (NulFits => Applied(<< 0 >>)))
  /\ memory' = IF NulFits THEN Stored(<< 0 >>) ELSE memory
  /\ LET finished == FinishStringIteration(it)
     IN  WalkReturns(finished.it, finished.err, total, all')
  /\ UNCHANGED << source, call, capacity, total >>

(* An error leaves buflen as it was and hands the walk's cursor back. *)
BadChunk ==
  /\ step = "chunks"
  /\ LET chunk == GetChunk(it)
     IN  /\ chunk.err \notin {"ok", "no_more_chunks"}
         /\ WalkReturns(chunk.it, chunk.err, capacity, all)
  /\ UNCHANGED << source, call, capacity, memory, total, all >>

-----------------------------------------------------------------------------
(* The calls.  The capacity of a measurement is usize::MAX: here, as much  *)
(* as the document could hold.                                             *)
Unbounded == Len(buf)

CalculateLength ==
  /\ step = "idle" /\ IsString(value)
  /\ call' = "length" /\ Walk(Seen(value), Unbounded)
  /\ UNCHANGED << source, memory, answer, next >>

CopyString ==
  /\ step = "idle" /\ IsString(value)
  /\ call' = "copy" /\ \E room \in Capacities : Walk(Seen(value), room)
  /\ UNCHANGED << source, memory, answer, next >>

DupString ==
  /\ step = "idle" /\ IsString(value)
  /\ call' = "dup" /\ Walk(Seen(value), Unbounded)
  /\ UNCHANGED << source, memory, answer, next >>

(* One byte more, for the NUL, and the walk again from the copy kept of    *)
(* the client's cursor.                                                    *)
DupAllocates ==
  /\ step = "measured"
  /\ call' = "dup_copy" /\ Walk(Seen(value), total + 1)
  /\ UNCHANGED << source, memory, answer, next >>

DupCannotAllocate ==
  /\ step = "measured"
  /\ Return("oom", total + 1, FALSE)
  /\ UNCHANGED << source, position, call, it, capacity, memory, total, all, next >>

TextStringEquals ==
  /\ step = "idle"
  /\ call' = "equals" /\ step' = "tags" /\ it' = Seen(value)
  /\ \E s \in Expected : memory' = CString(s) /\ capacity' = Len(s)
  /\ UNCHANGED << source, position, total, all, answer, next >>

SkipTag ==
  /\ step = "tags" /\ it.type = "tag"
  /\ LET r == AdvanceInternal(it)
     IN  /\ it' = r.it /\ position' = Moved(r.it)
         /\ IF r.err = "ok" THEN UNCHANGED << step, answer >>
            ELSE Return(r.err, capacity, FALSE)
  /\ UNCHANGED << source, call, capacity, memory, total, all, next >>

CompareText ==
  /\ step = "tags" /\ it.type = "text"
  /\ Walk(it, capacity)
  /\ UNCHANGED << source, call, memory, answer, next >>

NotText ==
  /\ step = "tags" /\ it.type \notin {"tag", "text"}
  /\ Return("ok", capacity, FALSE)
  /\ UNCHANGED << source, position, call, it, capacity, memory, total, all, next >>

-----------------------------------------------------------------------------
(* The client stands on the first item of the document, or of the          *)
(* container the document is.                                              *)
FirstItem ==
  IF ParserInit.err = "ok" /\ IsContainer(ParserInit.it)
  THEN EnterContainer(ParserInit.it) ELSE ParserInit

Init ==
  /\ buf \in Documents /\ reader \in BOOLEAN
  /\ FirstItem.err = "ok" /\ FirstItem.it.type \in StringMajors \cup {"tag"}
  /\ value = FirstItem.it /\ it = value /\ position = value.ptr
  /\ call = "none" /\ step = "idle"
  /\ capacity = 0 /\ memory = [i \in 1 .. Room |-> Untouched]
  /\ total = 0 /\ all = TRUE
  /\ answer = [err |-> "none", buflen |-> 0, result |-> FALSE]
  /\ next = None

Next ==
  \/ CalculateLength \/ CopyString \/ DupString \/ TextStringEquals
  \/ Chunk \/ EndOfString \/ BadChunk
  \/ DupAllocates \/ DupCannotAllocate
  \/ SkipTag \/ CompareText \/ NotText

Spec == Init /\ [][Next]_vars

-----------------------------------------------------------------------------
(* A call is one walk from the client's cursor, but for the second pass of *)
(* dup over callbacks: that one starts where the first stopped.            *)
OneWalk == ~(reader /\ call = "dup_copy")

(* The walk's cursor never leaves the buffer, whatever stands where the    *)
(* string should have a chunk or a break.  Only dup's second pass, when    *)
(* the callbacks already are at the end, steps over one byte more.         *)
TypeOK ==
  /\ reader \in BOOLEAN
  /\ step \in {"idle", "tags", "chunks", "measured", "done"}
  /\ it.ptr \in 1 .. (IF OneWalk THEN Limit ELSE Limit + 1)
  /\ position = IF reader THEN it.ptr ELSE value.ptr
  /\ capacity \in Nat /\ total \in 0 .. Len(buf) /\ all \in BOOLEAN
  /\ memory \in [1 .. Room -> Byte \cup {Untouched}]

(* No call writes past the capacity it was given: not a chunk whose end    *)
(* does not fit, not the NUL of a string that fills the buffer exactly.    *)
WritesOwnedOnly ==
  call # "equals" => \A i \in 1 .. Room : i > capacity => memory[i] = Untouched

(* dup's second walk, over the same bytes as the first, succeeds: the      *)
(* comment at parser.rs:1336 says it cannot fail.                          *)
SecondWalkSucceeds == call = "dup_copy" /\ step = "done" => answer.err = "ok"
=============================================================================
