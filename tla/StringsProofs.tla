---------------------------- MODULE StringsProofs ----------------------------
(***************************************************************************)
(* Proofs about the access to strings for every document, every capacity   *)
(* and every expected string.                                              *)
(*                                                                         *)
(* That nothing is written beyond the capacity is not inductive: a chunk   *)
(* goes where the total says, so the total must be that of the walk and    *)
(* not run ahead of its cursor, and the passes that only measure must not  *)
(* have written when dup's second pass gets a smaller capacity.  That the  *)
(* cursor stays inside the buffer rests on what it stands on in each       *)
(* phase: a decoded head before the walk and a string's chunks in it.      *)
(*                                                                         *)
(* What the calls answer follows from what the walk has ahead: the same    *)
(* string, and the content it has not walked past yet, with `result` being *)
(* that of comparing or copying what is behind.                            *)
(***************************************************************************)
EXTENDS StringsContract, GrammarProofs

Bytes == Byte \cup {Untouched}

(* The client's cursor: on the head of a string or of a tag before one.    *)
ValueInv ==
  /\ buf \in Seq(Byte) /\ Len(buf) <= Room /\ reader \in BOOLEAN
  /\ value \in Cursors /\ HeadHere(value) /\ value.remaining # 0
  /\ IsString(value) \/ value.type = "tag"

(* What the walk's cursor stands on. *)
PlaceInv ==
  /\ it \in Cursors
  /\ it.ptr \in 1 .. (IF OneWalk THEN Limit ELSE Limit + 1)
  /\ position = IF reader THEN it.ptr ELSE value.ptr
  /\ step = "idle" => it = value
  /\ step = "tags" => call = "equals" /\ Standing(it)
  /\ step = "chunks" => IsString(it) /\ it.remaining # 0 /\ call # "none"
  /\ step = "chunks" => it.unknown \/ Within(it)
  /\ step = "measured" => call = "dup"
  /\ call = "dup_copy" => IsString(value)
  /\ call = "dup" => IsString(value)

(* What has been walked past, and written. *)
LedgerInv ==
  /\ step \in {"idle", "tags", "chunks", "measured", "done"}
  /\ call \in {"none", "length", "copy", "dup", "dup_copy", "equals"}
  /\ step = "idle" <=> call = "none"
  /\ capacity \in Nat /\ total \in Nat /\ all \in BOOLEAN
  /\ total < it.ptr /\ total <= Len(buf)
  /\ memory \in [1 .. Room -> Bytes]
  /\ call \notin {"copy", "dup_copy", "equals"} =>
       \A i \in 1 .. Room : memory[i] = Untouched
  /\ call # "equals" => \A i \in 1 .. Room : i > capacity => memory[i] = Untouched

StringsInv == ValueInv /\ PlaceInv /\ LedgerInv

-----------------------------------------------------------------------------
(* The source does not change under a call. *)
LEMMA SourceStep ==
  ASSUME StringsInv, UNCHANGED source
  PROVE  ValueInv' /\ Limit' = Limit /\ buf' = buf /\ reader' = reader /\ value' = value
  BY DEF StringsInv, ValueInv, HeadHere, HeadByte, Limit, IsString, IsContainer, source

LEMMA StandingStep ==
  ASSUME NEW c, Standing(c), buf' = buf, it' = c
  PROVE  Standing(it)'
  BY DEF Standing, Within, HeadHere, HeadByte, Limit, IsString, IsContainer

LEMMA ValueProperties ==
  ASSUME StringsInv
  PROVE  /\ buf \in Seq(Byte) /\ Len(buf) <= Room
         /\ Limit \in Nat \ {0} /\ Len(buf) \in Nat /\ Limit = Len(buf) + 1
         /\ value.ptr \in 1 .. Len(buf) /\ Standing(value)
         /\ it.ptr \in Nat \ {0} /\ it.ptr <= Limit + 1 /\ (OneWalk => it.ptr <= Limit)
         /\ position \in Nat
  <1>1. /\ buf \in Seq(Byte) /\ Len(buf) <= Room /\ HeadHere(value) /\ value \in Cursors
        /\ value.remaining # 0
    BY DEF StringsInv, ValueInv
  <1>2. Limit \in Nat \ {0} /\ Len(buf) \in Nat /\ Limit = Len(buf) + 1
    BY <1>1, BufferType
  <1>3. value.ptr \in 1 .. Len(buf) /\ Standing(value)
    BY <1>1, HeadProperties DEF HeadHere, Standing
  <1> QED
    BY <1>1, <1>2, <1>3 DEF StringsInv, PlaceInv

LEMMA SeenIs ==
  ASSUME NEW c \in Cursors, position \in Nat
  PROVE  /\ Seen(c) \in Cursors /\ Seen(c).type = c.type /\ Seen(c).remaining = c.remaining
         /\ Seen(c).unknown = c.unknown
         /\ Seen(c).ptr = IF reader THEN position ELSE c.ptr
         /\ position = c.ptr => Seen(c) = c
  BY DEF Seen, Cursors

(* Where a walk from c begins. *)
LEMMA WalkBegins ==
  ASSUME NEW c \in Cursors, NEW room, Walk(c, room)
  PROVE  /\ it' \in Cursors /\ it'.ptr = (IF c.unknown THEN c.ptr + 1 ELSE c.ptr)
         /\ it'.type = c.type /\ it'.remaining = c.remaining /\ it'.unknown = c.unknown
         /\ position' = IF reader THEN it'.ptr ELSE position
         /\ capacity' = room /\ total' = 0 /\ all' = TRUE /\ step' = "chunks"
  BY BeginProperties DEF Walk, Moved

(* A call that begins by measuring, copying or comparing. *)
LEMMA WalkStep ==
  ASSUME StringsInv, UNCHANGED source,
         NEW c \in Cursors, NEW room \in Nat, Walk(c, room),
         IsString(c), c.remaining # 0,
         c.ptr \in 1 .. Limit, c.ptr < Limit \/ (reader /\ call' = "dup_copy"),
         call' \in {"length", "copy", "dup", "dup_copy", "equals"},
         call' \in {"dup", "dup_copy"} => IsString(value),
         memory' \in [1 .. Room -> Bytes],
         call' # "equals" => \A i \in 1 .. Room : memory'[i] = Untouched
  PROVE  StringsInv'
  <1>1. ValueInv' /\ Limit' = Limit /\ buf' = buf /\ reader' = reader /\ value' = value
    BY SourceStep
  <1>2. /\ Limit \in Nat \ {0} /\ Len(buf) \in Nat /\ Limit = Len(buf) + 1
        /\ reader \in BOOLEAN
    BY ValueProperties DEF StringsInv, ValueInv
  <1>3. /\ it' \in Cursors /\ it'.ptr = (IF c.unknown THEN c.ptr + 1 ELSE c.ptr)
        /\ it'.type = c.type /\ it'.remaining = c.remaining /\ it'.unknown = c.unknown
        /\ position' = IF reader THEN it'.ptr ELSE position
        /\ capacity' = room /\ total' = 0 /\ all' = TRUE /\ step' = "chunks"
    BY WalkBegins
  <1>4. position = IF reader THEN it.ptr ELSE value.ptr
    BY DEF StringsInv, PlaceInv
  <1>5. it'.ptr \in 1 .. (IF OneWalk' THEN Limit ELSE Limit + 1)
    BY <1>1, <1>2, <1>3 DEF OneWalk
  <1>6. PlaceInv'
    BY <1>1, <1>2, <1>3, <1>4, <1>5 DEF PlaceInv, IsString, Within
  <1>7. LedgerInv'
    BY <1>1, <1>2, <1>3, <1>5 DEF LedgerInv, OneWalk
  <1> QED
    BY <1>1, <1>6, <1>7 DEF StringsInv

-----------------------------------------------------------------------------
(* One lemma per kind of step. *)
LEMMA CallStep ==
  ASSUME StringsInv, CalculateLength \/ CopyString \/ DupString PROVE StringsInv'
  <1>1. /\ step = "idle" /\ IsString(value) /\ UNCHANGED source /\ UNCHANGED memory
        /\ call' \in {"length", "copy", "dup"}
        /\ \E room \in Capacities \cup {Unbounded} : Walk(Seen(value), room)
    BY DEF CalculateLength, CopyString, DupString
  <1>2. PICK room \in Capacities \cup {Unbounded} : Walk(Seen(value), room)
    BY <1>1
  <1>3. room \in Nat
    BY StringsAssumption, ValueProperties DEF Unbounded
  <1>4. position = value.ptr /\ value \in Cursors /\ value.remaining # 0
    BY <1>1 DEF StringsInv, PlaceInv, ValueInv
  <1>5. Seen(value) = value
    BY <1>4, ValueProperties, SeenIs
  <1>6. value.ptr \in 1 .. Limit /\ value.ptr < Limit
    BY ValueProperties
  <1>7. /\ memory' \in [1 .. Room -> Bytes]
        /\ \A i \in 1 .. Room : memory'[i] = Untouched
    BY <1>1 DEF StringsInv, LedgerInv
  <1> QED
    BY <1>1, <1>2, <1>3, <1>4, <1>5, <1>6, <1>7, WalkStep

LEMMA DupAllocatesStep ==
  ASSUME StringsInv, DupAllocates PROVE StringsInv'
  <1>1. /\ step = "measured" /\ UNCHANGED source /\ UNCHANGED memory
        /\ call' = "dup_copy" /\ Walk(Seen(value), total + 1)
    BY DEF DupAllocates
  <1>2. call = "dup" /\ IsString(value) /\ value \in Cursors /\ value.remaining # 0
    BY <1>1 DEF StringsInv, PlaceInv, ValueInv
  <1>3. /\ Seen(value) \in Cursors /\ IsString(Seen(value)) /\ Seen(value).remaining # 0
        /\ Seen(value).ptr = IF reader THEN position ELSE value.ptr
    BY <1>2, ValueProperties, SeenIs DEF IsString
  <1>4. OneWalk /\ position = IF reader THEN it.ptr ELSE value.ptr
    BY <1>2 DEF OneWalk, StringsInv, PlaceInv
  <1>5. Seen(value).ptr \in 1 .. Limit /\ (~reader => Seen(value).ptr < Limit)
    BY <1>3, <1>4, ValueProperties
  <1>6. /\ memory' \in [1 .. Room -> Bytes] /\ total + 1 \in Nat
        /\ \A i \in 1 .. Room : memory'[i] = Untouched
    BY <1>1, <1>2 DEF StringsInv, LedgerInv
  <1> QED
    BY <1>1, <1>2, <1>3, <1>5, <1>6, WalkStep

LEMMA DupFailsStep ==
  ASSUME StringsInv, DupCannotAllocate PROVE StringsInv'
  <1>1. /\ step = "measured" /\ step' = "done" /\ UNCHANGED source
        /\ UNCHANGED << position, call, it, capacity, memory, total, all >>
    BY DEF DupCannotAllocate, Return
  <1>2. ValueInv' /\ Limit' = Limit /\ buf' = buf /\ reader' = reader /\ value' = value
    BY <1>1, SourceStep
  <1>3. PlaceInv' /\ LedgerInv'
    BY <1>1, <1>2 DEF StringsInv, PlaceInv, LedgerInv, OneWalk
  <1> QED
    BY <1>2, <1>3 DEF StringsInv

LEMMA CStringType ==
  ASSUME NEW s \in Expected
  PROVE  CString(s) \in [1 .. Room -> Bytes] /\ Len(s) \in Nat
  <1>1. s \in Seq(Byte \ {0}) /\ Len(s) \in Nat
    BY StringsAssumption, LenProperties
  <1>2. \A i \in 1 .. Len(s) : s[i] \in Byte
    BY <1>1, ElementOfSeq
  <1>3. 0 \in Byte
    BY ByteBaseType, DescriptorsAssumption DEF Byte, ByteBase
  <1>4. \A i \in 1 .. Room : (IF i <= Len(s) THEN s[i] ELSE 0) \in Bytes
    BY <1>1, <1>2, <1>3, StringsAssumption DEF Bytes
  <1> QED
    BY <1>1, <1>4 DEF CString

LEMMA EqualsStep ==
  ASSUME StringsInv, TextStringEquals PROVE StringsInv'
  <1>1. PICK s \in Expected : memory' = CString(s) /\ capacity' = Len(s)
    BY DEF TextStringEquals
  <1>2. /\ step = "idle" /\ call' = "equals" /\ step' = "tags" /\ it' = Seen(value)
        /\ UNCHANGED source /\ UNCHANGED << position, total, all >>
    BY DEF TextStringEquals
  <1>3. ValueInv' /\ Limit' = Limit /\ buf' = buf /\ reader' = reader /\ value' = value
    BY <1>2, SourceStep
  <1>4. it = value /\ position = value.ptr
    BY <1>2 DEF StringsInv, PlaceInv
  <1>5. it' = value /\ Standing(value) /\ value \in Cursors
    BY <1>2, <1>4, SeenIs, ValueProperties DEF StringsInv, ValueInv
  <1>6. Standing(it)'
    BY <1>3, <1>5, StandingStep
  <1>7. PlaceInv'
    BY <1>2, <1>3, <1>4, <1>5, <1>6, ValueProperties DEF PlaceInv, OneWalk
  <1>8. LedgerInv'
    BY <1>1, <1>2, <1>3, <1>4, <1>5, CStringType DEF StringsInv, LedgerInv
  <1> QED
    BY <1>3, <1>7, <1>8 DEF StringsInv

LEMMA SkipTagStep ==
  ASSUME StringsInv, SkipTag PROVE StringsInv'
  <1> DEFINE r == AdvanceInternal(it)
  <1>1. /\ step = "tags" /\ it.type = "tag" /\ it' = r.it /\ position' = Moved(r.it)
        /\ UNCHANGED source /\ UNCHANGED << call, capacity, memory, total, all >>
        /\ IF r.err = "ok" THEN step' = step ELSE step' = "done"
    BY DEF SkipTag, Return
  <1>2. ValueInv' /\ Limit' = Limit /\ buf' = buf /\ reader' = reader /\ value' = value
    BY <1>1, SourceStep
  <1>3. /\ call = "equals" /\ it \in Cursors /\ HeadHere(it) /\ it.remaining # 0
        /\ buf \in Seq(Byte)
    BY <1>1 DEF StringsInv, PlaceInv, ValueInv, Standing
  <1>4. ~IsString(it) /\ ~IsContainer(it)
    BY <1>1 DEF IsString, IsContainer, StringMajors, ContainerMajors
  <1>5. /\ r.it \in Cursors /\ Within(r.it) /\ r.it.ptr > it.ptr
        /\ r.err = "ok" => Standing(r.it)
    BY <1>3, <1>4, AdvanceInternalProperties
  <1> HIDE DEF r
  <1>6. step' = "tags" => Standing(it)'
    BY <1>1, <1>2, <1>5, StandingStep
  <1>7. PlaceInv'
    BY <1>1, <1>2, <1>3, <1>5, <1>6 DEF PlaceInv, StringsInv, OneWalk, Within, Moved
  <1>8. LedgerInv'
    BY <1>1, <1>2, <1>3, <1>5, ValueProperties DEF StringsInv, LedgerInv, Within
  <1> QED
    BY <1>2, <1>7, <1>8 DEF StringsInv

LEMMA CompareStep ==
  ASSUME StringsInv, CompareText PROVE StringsInv'
  <1>1. /\ step = "tags" /\ it.type = "text" /\ Walk(it, capacity)
        /\ UNCHANGED source /\ UNCHANGED << call, memory >>
    BY DEF CompareText
  <1>2. /\ call = "equals" /\ it \in Cursors /\ HeadHere(it) /\ it.remaining # 0
        /\ capacity \in Nat /\ memory \in [1 .. Room -> Bytes]
    BY <1>1 DEF StringsInv, PlaceInv, LedgerInv, Standing
  <1>3. IsString(it) /\ it.ptr \in 1 .. Limit /\ it.ptr < Limit
    BY <1>1, <1>2, ValueProperties, BufferType DEF IsString, StringMajors, HeadHere
  <1> QED
    BY <1>1, <1>2, <1>3, WalkStep

LEMMA NotTextStep ==
  ASSUME StringsInv, NotText PROVE StringsInv'
  <1>1. /\ step = "tags" /\ step' = "done" /\ UNCHANGED source
        /\ UNCHANGED << position, call, it, capacity, memory, total, all >>
    BY DEF NotText, Return
  <1>2. ValueInv' /\ Limit' = Limit /\ buf' = buf /\ reader' = reader /\ value' = value
    BY <1>1, SourceStep
  <1>3. PlaceInv' /\ LedgerInv'
    BY <1>1, <1>2 DEF StringsInv, PlaceInv, LedgerInv, OneWalk
  <1> QED
    BY <1>2, <1>3 DEF StringsInv

-----------------------------------------------------------------------------
(* Op::apply writes inside its slice, if it writes at all. *)
LEMMA StoredProperties ==
  ASSUME memory \in [1 .. Room -> Bytes], total \in Nat, NEW bytes \in Seq(Bytes)
  PROVE  /\ Stored(bytes) \in [1 .. Room -> Bytes]
         /\ \A i \in 1 .. Room : i > total + Len(bytes) => Stored(bytes)[i] = memory[i]
         /\ call \notin {"copy", "dup_copy"} => Stored(bytes) = memory
  <1> DEFINE n == Len(bytes)
  <1>1. n \in Nat /\ Room \in Nat
    BY LenProperties, StringsAssumption
  <1>2. ASSUME NEW i \in 1 .. Room, i > total, i <= total + n PROVE bytes[i - total] \in Bytes
    <2>1. i - total \in 1 .. n
      BY <1>1, <1>2
    <2> QED
      BY <2>1, ElementOfSeq
  <1>3. /\ Overwritten(total, bytes) \in [1 .. Room -> Bytes]
        /\ \A i \in 1 .. Room : i > total + n => Overwritten(total, bytes)[i] = memory[i]
    BY <1>1, <1>2 DEF Overwritten
  <1> QED
    BY <1>3 DEF Stored

(* Beyond the capacity nothing changes when what is written fits. *)
LEMMA StoredFits ==
  ASSUME StringsInv, NEW bytes \in Seq(Bytes), capacity >= total + Len(bytes)
  PROVE  /\ Stored(bytes) \in [1 .. Room -> Bytes]
         /\ call \notin {"copy", "dup_copy"} => Stored(bytes) = memory
         /\ call # "equals" =>
              \A i \in 1 .. Room : i > capacity => Stored(bytes)[i] = Untouched
  <1>1. memory \in [1 .. Room -> Bytes] /\ total \in Nat /\ capacity \in Nat
    BY DEF StringsInv, LedgerInv
  <1>2. Len(bytes) \in Nat /\ Room \in Nat
    BY LenProperties, StringsAssumption
  <1>3. \A i \in 1 .. Room : i > capacity => i > total + Len(bytes)
    BY <1>1, <1>2
  <1> QED
    BY <1>1, <1>3, StoredProperties DEF StringsInv, LedgerInv

LEMMA ChunkStep ==
  ASSUME StringsInv, Chunk PROVE StringsInv'
  <1> DEFINE size == ChunkSize(it)
             chunk == GetChunk(it)
             from == it.ptr + size.offset
             bytes == SubSeq(buf, from, from + size.len - 1)
  <1>1. /\ step = "chunks" /\ chunk.err = "ok"
        /\ it' = chunk.it /\ position' = Moved(chunk.it)
        /\ IF Processed(size.len) THEN all' = Applied(bytes) /\ memory' = Stored(bytes)
           ELSE all' = FALSE /\ UNCHANGED memory
        /\ total' = total + size.len
        /\ UNCHANGED source /\ UNCHANGED << call, step, capacity >>
    BY DEF Chunk
  <1>2. ValueInv' /\ Limit' = Limit /\ buf' = buf /\ reader' = reader /\ value' = value
    BY <1>1, SourceStep
  <1>3. /\ buf \in Seq(Byte) /\ it \in Cursors /\ it.ptr # 0 /\ it.ptr \in Nat
        /\ IsString(it) /\ it.remaining # 0 /\ call # "none"
        /\ total \in Nat /\ total < it.ptr /\ total <= Len(buf)
    BY <1>1, ValueProperties DEF StringsInv, PlaceInv, LedgerInv
  <1>4. /\ chunk.it \in Cursors /\ chunk.it.type = it.type
        /\ chunk.it.remaining = it.remaining /\ Within(chunk.it)
        /\ chunk.it.ptr = it.ptr + size.offset + size.len
        /\ size.err = "ok"
    BY <1>1, <1>3, ChunkProperties
  <1>5. size.offset \in Nat \ {0} /\ size.len \in Nat
    BY <1>3, <1>4, ChunkSizeProperties
  <1> HIDE DEF size, chunk
  <1>6. bytes \in Seq(Bytes) /\ Len(bytes) = size.len
    <2>1. Limit = Len(buf) + 1 /\ Len(buf) \in Nat /\ \A i \in 1 .. Len(buf) : buf[i] \in Byte
      BY <1>3, BufferType
    <2>2. from \in Nat \ {0} /\ from + size.len <= Limit
      BY <1>3, <1>4, <1>5, <2>1 DEF Within
    <2> HIDE DEF from
    <2>3. \A i \in from .. from + size.len - 1 : buf[i] \in Bytes
      BY <1>5, <2>1, <2>2 DEF Bytes
    <2> QED
      BY <1>5, <2>2, <2>3, SubSeqProperties
  <1> HIDE DEF bytes
  <1>7. /\ all' \in BOOLEAN /\ memory' \in [1 .. Room -> Bytes]
        /\ call \notin {"copy", "dup_copy", "equals"} =>
             \A i \in 1 .. Room : memory'[i] = Untouched
        /\ call # "equals" => \A i \in 1 .. Room : i > capacity => memory'[i] = Untouched
    <2>1. CASE Processed(size.len)
      <3>1. capacity >= total + Len(bytes)
        BY <1>6, <2>1 DEF Processed
      <3>2. all' \in BOOLEAN
        BY <1>1, <2>1 DEF Applied, Matches
      <3>3. memory' = Stored(bytes)
        BY <1>1, <2>1
      <3> QED
        BY <1>6, <3>1, <3>2, <3>3, StoredFits DEF StringsInv, LedgerInv
    <2>2. CASE ~Processed(size.len)
      BY <1>1, <2>2 DEF StringsInv, LedgerInv
    <2> QED
      BY <2>1, <2>2
  <1>8. PlaceInv'
    BY <1>1, <1>2, <1>3, <1>4, ValueProperties
       DEF PlaceInv, StringsInv, OneWalk, Within, Moved, IsString
  <1>9. total' \in Nat /\ total' < it'.ptr /\ total' <= Len(buf)
    <2>1. it'.ptr \in 1 .. Limit /\ it'.ptr = it.ptr + size.offset + size.len
      BY <1>1, <1>4 DEF Within
    <2>2. Limit = Len(buf) + 1 /\ Len(buf) \in Nat
      BY <1>3, BufferType
    <2>3. total' = total + size.len
      BY <1>1
    <2> QED
      BY <1>3, <1>5, <2>1, <2>2, <2>3
  <1>10. LedgerInv'
    BY <1>1, <1>2, <1>7, <1>9 DEF StringsInv, LedgerInv
  <1> QED
    BY <1>2, <1>8, <1>10 DEF StringsInv

(* hand_back: the walk ends on c. *)
LEMMA ReturnStep ==
  ASSUME StringsInv, UNCHANGED source, UNCHANGED << call, capacity, total >>,
         step = "chunks", NEW err, NEW len, NEW processed,
         NEW c \in Cursors, c.ptr \in Nat, c.ptr >= it.ptr, c.ptr <= Limit \/ c = it,
         WalkReturns(c, err, len, processed),
         all' \in BOOLEAN, memory' \in [1 .. Room -> Bytes],
         call \notin {"copy", "dup_copy", "equals"} =>
           \A i \in 1 .. Room : memory'[i] = Untouched,
         call # "equals" => \A i \in 1 .. Room : i > capacity => memory'[i] = Untouched
  PROVE  StringsInv'
  <1>1. ValueInv' /\ Limit' = Limit /\ buf' = buf /\ reader' = reader /\ value' = value
    BY SourceStep
  <1>2. /\ it' = c /\ position' = Moved(c)
        /\ step' = "done" \/ (step' = "measured" /\ call = "dup")
    BY DEF WalkReturns, Return
  <1>3. c.ptr \in 1 .. (IF OneWalk THEN Limit ELSE Limit + 1)
    BY ValueProperties DEF StringsInv, PlaceInv
  <1>4. call # "none" /\ step # "idle"
    BY DEF StringsInv, PlaceInv
  <1>5. PlaceInv'
    BY <1>1, <1>2, <1>3, <1>4 DEF PlaceInv, StringsInv, OneWalk, Moved
  <1>6. total < c.ptr
    BY ValueProperties DEF StringsInv, LedgerInv
  <1>7. LedgerInv'
    BY <1>1, <1>2, <1>4, <1>6 DEF StringsInv, LedgerInv
  <1> QED
    BY <1>1, <1>5, <1>7 DEF StringsInv

LEMMA BadChunkStep ==
  ASSUME StringsInv, BadChunk PROVE StringsInv'
  <1> DEFINE chunk == GetChunk(it)
  <1>1. /\ step = "chunks" /\ WalkReturns(chunk.it, chunk.err, capacity, all)
        /\ UNCHANGED source /\ UNCHANGED << call, capacity, memory, total, all >>
    BY DEF BadChunk
  <1>2. buf \in Seq(Byte) /\ it \in Cursors /\ it.ptr # 0 /\ it.ptr \in Nat
    BY ValueProperties DEF StringsInv, PlaceInv
  <1>3. chunk.it \in Cursors /\ (chunk.it = it \/ Within(chunk.it))
    BY <1>2, ChunkProperties
  <1>4. chunk.it = it \/ chunk.it.ptr >= it.ptr
    <2> DEFINE size == ChunkSize(it)
               past == Advanced(it, size.offset)
    <2>1. CASE size.err # "ok"
      BY <2>1 DEF GetChunk, Result
    <2>2. CASE size.err = "ok"
      <3>1. size.offset \in Nat /\ size.len \in Nat
        BY <1>2, <2>2, ChunkSizeProperties
      <3> HIDE DEF size
      <3>2. past \in Cursors /\ past.ptr = it.ptr + size.offset
        BY <1>2, <3>1, AdvancedIs
      <3> HIDE DEF past
      <3>3. Advanced(past, size.len) \in Cursors
            /\ Advanced(past, size.len).ptr = past.ptr + size.len
        BY <3>1, <3>2, AdvancedIs
      <3>4. [Advanced(past, size.len) EXCEPT !.first = FALSE].ptr = past.ptr + size.len
        BY <3>3 DEF Cursors
      <3>5. chunk.it \in {past, [Advanced(past, size.len) EXCEPT !.first = FALSE]}
        BY <2>2 DEF GetChunk, Result, size, past
      <3>6. past.ptr >= it.ptr /\ past.ptr + size.len >= it.ptr
        <4> DEFINE o == size.offset
                   n == size.len
        <4>1. o \in Nat /\ n \in Nat /\ it.ptr \in Nat /\ past.ptr = it.ptr + o
          BY <1>2, <3>1, <3>2
        <4> HIDE DEF o
        <4>2. past.ptr >= it.ptr /\ past.ptr \in Nat
          BY <4>1
        <4> HIDE DEF n
        <4>3. past.ptr + n >= it.ptr
          BY <4>1, <4>2
        <4> QED
          BY <4>2, <4>3 DEF n
      <3> HIDE DEF chunk
      <3> QED
        BY <3>4, <3>5, <3>6
    <2> QED
      BY <2>1, <2>2
  <1> HIDE DEF chunk
  <1>5. chunk.it.ptr \in Nat /\ chunk.it.ptr >= it.ptr /\ (chunk.it.ptr <= Limit \/ chunk.it = it)
    BY <1>2, <1>3, <1>4, ValueProperties DEF Within, Cursors
  <1>6. /\ all' \in BOOLEAN /\ memory' \in [1 .. Room -> Bytes]
        /\ call \notin {"copy", "dup_copy", "equals"} =>
             \A i \in 1 .. Room : memory'[i] = Untouched
        /\ call # "equals" => \A i \in 1 .. Room : i > capacity => memory'[i] = Untouched
    BY <1>1 DEF StringsInv, LedgerInv
  <1> QED
    BY <1>1, <1>3, <1>5, <1>6, ReturnStep

(* The chunks are over: the NUL, and the break if there has to be one. *)
LEMMA EndOfStringStep ==
  ASSUME StringsInv, EndOfString PROVE StringsInv'
  <1> DEFINE finished == FinishStringIteration(it)
  <1>1. /\ step = "chunks" /\ GetChunk(it).err = "no_more_chunks"
        /\ all' = (all /\ (NulFits => Applied(<< 0 >>)))
        /\ memory' = IF NulFits THEN Stored(<< 0 >>) ELSE memory
        /\ WalkReturns(finished.it, finished.err, total, all')
        /\ UNCHANGED source /\ UNCHANGED << call, capacity, total >>
    BY DEF EndOfString
  <1>2. /\ buf \in Seq(Byte) /\ it \in Cursors /\ it.ptr # 0 /\ it.ptr \in Nat
        /\ it.remaining # 0 /\ (it.unknown \/ Within(it))
        /\ Limit \in Nat /\ capacity \in Nat /\ total \in Nat
    BY <1>1, ValueProperties DEF StringsInv, PlaceInv, LedgerInv
  <1>3. AtBreak(it) \/ (~it.unknown /\ ~it.first)
    BY <1>1, <1>2, ChunkProperties
  <1>4. Within(it) /\ (it.unknown => AtBreak(it))
    BY <1>2, <1>3, CanReadIs DEF AtBreak, Within
  <1>5. /\ finished.it \in Cursors /\ Within(finished.it)
        /\ finished.it.ptr = IF it.unknown THEN it.ptr + 1 ELSE it.ptr
    BY <1>2, <1>4, FinishProperties
  <1> HIDE DEF finished
  <1>6. /\ finished.it.ptr \in Nat /\ finished.it.ptr >= it.ptr
        /\ finished.it.ptr <= Limit
    BY <1>2, <1>5 DEF Within
  <1>7. /\ memory' \in [1 .. Room -> Bytes]
        /\ call \notin {"copy", "dup_copy", "equals"} =>
             \A i \in 1 .. Room : memory'[i] = Untouched
        /\ call # "equals" => \A i \in 1 .. Room : i > capacity => memory'[i] = Untouched
    <2>1. CASE NulFits
      <3>1. << 0 >> \in Seq(Bytes) /\ Len(<< 0 >>) = 1
        BY ByteBaseType, DescriptorsAssumption DEF Bytes, Byte, ByteBase
      <3>2. capacity >= total + Len(<< 0 >>)
        BY <1>2, <2>1, <3>1 DEF NulFits
      <3>3. memory' = Stored(<< 0 >>)
        BY <1>1, <2>1
      <3> QED
        BY <3>1, <3>2, <3>3, StoredFits DEF StringsInv, LedgerInv
    <2>2. CASE ~NulFits
      BY <1>1, <2>2 DEF StringsInv, LedgerInv
    <2> QED
      BY <2>1, <2>2
  <1>8. all' \in BOOLEAN
    BY <1>1
  <1> QED
    BY <1>1, <1>5, <1>6, <1>7, <1>8, ReturnStep

-----------------------------------------------------------------------------
(* The client stands on the first item, or inside the document's container. *)
LEMMA FirstItemProperties ==
  ASSUME buf \in Seq(Byte), FirstItem.err = "ok"
  PROVE  Standing(FirstItem.it)
  <1>1. /\ ParserInit.it \in Cursors /\ ParserInit.it.remaining = 1
        /\ ParserInit.err = "ok" => Standing(ParserInit.it)
    BY ParserInitProperties
  <1>2. CASE ParserInit.err = "ok" /\ IsContainer(ParserInit.it)
    <2>1. FirstItem = EnterContainer(ParserInit.it)
      BY <1>2 DEF FirstItem
    <2>2. HeadHere(ParserInit.it)
      BY <1>1, <1>2 DEF Standing
    <2> QED
      BY <1>1, <1>2, <2>1, <2>2, EnterProperties
  <1>3. CASE ~(ParserInit.err = "ok" /\ IsContainer(ParserInit.it))
    <2>1. FirstItem = ParserInit
      BY <1>3 DEF FirstItem
    <2> QED
      BY <1>1, <2>1
  <1> QED
    BY <1>2, <1>3

LEMMA InitStep == Init => StringsInv
  <1> SUFFICES ASSUME Init PROVE StringsInv
    OBVIOUS
  <1>1. buf \in Seq(Byte) /\ Len(buf) <= Room /\ reader \in BOOLEAN
    BY CursorAssumption, StringsAssumption DEF Init
  <1>2. /\ Standing(value) /\ value.type \in StringMajors \cup {"tag"}
    BY <1>1, FirstItemProperties DEF Init
  <1>3. value.remaining # 0
    BY <1>2 DEF Standing, StringMajors
  <1>4. ValueInv
    BY <1>1, <1>2, <1>3 DEF ValueInv, Standing, IsString
  <1>5. PlaceInv
    BY <1>2 DEF Init, PlaceInv, Standing, Within, OneWalk
  <1>6. LedgerInv
    <2>1. value.ptr \in 1 .. Limit /\ Limit \in Nat /\ Len(buf) \in Nat
      BY <1>1, <1>2, BufferType DEF Standing, Within
    <2>2. memory \in [1 .. Room -> Bytes] /\ \A i \in 1 .. Room : memory[i] = Untouched
      BY DEF Init, Bytes
    <2>3. /\ it = value /\ call = "none" /\ step = "idle" /\ capacity = 0 /\ total = 0
          /\ all = TRUE
      BY DEF Init
    <2> QED
      BY <2>1, <2>2, <2>3 DEF LedgerInv
  <1> QED
    BY <1>4, <1>5, <1>6 DEF StringsInv

LEMMA StepInv == StringsInv /\ [Next]_vars => StringsInv'
  <1> SUFFICES ASSUME StringsInv, [Next]_vars PROVE StringsInv'
    OBVIOUS
  <1>1. CASE UNCHANGED vars
    <2>1. ValueInv'
      BY <1>1, SourceStep DEF vars, source
    <2> QED
      BY <1>1, <2>1 DEF vars, StringsInv, PlaceInv, LedgerInv, OneWalk, Limit, Within,
                        Standing, HeadHere, HeadByte, IsString, IsContainer
  <1>2. CASE CalculateLength \/ CopyString \/ DupString
    BY <1>2, CallStep
  <1>3. CASE TextStringEquals
    BY <1>3, EqualsStep
  <1>4. CASE Chunk
    BY <1>4, ChunkStep
  <1>5. CASE EndOfString
    BY <1>5, EndOfStringStep
  <1>6. CASE BadChunk
    BY <1>6, BadChunkStep
  <1>7. CASE DupAllocates
    BY <1>7, DupAllocatesStep
  <1>8. CASE DupCannotAllocate
    BY <1>8, DupFailsStep
  <1>9. CASE SkipTag
    BY <1>9, SkipTagStep
  <1>10. CASE CompareText
    BY <1>10, CompareStep
  <1>11. CASE NotText
    BY <1>11, NotTextStep
  <1> QED
    BY <1>1, <1>2, <1>3, <1>4, <1>5, <1>6, <1>7, <1>8, <1>9, <1>10, <1>11 DEF Next

LEMMA InvAlways == Spec => []StringsInv
  BY InitStep, StepInv, PTL DEF Spec

(* Whatever stands where a string should have a chunk or a break, the      *)
(* walk's cursor never leaves the buffer, but for the one byte that dup's  *)
(* second pass over callbacks already at the end may step over.            *)
THEOREM StringsTypeCorrect == Spec => []TypeOK
  <1>1. StringsInv => TypeOK
    BY ValueProperties DEF StringsInv, ValueInv, PlaceInv, LedgerInv, TypeOK, Bytes
  <1> QED
    BY <1>1, InvAlways, PTL

(* Op::apply: copying and duplicating write neither a chunk whose end does *)
(* not fit nor the NUL of a string that fills the buffer exactly.          *)
THEOREM StringsStayInCapacity == Spec => []WritesOwnedOnly
  <1>1. StringsInv => WritesOwnedOnly
    BY DEF StringsInv, LedgerInv, WritesOwnedOnly
  <1> QED
    BY <1>1, InvAlways, PTL

-----------------------------------------------------------------------------
(* The chunks of a string look up only what starts later, so they exist,   *)
(* have their rule, and are those of the bytes.                            *)
(* The content of a definite string that is all there. *)
LEMMA PayloadIs ==
  ASSUME buf \in Seq(Byte), NEW q \in 1 .. Limit, PlainHead(q), StringEnd(q) # Malformed
  PROVE  /\ Payload(q) \in Seq(Byte) /\ Len(Payload(q)) = Argument(buf, q)
         /\ StringEnd(q) = q + HeadLength(q) + Argument(buf, q)
         /\ StringEnd(q) \in q + 1 .. Limit /\ Len(Payload(q)) + q < StringEnd(q)
  <1> DEFINE h == HeadLength(q)
             n == Argument(buf, q)
             end == StringEnd(q)
             from == q + h
  <1>1. Limit = Len(buf) + 1 /\ Len(buf) \in Nat /\ \A i \in 1 .. Len(buf) : buf[i] \in Byte
    BY BufferType
  <1>2. h \in Nat \ {0} /\ n \in Nat
    BY WholeHead
  <1>3. end = q + h + n /\ end \in 0 .. Limit /\ end > q
    BY StringEndIs
  <1>4. Payload(q) = SubSeq(buf, from, end - 1)
    BY DEF Payload
  <1> HIDE DEF h, n, end
  <1>5. from \in Nat \ {0} /\ end - 1 = from + n - 1 /\ from + n - 1 \in Int
    BY <1>2, <1>3
  <1>6. \A i \in from .. from + n - 1 : i \in 1 .. Len(buf)
    BY <1>1, <1>2, <1>3
  <1> HIDE DEF from
  <1>7. SubSeq(buf, from, from + n - 1) \in Seq(Byte) /\ Len(SubSeq(buf, from, from + n - 1)) = n
    <2>1. \A i \in from .. from + n - 1 : buf[i] \in Byte
      BY <1>1, <1>6
    <2> QED
      BY <1>2, <1>5, <2>1, SubSeqProperties
  <1>8. Payload(q) \in Seq(Byte) /\ Len(Payload(q)) = n
    BY <1>4, <1>5, <1>7
  <1>9. end \in q + 1 .. Limit /\ n + q < end
    BY <1>1, <1>2, <1>3
  <1> QED
    BY <1>3, <1>8, <1>9 DEF h, n, end

ChunkTables ==
  {f \in [1 .. Limit -> Seq(Byte)] : \A q \in 1 .. Limit : Len(f[q]) <= Limit - q}

ChunksBy(f, q) ==
  IF PlainHead(q) /\ StringEnd(q) # Malformed THEN Payload(q) \o f[StringEnd(q)] ELSE << >>
ChunksFrom(f, k) == \A q \in 1 .. Limit : q >= k => f[q] = ChunksBy(f, q)

LEMMA ChunksExist ==
  ASSUME buf \in Seq(Byte)
  PROVE  \E f \in ChunkTables : ChunksFrom(f, 1)
  <1> DEFINE Table(f) == f \in ChunkTables
             Without == {m \in Nat : m <= Limit /\ ~ \E f : Table(f) /\ ChunksFrom(f, Limit + 1 - m)}
  <1>1. Limit \in Nat \ {0}
    BY BufferType
  <1>2. Without = {}
    <2> SUFFICES ASSUME Without # {} PROVE FALSE
      OBVIOUS
    <2>1. PICK m \in Without : \A j \in Without : ~(j < m)
      <3>1. Without \in SUBSET Nat
        OBVIOUS
      <3> HIDE DEF Without
      <3> QED
        BY <3>1, Least
    <2>2. m \in Nat /\ m <= Limit /\ ~ \E f : Table(f) /\ ChunksFrom(f, Limit + 1 - m)
      OBVIOUS
    <2>3. m # 0
      <3> DEFINE f == [q \in 1 .. Limit |-> << >>]
      <3>1. Table(f) /\ ChunksFrom(f, Limit + 1)
        <4>1. << >> \in Seq(Byte) /\ Len(<< >>) = 0
          OBVIOUS
        <4>2. f \in [1 .. Limit -> Seq(Byte)] /\ \A q \in 1 .. Limit : Len(f[q]) = 0
          BY <4>1
        <4> HIDE DEF f
        <4> QED
          BY <1>1, <4>2 DEF ChunkTables, ChunksFrom
      <3> HIDE DEF Table
      <3> QED
        BY <1>1, <2>2, <3>1
    <2>4. PICK f : Table(f) /\ ChunksFrom(f, Limit + 1 - (m - 1))
      <3>1. m - 1 \in Nat /\ m - 1 < m /\ m - 1 <= Limit
        BY <1>1, <2>2, <2>3
      <3> QED
        BY <2>1, <3>1
    <2> DEFINE h == [q \in 1 .. Limit |-> ChunksBy(f, q)]
    <2>5. ASSUME NEW q \in 1 .. Limit
          PROVE  ChunksBy(f, q) \in Seq(Byte) /\ Len(ChunksBy(f, q)) <= Limit - q
      <3>1. CASE PlainHead(q) /\ StringEnd(q) # Malformed
        <4> DEFINE p == StringEnd(q)
                   here == Payload(q)
        <4>1. p \in 1 .. Limit /\ here \in Seq(Byte) /\ Len(here) + q < p
          BY <3>1, PayloadIs
        <4>2. ChunksBy(f, q) = here \o f[p]
          BY <3>1 DEF ChunksBy
        <4> HIDE DEF p, here
        <4>3. f[p] \in Seq(Byte) /\ Len(f[p]) <= Limit - p
          BY <2>4, <4>1 DEF ChunkTables
        <4>4. here \o f[p] \in Seq(Byte) /\ Len(here \o f[p]) = Len(here) + Len(f[p])
          BY <4>1, <4>3, ConcatProperties
        <4>5. Len(here) \in Nat /\ Len(f[p]) \in Nat
          BY <4>1, <4>3, LenProperties
        <4> QED
          BY <1>1, <4>1, <4>2, <4>3, <4>4, <4>5
      <3>2. CASE ~(PlainHead(q) /\ StringEnd(q) # Malformed)
        <4>1. ChunksBy(f, q) = << >>
          BY <3>2 DEF ChunksBy
        <4> QED
          BY <1>1, <4>1
      <3> QED
        BY <3>1, <3>2
    <2>6. Table(h)
      <3>1. h \in [1 .. Limit -> Seq(Byte)] /\ \A q \in 1 .. Limit : h[q] = ChunksBy(f, q)
        BY <2>5
      <3> HIDE DEF h
      <3> QED
        BY <2>5, <3>1 DEF ChunkTables
    <2>7. \A q \in 1 .. Limit : h[q] = ChunksBy(f, q)
      OBVIOUS
    <2> HIDE DEF h
    <2>8. ChunksFrom(h, Limit + 1 - m)
      <3> SUFFICES ASSUME NEW q \in 1 .. Limit, q >= Limit + 1 - m PROVE h[q] = ChunksBy(h, q)
        BY DEF ChunksFrom
      <3>1. CASE PlainHead(q) /\ StringEnd(q) # Malformed
        <4> DEFINE p == StringEnd(q)
        <4>1. p \in 1 .. Limit /\ p > q
          BY <3>1, StringEndIs
        <4>2. ChunksBy(f, q) = Payload(q) \o f[p] /\ ChunksBy(h, q) = Payload(q) \o h[p]
          BY <3>1 DEF ChunksBy
        <4> HIDE DEF p
        <4>3. p >= Limit + 1 - (m - 1)
          BY <1>1, <2>2, <4>1
        <4>4. f[p] = ChunksBy(f, p)
          BY <2>4, <4>1, <4>3 DEF ChunksFrom
        <4> QED
          BY <2>7, <4>1, <4>2, <4>4
      <3>2. CASE ~(PlainHead(q) /\ StringEnd(q) # Malformed)
        BY <2>7, <3>2 DEF ChunksBy
      <3> QED
        BY <3>1, <3>2
    <2> HIDE DEF Table
    <2> QED
      BY <2>2, <2>6, <2>8
  <1>3. \E f : Table(f) /\ ChunksFrom(f, Limit + 1 - Limit)
    <2>1. Limit \in Nat /\ Limit <= Limit
      BY <1>1
    <2> HIDE DEF Table
    <2> QED
      BY <1>2, <2>1
  <1>4. Limit + 1 - Limit = 1
    BY <1>1
  <1> QED
    BY <1>3, <1>4

LEMMA ChunksAgree ==
  ASSUME buf \in Seq(Byte), NEW f \in ChunkTables, ChunksFrom(f, 1),
         NEW h, h = [q \in 1 .. Limit |-> h[q]], ChunksFrom(h, 1)
  PROVE  f = h
  <1>1. Limit \in Nat \ {0}
    BY BufferType
  <1>2. \A q \in 1 .. Limit : f[q] = ChunksBy(f, q) /\ h[q] = ChunksBy(h, q)
    BY <1>1 DEF ChunksFrom
  <1> DEFINE Wrong == {r \in Nat : \E q \in 1 .. Limit : r = Limit - q /\ f[q] # h[q]}
  <1>3. Wrong = {}
    <2> SUFFICES ASSUME Wrong # {} PROVE FALSE
      OBVIOUS
    <2>1. PICK r \in Wrong : \A s \in Wrong : ~(s < r)
      <3>1. Wrong \in SUBSET Nat
        OBVIOUS
      <3> HIDE DEF Wrong
      <3> QED
        BY <3>1, Least
    <2>2. PICK q \in 1 .. Limit : r = Limit - q /\ f[q] # h[q]
      BY <2>1
    <2>3. PlainHead(q) /\ StringEnd(q) # Malformed
      BY <1>2, <2>2 DEF ChunksBy
    <2> DEFINE p == StringEnd(q)
    <2>4. p \in 1 .. Limit /\ p > q
      BY <2>3, StringEndIs
    <2>5. f[q] = Payload(q) \o f[p] /\ h[q] = Payload(q) \o h[p]
      BY <1>2, <2>3 DEF ChunksBy
    <2> HIDE DEF p
    <2>6. Limit - p \in Nat /\ Limit - p < r
      BY <1>1, <2>2, <2>4
    <2>7. f[p] = h[p]
      BY <2>1, <2>4, <2>6
    <2> QED
      BY <2>2, <2>5, <2>7
  <1>4. \A q \in 1 .. Limit : f[q] = h[q]
    <2> SUFFICES ASSUME NEW q \in 1 .. Limit, f[q] # h[q] PROVE FALSE
      OBVIOUS
    <2>1. Limit - q \in Nat
      BY <1>1
    <2> QED
      BY <1>3, <2>1
  <1>5. f = [q \in 1 .. Limit |-> f[q]]
    BY DEF ChunkTables
  <1> QED
    BY <1>4, <1>5

LEMMA ChunksAre ==
  ASSUME buf \in Seq(Byte)
  PROVE  /\ Chunks \in ChunkTables /\ ChunksFrom(Chunks, 1)
         /\ Chunks = [q \in 1 .. Limit |-> Chunks[q]]
  <1>1. PICK f \in ChunkTables : ChunksFrom(f, 1)
    BY ChunksExist
  <1>2. Limit \in Nat \ {0}
    BY BufferType
  <1>3. f = [q \in 1 .. Limit |-> ChunksBy(f, q)]
    <2>1. f = [q \in 1 .. Limit |-> f[q]] /\ \A q \in 1 .. Limit : f[q] = ChunksBy(f, q)
      BY <1>1, <1>2 DEF ChunksFrom, ChunkTables
    <2> QED
      BY <2>1
  <1>4. Chunks = [q \in 1 .. Limit |-> ChunksBy(Chunks, q)]
    BY <1>3 DEF Chunks, ChunksBy
  <1>5. \A q \in 1 .. Limit : Chunks[q] = ChunksBy(Chunks, q)
    BY <1>4
  <1>6. Chunks = [q \in 1 .. Limit |-> Chunks[q]]
    BY <1>4
  <1> DEFINE h == Chunks
  <1>7. h = [q \in 1 .. Limit |-> h[q]] /\ ChunksFrom(h, 1)
    BY <1>5, <1>6 DEF ChunksFrom
  <1> HIDE DEF h
  <1>8. f = h
    BY <1>1, <1>7, ChunksAgree
  <1> QED
    BY <1>1, <1>7, <1>8 DEF h

LEMMA ChunksFact ==
  buf \in Seq(Byte) =>
    /\ Chunks \in ChunkTables /\ ChunksFrom(Chunks, 1)
    /\ Chunks = [q \in 1 .. Limit |-> Chunks[q]]
  BY ChunksAre

LEMMA ChunksStay ==
  ASSUME buf \in Seq(Byte), buf' = buf PROVE Chunks' = Chunks
  <1> SUFFICES ASSUME NEW h, Chunks' = h PROVE h = Chunks
    OBVIOUS
  <1>1. ChunksFact!1' => ChunksFact!2'
    BY ChunksFact, PTL
  <1>2. Limit' = Limit
    BY DEF Limit
  <1>3. h = [q \in 1 .. Limit |-> h[q]] /\ ChunksFrom(h, 1)'
    BY <1>1, <1>2
  <1>4. ChunksFrom(h, 1)
    BY <1>2, <1>3 DEF ChunksFrom, ChunksBy, PlainHead, HeadLength, StringEnd, Payload
  <1>5. Chunks \in ChunkTables /\ ChunksFrom(Chunks, 1)
    BY ChunksAre
  <1> DEFINE f == Chunks
  <1>6. f \in ChunkTables /\ ChunksFrom(f, 1)
    BY <1>5
  <1> HIDE DEF f
  <1>7. f = h
    BY <1>3, <1>4, <1>6, ChunksAgree
  <1> QED
    BY <1>7 DEF f

-----------------------------------------------------------------------------
LEMMA ChunksRule ==
  ASSUME buf \in Seq(Byte), NEW q \in 1 .. Limit
  PROVE  /\ Chunks[q] \in Seq(Byte) /\ Len(Chunks[q]) <= Limit - q
         /\ Chunks[q] = IF PlainHead(q) /\ StringEnd(q) # Malformed
                        THEN Payload(q) \o Chunks[StringEnd(q)] ELSE << >>
  <1>1. Chunks \in ChunkTables /\ ChunksFrom(Chunks, 1) /\ Limit \in Nat
    BY ChunksAre, BufferType
  <1>2. Chunks[q] = ChunksBy(Chunks, q)
    BY <1>1 DEF ChunksFrom
  <1> QED
    BY <1>1, <1>2 DEF ChunksBy, ChunkTables

LEMMA PayloadType ==
  ASSUME buf \in Seq(Byte), NEW q \in 1 .. Limit, PlainHead(q)
  PROVE  Payload(q) \in Seq(Byte) /\ Len(Payload(q)) < Len(buf)
  <1>1. Limit = Len(buf) + 1 /\ Len(buf) \in Nat /\ q < Limit
    BY BufferType DEF PlainHead
  <1>2. CASE StringEnd(q) # Malformed
    <2> DEFINE n == Len(Payload(q))
               end == StringEnd(q)
    <2>1. Payload(q) \in Seq(Byte) /\ end \in q + 1 .. Limit /\ n + q < end
      BY <1>2, PayloadIs
    <2>2. n \in Nat
      BY <2>1, LenProperties
    <2> HIDE DEF n, end
    <2>3. n < Len(buf)
      BY <1>1, <2>1, <2>2
    <2> QED
      BY <2>1, <2>3 DEF n
  <1>3. CASE StringEnd(q) = Malformed
    <2>1. HeadLength(q) \in Nat \ {0}
      BY WholeHead
    <2> DEFINE m == q + HeadLength(q)
    <2>2. m \in Int /\ 0 - 1 \in Int /\ 0 - 1 < m
      BY <2>1
    <2>3. Payload(q) = SubSeq(buf, m, 0 - 1)
      BY <1>3 DEF Payload, Malformed
    <2> HIDE DEF m
    <2>4. Payload(q) = << >>
      BY <2>2, <2>3, SubSeqEmpty
    <2> QED
      BY <1>1, <2>4
  <1> QED
    BY <1>2, <1>3

-----------------------------------------------------------------------------
(* The content a cursor inside a string has yet to yield. *)
RestOf(c) ==
  IF c.unknown THEN Chunks[c.ptr] ELSE IF c.first THEN Payload(c.ptr) ELSE << >>

LEMMA RestType ==
  ASSUME buf \in Seq(Byte), NEW c, Iterated(c)
  PROVE  RestOf(c) \in Seq(Byte) /\ Len(RestOf(c)) \in Nat
  <1>1. c.ptr \in 1 .. Limit /\ (~c.unknown /\ c.first => PlainHead(c.ptr))
    BY DEF Iterated, Within
  <1>2. RestOf(c) \in Seq(Byte)
    BY <1>1, ChunksRule, PayloadType DEF RestOf
  <1> QED
    BY <1>2, LenProperties

LEMMA NothingRests ==
  ASSUME buf \in Seq(Byte), NEW c, Iterated(c), ChunksOver(c)
  PROVE  RestOf(c) = << >>
  <1>1. CASE c.unknown
    <2>1. BreakAt(c.ptr) /\ c.ptr \in 1 .. Limit
      BY <1>1 DEF ChunksOver, Iterated, Within
    <2>2. ~PlainHead(c.ptr)
      BY <2>1, BreakIsNoHead
    <2> QED
      BY <1>1, <2>1, <2>2, ChunksRule DEF RestOf
  <1>2. CASE ~c.unknown
    BY <1>2 DEF ChunksOver, RestOf
  <1> QED
    BY <1>1, <1>2

(* A chunk is the next piece of it. *)
LEMMA ChunkContent ==
  ASSUME buf \in Seq(Byte), NEW c, Iterated(c), GetChunk(c).err = "ok"
  PROVE  LET size == ChunkSize(c)
             from == c.ptr + size.offset
             bytes == SubSeq(buf, from, from + size.len - 1)
         IN  /\ bytes \in Seq(Byte) /\ Len(bytes) = size.len
             /\ RestOf(c) = bytes \o RestOf(GetChunk(c).it)
  <1> DEFINE size == ChunkSize(c)
             over == GetChunk(c).it
             from == c.ptr + size.offset
             bytes == SubSeq(buf, from, from + size.len - 1)
  <1>1. c \in Cursors /\ c.ptr \in 1 .. Limit /\ c.ptr # 0 /\ Limit \in Nat
    BY BufferType DEF Iterated, Within
  <1>2. /\ size.err = "ok" /\ over.ptr = c.ptr + size.offset + size.len
        /\ over.ptr \in 1 .. Limit /\ ~over.first /\ over.unknown = c.unknown
    BY <1>1, ChunkProperties DEF Within
  <1>3. ~ChunksOver(c) /\ PlainHead(c.ptr) /\ size.offset = HeadLength(c.ptr)
        /\ size.len = Argument(buf, c.ptr)
    BY <1>2, ChunkSizeIs
  <1>4. c.ptr + HeadLength(c.ptr) + Argument(buf, c.ptr) <= Limit
    BY <1>2, <1>3
  <1>5. StringEnd(c.ptr) = over.ptr /\ StringEnd(c.ptr) # Malformed
    BY <1>1, <1>2, <1>3, <1>4, StringEndIs DEF Malformed
  <1>6. Payload(c.ptr) \in Seq(Byte) /\ Len(Payload(c.ptr)) = size.len
    BY <1>1, <1>3, <1>5, PayloadIs
  <1>7. bytes = Payload(c.ptr)
    <2>1. from = c.ptr + HeadLength(c.ptr)
      BY <1>3
    <2>2. from + size.len = over.ptr
      BY <1>2
    <2> DEFINE n == size.len
    <2>3. n \in Nat /\ from \in Nat /\ from + n = StringEnd(c.ptr)
      BY <1>1, <1>2, <1>3, <1>5, <2>1, <2>2, WholeHead
    <2> HIDE DEF size, over, from, n
    <2>4. from + n - 1 = StringEnd(c.ptr) - 1
      BY <2>3
    <2> QED
      BY <2>1, <2>4 DEF Payload, n
  <1>8. RestOf(c) = bytes \o RestOf(over)
    <2>1. CASE c.unknown
      <3>1. RestOf(c) = Chunks[c.ptr] /\ RestOf(over) = Chunks[over.ptr]
        BY <1>2, <2>1 DEF RestOf
      <3>2. Chunks[c.ptr] = Payload(c.ptr) \o Chunks[StringEnd(c.ptr)]
        BY <1>1, <1>3, <1>5, ChunksRule
      <3> QED
        BY <1>5, <1>7, <3>1, <3>2
    <2>2. CASE ~c.unknown
      <3>1. RestOf(c) = Payload(c.ptr) /\ RestOf(over) = << >>
        BY <1>2, <1>3, <2>2 DEF RestOf, ChunksOver
      <3> QED
        BY <1>6, <1>7, <3>1, ConcatEmptySeq
    <2> QED
      BY <2>1, <2>2
  <1> QED
    BY <1>6, <1>7, <1>8

(* Where a call on the string at c begins, all of the content is ahead. *)
LEMMA StringHere ==
  ASSUME buf \in Seq(Byte), NEW c \in Cursors, HeadRead(c), IsString(c),
         TagsEnd[c.ptr] = StringAt
  PROVE  /\ StringAt = c.ptr /\ Kind = c.type /\ c.type \in StringMajors
         /\ RestOf(BeginStringIteration(c)) = Content
         /\ Content \in Seq(Byte) /\ Len(Content) \in Nat /\ Len(Content) < Len(buf)
  <1> DEFINE begun == BeginStringIteration(c)
  <1>1. /\ c.ptr \in 1 .. Limit /\ c.type = MajorOf(buf[c.ptr]) /\ c.type \in StringMajors
        /\ c.ptr < Limit /\ Limit = Len(buf) + 1 /\ Len(buf) \in Nat
    BY HeadReadIs, HeadProperties, BufferType DEF HeadRead, IsString
  <1>2. /\ begun.ptr = (IF c.unknown THEN c.ptr + 1 ELSE c.ptr) /\ begun.unknown = c.unknown
        /\ begun.first = TRUE
    BY BeginProperties
  <1> HIDE DEF begun
  <1>3. StringAt = c.ptr
    <2>1. MajorOf(buf[c.ptr]) # "tag"
      BY <1>1 DEF StringMajors
    <2> QED
      BY <1>1, <2>1, TagsEndRule
  <1>4. Kind = c.type
    BY <1>1, <1>3 DEF Kind
  <1>5. CASE c.unknown
    <2>1. Descriptor(buf[c.ptr]) = IndefiniteLength /\ c.ptr + 1 \in 1 .. Limit
      BY <1>5, HeadReadIs DEF StreamedHead
    <2>2. ~(IndefiniteLength <= Value64Bit)
      BY DescriptorsAssumption DEF IndefiniteLength
    <2>3. ~PlainHead(c.ptr)
      BY <2>1, <2>2 DEF PlainHead
    <2>4. Content = Chunks[c.ptr + 1]
      BY <1>3, <2>3 DEF Content
    <2> DEFINE p == c.ptr + 1
    <2>5. Chunks[p] \in Seq(Byte) /\ Len(Chunks[p]) <= Limit - p
      BY <2>1, ChunksRule
    <2>6. Len(Chunks[p]) \in Nat
      BY <2>5, LenProperties
    <2>7. Len(Chunks[p]) < Len(buf)
      BY <1>1, <2>5, <2>6
    <2> QED
      BY <1>1, <1>2, <1>3, <1>4, <1>5, <2>4, <2>5, <2>6, <2>7 DEF RestOf, begun
  <1>6. CASE ~c.unknown
    <2>1. PlainHead(c.ptr)
      BY <1>6 DEF HeadRead
    <2>2. Content = Payload(c.ptr)
      BY <1>3, <2>1 DEF Content
    <2>3. Content \in Seq(Byte) /\ Len(Content) < Len(buf)
      BY <1>1, <2>1, <2>2, PayloadType
    <2>4. Len(Content) \in Nat
      BY <2>3, LenProperties
    <2> QED
      BY <1>1, <1>2, <1>3, <1>4, <1>6, <2>2, <2>3, <2>4 DEF RestOf, begun
  <1> QED
    BY <1>5, <1>6

-----------------------------------------------------------------------------
(* Nor has a chunk that of a buffer too small. *)
LEMMA ChunkNotOom == \A c : GetChunk(c).err # "oom"
  <1> SUFFICES ASSUME NEW c PROVE GetChunk(c).err # "oom"
    OBVIOUS
  <1>1. ChunkSize(c).err # "oom"
    BY DEF ChunkSize
  <1> QED
    BY <1>1 DEF GetChunk, Result

LEMMA FirstItemRead ==
  ASSUME buf \in Seq(Byte), FirstItem.err = "ok", FirstItem.it.type # "invalid"
  PROVE  HeadRead(FirstItem.it)
  <1>1. Start \in Cursors /\ Within(Start) /\ Start.remaining # 0
    BY StartType, BufferType DEF Within
  <1>2. ParserInit.err = "ok" => HeadRead(ParserInit.it)
    BY <1>1, ValueRead DEF ParserInit
  <1>3. CASE ParserInit.err = "ok" /\ IsContainer(ParserInit.it)
    <2>1. FirstItem = EnterContainer(ParserInit.it)
      BY <1>3 DEF FirstItem
    <2>2. ParserInit.it \in Cursors
      BY ParserInitProperties
    <2> QED
      BY <1>2, <1>3, <2>1, <2>2, EnterRead
  <1>4. CASE ~(ParserInit.err = "ok" /\ IsContainer(ParserInit.it))
    <2>1. FirstItem = ParserInit
      BY <1>4 DEF FirstItem
    <2> QED
      BY <1>2, <2>1
  <1> QED
    BY <1>3, <1>4

-----------------------------------------------------------------------------
(* A walk's cursor c with n bytes of content behind it: the same string    *)
(* and the same content are ahead as where the call began.                 *)
OnWay(c, n) ==
  /\ Iterated(c) /\ c.type = Kind
  /\ c.remaining = value.remaining /\ c.map = value.map /\ c.key = value.key
  /\ ThisEnd(c, TRUE, Unlimited) = ItemEnd(StringAt, Unlimited)
  /\ Content \in Seq(Byte) /\ Len(Content) < Len(buf)
  /\ n + Len(RestOf(c)) = Len(Content)
  /\ \A i \in 1 .. Len(RestOf(c)) : RestOf(c)[i] = Content[n + i]

(* The outcome so far is that of comparing, or copying, that much of it. *)
Agrees(n) == \A i \in 1 .. n : memory[i] = Content[i]

WalkInv ==
  /\ OnWay(it, total)
  /\ call # "equals" => SameSight(it, value)
  /\ call = "equals" => Kind = "text"
  /\ all <=> total <= capacity /\ (call = "equals" => Agrees(total))
  /\ all /\ call \in {"copy", "dup_copy"} => Agrees(total)

TagsInv ==
  /\ HeadRead(it) /\ TagsEnd[it.ptr] = StringAt
  /\ it.remaining = value.remaining /\ it.map = value.map /\ it.key = value.key

CallInv ==
  /\ call \in {"none", "length", "equals"} => next = None
  /\ call = "equals" => capacity < Room /\ \A i \in 1 .. capacity : memory[i] # 0
  /\ call \in {"length", "dup"} => capacity = Len(buf)
  /\ call = "dup_copy" => capacity = Len(Content) + 1
  /\ step = "measured" \/ call = "dup_copy" => WellFormed /\ After.err = "ok"

AnswersInv ==
  /\ HeadRead(value) /\ CallInv
  /\ step = "tags" => TagsInv
  /\ step = "chunks" /\ OneWalk => WalkInv
  /\ step = "measured" => total = Len(Content) /\ HandedBack
  /\ step = "done" => AnswerExact /\ EqualsExact /\ NextExact

-----------------------------------------------------------------------------
(* The source stays, and with it what the contract says of it. *)
LEMMA ContractStays ==
  ASSUME buf \in Seq(Byte), UNCHANGED source
  PROVE  /\ buf' = buf /\ reader' = reader /\ value' = value /\ Limit' = Limit
         /\ Unlimited' = Unlimited
         /\ EndOf' = EndOf /\ TagsEnd' = TagsEnd /\ Chunks' = Chunks
         /\ StringAt' = StringAt /\ Kind' = Kind /\ (WellFormed' <=> WellFormed)
         /\ Content' = Content /\ After' = After
         /\ HeadRead(value) => HeadRead(value)'
  <1>1. buf' = buf /\ value' = value /\ Limit' = Limit /\ Unlimited' = Unlimited /\ reader' = reader
    BY DEF source, Limit, Unlimited
  <1>2. EndOf' = EndOf /\ TagsEnd' = TagsEnd /\ Chunks' = Chunks
    BY <1>1, EndOfStays, TagsEndStays, ChunksStay
  <1>3. StringAt' = StringAt /\ Kind' = Kind
    BY <1>1, <1>2 DEF StringAt, Kind
  <1>4. ItemEnd(StringAt, Unlimited)' = ItemEnd(StringAt, Unlimited)
    BY <1>1, <1>2, <1>3 DEF ItemEnd
  <1>5. WellFormed' <=> WellFormed
    BY <1>3, <1>4 DEF WellFormed
  <1>6. Content' = Content
    BY <1>1, <1>2, <1>3 DEF Content, PlainHead, HeadLength, Payload, StringEnd
  <1>7. After' = After
    <2>1. PICK y : y = [value EXCEPT !.type = Kind, !.ptr = ItemEnd(StringAt, Unlimited)]
      OBVIOUS
    <2>2. [value EXCEPT !.type = Kind, !.ptr = ItemEnd(StringAt, Unlimited)]' = y
      BY <1>1, <1>3, <1>4, <2>1
    <2>3. After = PreparseNext(y)
      BY <2>1 DEF After
    <2>4. After' = PreparseNext(y)'
      BY <2>2 DEF After
    <2> QED
      BY <1>1, <2>3, <2>4, NextStays
  <1>8. HeadRead(value) => HeadRead(value)'
    BY <1>1 DEF HeadRead, HeadHere, HeadByte, PlainHead, HeadLength, Int64, IsString, IsContainer,
                Limit
  <1> QED
    BY <1>1, <1>2, <1>3, <1>5, <1>6, <1>7, <1>8

LEMMA OnWayStays ==
  ASSUME buf \in Seq(Byte), UNCHANGED source, NEW c, NEW n, OnWay(c, n), it' = c, total' = n
  PROVE  OnWay(it, total)'
  <1>1. /\ buf' = buf /\ value' = value /\ Limit' = Limit /\ Unlimited' = Unlimited
        /\ EndOf' = EndOf /\ TagsEnd' = TagsEnd /\ Chunks' = Chunks
        /\ StringAt' = StringAt /\ Kind' = Kind /\ Content' = Content
    BY ContractStays
  <1>2. RestOf(it)' = RestOf(c)
    BY <1>1 DEF RestOf, Payload, HeadLength, StringEnd
  <1>3. Iterated(it)'
    BY <1>1 DEF OnWay, Iterated, Within, IsString, PlainHead, HeadLength
  <1>4. /\ ThisEnd(it, TRUE, Unlimited)' = ThisEnd(c, TRUE, Unlimited)
        /\ ItemEnd(StringAt, Unlimited)' = ItemEnd(StringAt, Unlimited)
    BY <1>1 DEF ThisEnd, ItemEnd, ChunksEnd
  <1> QED
    BY <1>1, <1>2, <1>3, <1>4 DEF OnWay

-----------------------------------------------------------------------------
(* The facts that every step needs of where it starts from. *)
LEMMA HeadReadStays ==
  ASSUME NEW c, HeadRead(c), buf' = buf, it' = c
  PROVE  HeadRead(it)'
  BY DEF HeadRead, HeadHere, HeadByte, PlainHead, HeadLength, Int64, IsString, IsContainer, Limit

(* A walk that begins on the string has all of its content ahead. *)
LEMMA WalkOn ==
  ASSUME buf \in Seq(Byte), UNCHANGED source,
         NEW c \in Cursors, HeadRead(c), IsString(c), TagsEnd[c.ptr] = StringAt,
         c.remaining = value.remaining, c.map = value.map, c.key = value.key,
         NEW room \in Nat, Walk(c, room),
         call' # "equals" => c = value, call' = "equals" => c.type = "text"
  PROVE  WalkInv'
  <1> DEFINE begun == BeginStringIteration(c)
  <1>1. /\ it' = begun /\ total' = 0 /\ all' = TRUE /\ capacity' = room
    BY DEF Walk
  <1>2. /\ Iterated(begun) /\ SameSight(begun, c)
        /\ ThisEnd(begun, TRUE, Unlimited) = ItemEnd(c.ptr, Unlimited)
    BY BeginEnds, BufferType DEF Unlimited
  <1>3. /\ StringAt = c.ptr /\ Kind = c.type /\ RestOf(begun) = Content
        /\ Content \in Seq(Byte) /\ Len(Content) \in Nat /\ Len(Content) < Len(buf)
    BY StringHere
  <1> HIDE DEF begun
  <1>4. OnWay(begun, 0)
    <2>1. /\ begun.type = Kind /\ begun.remaining = value.remaining
          /\ begun.map = value.map /\ begun.key = value.key
      BY <1>2, <1>3 DEF SameSight
    <2>2. 0 + Len(RestOf(begun)) = Len(Content)
      BY <1>3
    <2>3. \A i \in 1 .. Len(RestOf(begun)) : RestOf(begun)[i] = Content[0 + i]
      BY <1>3
    <2> QED
      BY <1>2, <1>3, <2>1, <2>2, <2>3 DEF OnWay
  <1>5. OnWay(it, total)'
    BY <1>1, <1>4, OnWayStays
  <1>6. value' = value /\ Kind' = Kind
    BY ContractStays
  <1>7. call' # "equals" => SameSight(it, value)'
    BY <1>1, <1>2, <1>6 DEF SameSight
  <1>8. Agrees(total)' /\ total' <= capacity'
    BY <1>1 DEF Agrees
  <1> QED
    BY <1>1, <1>3, <1>5, <1>6, <1>7, <1>8 DEF WalkInv

LEMMA CallAnswers ==
  ASSUME StringsInv, AnswersInv, CalculateLength \/ CopyString \/ DupString PROVE AnswersInv'
  <1>1. /\ step = "idle" /\ IsString(value) /\ UNCHANGED source /\ step' = "chunks"
        /\ call' \in {"length", "copy", "dup"} /\ next' = next
        /\ \E room \in Capacities \cup {Unbounded} :
             Walk(Seen(value), room) /\ (call' # "copy" => room = Unbounded)
    BY DEF CalculateLength, CopyString, DupString, Walk
  <1>2. PICK room \in Capacities \cup {Unbounded} :
               Walk(Seen(value), room) /\ (call' # "copy" => room = Unbounded)
    BY <1>1
  <1>3. room \in Nat /\ buf \in Seq(Byte)
    BY StringsAssumption, ValueProperties DEF Unbounded
  <1>4. /\ position = value.ptr /\ value \in Cursors /\ call = "none"
    BY <1>1 DEF StringsInv, PlaceInv, ValueInv, LedgerInv
  <1>5. Seen(value) = value
    BY <1>4, ValueProperties, SeenIs
  <1>6. HeadRead(value) /\ next = None
    BY <1>4 DEF AnswersInv, CallInv
  <1>7. WalkInv'
    BY <1>1, <1>2, <1>3, <1>4, <1>5, <1>6, WalkOn DEF StringAt
  <1>8. buf' = buf /\ HeadRead(value)'
    BY <1>1, <1>3, <1>6, ContractStays
  <1>9. CallInv'
    BY <1>1, <1>2, <1>6, <1>8 DEF CallInv, Walk, Unbounded, None
  <1> QED
    BY <1>1, <1>7, <1>8, <1>9 DEF AnswersInv

LEMMA DupAllocatesAnswers ==
  ASSUME StringsInv, AnswersInv, DupAllocates PROVE AnswersInv'
  <1>1. /\ step = "measured" /\ UNCHANGED source /\ step' = "chunks" /\ call' = "dup_copy"
        /\ Walk(Seen(value), total + 1) /\ capacity' = total + 1
    BY DEF DupAllocates, Walk
  <1>2. /\ buf \in Seq(Byte) /\ value \in Cursors /\ IsString(value) /\ total \in Nat
        /\ position = IF reader THEN it.ptr ELSE value.ptr
        /\ reader \in BOOLEAN
    BY <1>1 DEF StringsInv, PlaceInv, ValueInv, LedgerInv
  <1>3. HeadRead(value) /\ total = Len(Content) /\ WellFormed /\ After.err = "ok"
    BY <1>1 DEF AnswersInv, CallInv
  <1>4. /\ HeadRead(value)' /\ Content' = Content /\ After' = After /\ WellFormed'
        /\ reader' = reader
    BY <1>1, <1>2, <1>3, ContractStays
  <1>5. CallInv'
    BY <1>1, <1>3, <1>4 DEF CallInv
  <1>6. CASE reader
    <2>1. ~OneWalk'
      BY <1>1, <1>4, <1>6 DEF OneWalk
    <2> QED
      BY <1>1, <1>4, <1>5, <2>1 DEF AnswersInv
  <1>7. CASE ~reader
    <2>1. Seen(value) = value
      BY <1>7 DEF Seen
    <2>2. WalkInv'
      BY <1>1, <1>2, <1>3, <2>1, WalkOn DEF StringAt
    <2> QED
      BY <1>1, <1>4, <1>5, <2>2 DEF AnswersInv
  <1> QED
    BY <1>2, <1>6, <1>7

LEMMA TextEqualsAnswers ==
  ASSUME StringsInv, AnswersInv, TextStringEquals PROVE AnswersInv'
  <1>1. PICK s \in Expected : memory' = CString(s) /\ capacity' = Len(s)
    BY DEF TextStringEquals
  <1>2. /\ step = "idle" /\ call' = "equals" /\ step' = "tags" /\ it' = Seen(value)
        /\ UNCHANGED source /\ next' = next
    BY DEF TextStringEquals
  <1>3. /\ buf \in Seq(Byte) /\ value \in Cursors /\ it = value /\ position = value.ptr
        /\ call = "none"
    BY <1>2, ValueProperties DEF StringsInv, PlaceInv, ValueInv, LedgerInv
  <1>4. it' = value
    BY <1>2, <1>3, ValueProperties, SeenIs
  <1>5. HeadRead(value) /\ next = None
    BY <1>3 DEF AnswersInv, CallInv
  <1>6. /\ HeadRead(value)' /\ HeadRead(it)' /\ buf' = buf /\ value' = value
        /\ TagsEnd' = TagsEnd /\ StringAt' = StringAt
    BY <1>2, <1>3, <1>4, <1>5, ContractStays, HeadReadStays
  <1>7. TagsInv'
    BY <1>4, <1>6 DEF TagsInv, StringAt
  <1>8. capacity' < Room /\ \A i \in 1 .. capacity' : memory'[i] # 0
    <2>1. s \in Seq(Byte \ {0}) /\ Len(s) \in Nat /\ Len(s) < Room /\ Room \in Nat
      BY StringsAssumption, LenProperties
    <2>2. \A i \in 1 .. Len(s) : s[i] # 0 /\ i \in 1 .. Room
      BY <2>1, ElementOfSeq
    <2> QED
      BY <1>1, <2>1, <2>2 DEF CString
  <1>9. CallInv'
    BY <1>2, <1>5, <1>8 DEF CallInv, None
  <1> QED
    BY <1>2, <1>6, <1>7, <1>9 DEF AnswersInv

-----------------------------------------------------------------------------
(* Before the comparison: the tags. *)
LEMMA SkipTagAnswers ==
  ASSUME StringsInv, AnswersInv, SkipTag PROVE AnswersInv'
  <1> DEFINE r == AdvanceInternal(it)
             q == it.ptr + HeadLength(it.ptr)
  <1>1. /\ step = "tags" /\ it.type = "tag" /\ it' = r.it /\ UNCHANGED source
        /\ UNCHANGED << call, capacity, memory, next >>
        /\ r.err = "ok" => step' = "tags"
        /\ r.err # "ok" => step' = "done" /\ answer'.err = r.err
    BY DEF SkipTag, Return
  <1>2. /\ buf \in Seq(Byte) /\ it \in Cursors /\ call = "equals"
    BY <1>1 DEF StringsInv, PlaceInv, ValueInv, Standing
  <1>3. HeadRead(value) /\ TagsInv /\ CallInv
    BY <1>1 DEF AnswersInv
  <1>4. /\ HeadRead(value)' /\ buf' = buf /\ value' = value /\ TagsEnd' = TagsEnd
        /\ StringAt' = StringAt /\ (WellFormed' <=> WellFormed) /\ Kind' = Kind
        /\ Content' = Content /\ After' = After
    BY <1>1, <1>2, <1>3, ContractStays
  <1>5. CallInv'
    BY <1>1, <1>2, <1>3 DEF CallInv
  <1>6. /\ q \in 1 .. Limit /\ TagsEnd[it.ptr] = TagsEnd[q]
        /\ r.err = "ok" => /\ HeadRead(r.it) /\ r.it.ptr = q
                           /\ r.it.remaining = it.remaining
                           /\ r.it.map = it.map /\ r.it.key = it.key
        /\ r.err # "ok" => ~WholeAt(q)
        /\ r.err # "oom"
    BY <1>1, <1>2, <1>3, TagPassed DEF TagsInv
  <1> HIDE DEF r, q
  <1>7. CASE r.err = "ok"
    <2>1. HeadRead(it)'
      BY <1>1, <1>4, <1>6, <1>7, HeadReadStays
    <2>2. TagsInv'
      BY <1>1, <1>3, <1>4, <1>6, <1>7, <2>1 DEF TagsInv
    <2> QED
      BY <1>1, <1>4, <1>5, <1>7, <2>2 DEF AnswersInv
  <1>8. CASE r.err # "ok"
    <2>1. StringAt = q
      BY <1>2, <1>3, <1>6, <1>8, TagsEndRule DEF TagsInv, WholeAt
    <2>2. ItemEnd(q, Unlimited) = Malformed
      BY <1>2, <1>6, <1>8, BufferType, NoHeadNoItem DEF Unlimited
    <2>3. ~WellFormed'
      BY <1>4, <2>1, <2>2 DEF WellFormed
    <2>4. AnswerExact' /\ EqualsExact' /\ NextExact'
      BY <1>1, <1>2, <1>6, <1>8, <2>3
         DEF AnswerExact, AnswersContent, RefusesMalformed, EqualsExact, NextExact
    <2> QED
      BY <1>1, <1>4, <1>5, <1>8, <2>4 DEF AnswersInv
  <1> QED
    BY <1>7, <1>8

LEMMA CompareAnswers ==
  ASSUME StringsInv, AnswersInv, CompareText PROVE AnswersInv'
  <1>1. /\ step = "tags" /\ it.type = "text" /\ Walk(it, capacity)
        /\ capacity' = capacity /\ step' = "chunks"
        /\ UNCHANGED source /\ UNCHANGED << call, memory, next >>
    BY DEF CompareText, Walk
  <1>2. /\ buf \in Seq(Byte) /\ it \in Cursors /\ call = "equals" /\ capacity \in Nat
    BY <1>1 DEF StringsInv, PlaceInv, ValueInv, LedgerInv, Standing
  <1>3. HeadRead(value) /\ TagsInv /\ CallInv
    BY <1>1 DEF AnswersInv
  <1>4. HeadRead(value)'
    BY <1>1, <1>2, <1>3, ContractStays
  <1>5. CallInv'
    BY <1>1, <1>2, <1>3 DEF CallInv
  <1>6. WalkInv'
    BY <1>1, <1>2, <1>3, WalkOn DEF TagsInv, IsString, StringMajors
  <1> QED
    BY <1>1, <1>4, <1>5, <1>6 DEF AnswersInv

LEMMA NotTextAnswers ==
  ASSUME StringsInv, AnswersInv, NotText PROVE AnswersInv'
  <1>1. /\ step = "tags" /\ it.type \notin {"tag", "text"} /\ step' = "done"
        /\ answer' = [err |-> "ok", buflen |-> capacity, result |-> FALSE]
        /\ UNCHANGED source /\ UNCHANGED << call, capacity, memory, next >>
    BY DEF NotText, Return
  <1>2. /\ buf \in Seq(Byte) /\ it \in Cursors /\ call = "equals"
    BY <1>1 DEF StringsInv, PlaceInv, ValueInv, Standing
  <1>3. HeadRead(value) /\ TagsInv /\ CallInv
    BY <1>1 DEF AnswersInv
  <1>4. /\ HeadRead(value)' /\ Kind' = Kind
    BY <1>1, <1>2, <1>3, ContractStays
  <1>5. CallInv'
    BY <1>1, <1>2, <1>3 DEF CallInv
  <1>6. /\ it.ptr \in 1 .. Limit /\ it.ptr < Limit /\ it.type = MajorOf(buf[it.ptr])
        /\ it.type # "invalid"
    BY <1>2, <1>3, HeadReadIs, HeadProperties DEF TagsInv, HeadRead
  <1>7. StringAt = it.ptr
    BY <1>1, <1>2, <1>3, <1>6, TagsEndRule DEF TagsInv
  <1>8. Kind' \notin {"text", "tag", "invalid"}
    BY <1>1, <1>4, <1>6, <1>7 DEF Kind
  <1>9. AnswerExact' /\ EqualsExact' /\ NextExact'
    BY <1>1, <1>2, <1>3, <1>8
       DEF AnswerExact, AnswersContent, RefusesMalformed, EqualsExact, NextExact,
           HandedBack, CallInv
  <1> QED
    BY <1>1, <1>4, <1>5, <1>9 DEF AnswersInv

-----------------------------------------------------------------------------
(* A chunk brings the walk on by the bytes that come next in the content. *)
LEMMA ChunkOn ==
  ASSUME buf \in Seq(Byte), NEW c, NEW n \in Nat, OnWay(c, n), GetChunk(c).err = "ok"
  PROVE  LET size == ChunkSize(c)
             from == c.ptr + size.offset
             bytes == SubSeq(buf, from, from + size.len - 1)
         IN  /\ size.len \in Nat /\ Len(bytes) = size.len
             /\ OnWay(GetChunk(c).it, n + size.len) /\ SameSight(GetChunk(c).it, c)
             /\ n + size.len <= Len(Content) /\ Len(Content) \in Nat
             /\ Len(Content) < Len(buf)
             /\ \A i \in 1 .. size.len : bytes[i] = Content[n + i]
  <1> DEFINE size == ChunkSize(c)
             from == c.ptr + size.offset
             bytes == SubSeq(buf, from, from + size.len - 1)
             over == GetChunk(c).it
             len == size.len
             rest == RestOf(c)
             left == RestOf(over)
  <1>1. /\ Iterated(c) /\ Len(Content) \in Nat /\ Len(Content) < Len(buf)
        /\ n + Len(rest) = Len(Content)
        /\ \A i \in 1 .. Len(rest) : rest[i] = Content[n + i]
    BY LenProperties DEF OnWay
  <1>2. /\ Iterated(over) /\ SameSight(over, c)
        /\ ThisEnd(over, TRUE, Unlimited) = ThisEnd(c, TRUE, Unlimited)
    BY <1>1, ChunkEnds, BufferType DEF Unlimited
  <1>3. bytes \in Seq(Byte) /\ Len(bytes) = len /\ rest = bytes \o left
    BY <1>1, ChunkContent
  <1>4. left \in Seq(Byte) /\ Len(left) \in Nat /\ len \in Nat
    BY <1>2, <1>3, RestType, LenProperties
  <1> HIDE DEF size, from, bytes, over, len, rest, left
  <1>5. /\ Len(rest) = len + Len(left)
        /\ \A i \in 1 .. len : rest[i] = bytes[i]
        /\ \A i \in 1 .. Len(left) : rest[len + i] = left[i]
    <2>1. Len(rest) = len + Len(left)
      BY <1>3, <1>4, ConcatProperties
    <2>2. \A i \in 1 .. len : rest[i] = bytes[i]
      BY <1>3, <1>4, ConcatProperties
    <2>3. ASSUME NEW i \in 1 .. Len(left) PROVE rest[len + i] = left[i]
      <3>1. len + i \in 1 .. len + Len(left) /\ ~(len + i <= len) /\ (len + i) - len = i
        BY <1>4
      <3> QED
        BY <1>3, <1>4, <3>1, ConcatProperties
    <2> QED
      BY <2>1, <2>2, <2>3
  <1>6. (n + len) + Len(left) = Len(Content) /\ n + len <= Len(Content) /\ len <= Len(rest)
    BY <1>1, <1>4, <1>5
  <1>7. ASSUME NEW i \in 1 .. Len(left) PROVE left[i] = Content[(n + len) + i]
    <2>1. len + i \in 1 .. Len(rest) /\ n + (len + i) = (n + len) + i
      BY <1>4, <1>5
    <2>2. rest[len + i] = Content[n + (len + i)]
      BY <1>1, <2>1
    <2> QED
      BY <1>5, <2>1, <2>2
  <1>8. \A i \in 1 .. len : bytes[i] = Content[n + i]
    BY <1>1, <1>4, <1>5, <1>6
  <1>9. OnWay(over, n + len)
    BY <1>2, <1>6, <1>7 DEF OnWay, SameSight, left
  <1> QED
    BY <1>1, <1>2, <1>3, <1>4, <1>6, <1>8, <1>9 DEF over, bytes, from, len, size

LEMMA ChunkAnswers ==
  ASSUME StringsInv, AnswersInv, Chunk PROVE AnswersInv'
  <1> DEFINE size == ChunkSize(it)
             over == GetChunk(it).it
             from == it.ptr + size.offset
             bytes == SubSeq(buf, from, from + size.len - 1)
             len == size.len
             sum == total + len
  <1>1. /\ step = "chunks" /\ step' = "chunks" /\ GetChunk(it).err = "ok" /\ it' = over
        /\ IF Processed(len) THEN all' = Applied(bytes) /\ memory' = Stored(bytes)
           ELSE all' = FALSE /\ memory' = memory
        /\ total' = sum
        /\ UNCHANGED source /\ UNCHANGED << call, capacity, next >>
    BY DEF Chunk
  <1>2. /\ buf \in Seq(Byte) /\ Len(buf) <= Room /\ Len(buf) \in Nat /\ Room \in Nat
        /\ total \in Nat /\ capacity \in Nat
        /\ memory \in [1 .. Room -> Bytes] /\ all \in BOOLEAN
        /\ call \in {"none", "length", "copy", "dup", "dup_copy", "equals"}
    BY StringsAssumption, ValueProperties DEF StringsInv, ValueInv, LedgerInv
  <1>3. HeadRead(value) /\ CallInv
    BY DEF AnswersInv
  <1>4. /\ HeadRead(value)' /\ buf' = buf /\ reader' = reader /\ value' = value
        /\ Content' = Content /\ Kind' = Kind /\ (WellFormed' <=> WellFormed) /\ After' = After
    BY <1>1, <1>2, <1>3, ContractStays
  <1>5. CallInv'
    <2>1. call = "equals" => memory' = memory
      BY <1>1 DEF Stored
    <2> HIDE DEF size, over, from, bytes, len, sum
    <2> QED
      BY <1>1, <1>3, <1>4, <2>1 DEF CallInv
  <1>6. OneWalk => WalkInv'
    <2> SUFFICES ASSUME OneWalk PROVE WalkInv'
      OBVIOUS
    <2>1. WalkInv
      BY <1>1 DEF AnswersInv
    <2>2. /\ len \in Nat /\ Len(bytes) = len /\ OnWay(over, sum) /\ SameSight(over, it)
          /\ sum <= Len(Content) /\ Len(Content) \in Nat /\ Len(Content) < Len(buf)
          /\ \A i \in 1 .. len : bytes[i] = Content[total + i]
      BY <1>1, <1>2, <2>1, ChunkOn DEF WalkInv
    <2>3. OnWay(it, total)'
      BY <1>1, <1>2, <2>2, OnWayStays
    <2> HIDE DEF size, over, from, bytes, len
    <2>4. /\ sum = total + len /\ sum \in Nat /\ sum <= Room
      BY <1>2, <2>2
    <2>5. Processed(len) <=> all /\ sum <= capacity
      BY <1>2, <2>4 DEF Processed
    <2> HIDE DEF sum
    <2>6. total' = sum /\ capacity' = capacity /\ call' = call
      BY <1>1 DEF sum
    <2>7. Agrees(total)' <=> \A i \in 1 .. sum : memory'[i] = Content[i]
      BY <1>4, <2>6 DEF Agrees
    <2>8. call = "equals" => (all' <=> sum <= capacity /\ Agrees(total)')
      <3> SUFFICES ASSUME call = "equals" PROVE all' <=> sum <= capacity /\ Agrees(total)'
        OBVIOUS
      <3>1. memory' = memory /\ (all' <=> Processed(len) /\ Matches(total, bytes))
        BY <1>1 DEF Stored, Applied, Matches
      <3>2. Matches(total, bytes) <=> \A i \in 1 .. len : memory[total + i] = Content[total + i]
        BY <2>2 DEF Matches
      <3>3. (\A i \in 1 .. sum : memory[i] = Content[i])
              <=> Agrees(total) /\ \A i \in 1 .. len : memory[total + i] = Content[total + i]
        <4>1. ASSUME \A i \in 1 .. sum : memory[i] = Content[i]
              PROVE  Agrees(total) /\ \A i \in 1 .. len : memory[total + i] = Content[total + i]
          BY <1>2, <2>2, <2>4, <4>1 DEF Agrees
        <4>2. ASSUME Agrees(total), \A i \in 1 .. len : memory[total + i] = Content[total + i],
                     NEW i \in 1 .. sum
              PROVE  memory[i] = Content[i]
          <5>1. CASE i <= total
            BY <1>2, <4>2, <5>1 DEF Agrees
          <5>2. CASE i > total
            <6>1. i - total \in 1 .. len /\ total + (i - total) = i
              BY <1>2, <2>2, <2>4, <5>2
            <6> QED
              BY <4>2, <6>1
          <5> QED
            BY <1>2, <2>4, <5>1, <5>2
        <4> QED
          BY <4>1, <4>2
      <3>4. all <=> total <= capacity /\ Agrees(total)
        BY <2>1 DEF WalkInv
      <3>5. sum <= capacity => total <= capacity
        BY <1>2, <2>2, <2>4
      <3> QED
        BY <2>5, <2>7, <3>1, <3>2, <3>3, <3>4, <3>5
    <2>9. call # "equals" => (all' <=> sum <= capacity)
      <3> SUFFICES ASSUME call # "equals" PROVE all' <=> sum <= capacity
        OBVIOUS
      <3>1. all' <=> Processed(len)
        BY <1>1 DEF Applied
      <3>2. all <=> total <= capacity
        BY <2>1 DEF WalkInv
      <3>3. sum <= capacity => total <= capacity
        BY <1>2, <2>2, <2>4
      <3> QED
        BY <2>5, <3>1, <3>2, <3>3
    <2>10. all' /\ call \in {"copy", "dup_copy"} => Agrees(total)'
      <3> SUFFICES ASSUME all', call \in {"copy", "dup_copy"}, NEW i \in 1 .. sum
                   PROVE  memory'[i] = Content[i]
        BY <2>7
      <3>1. memory' = Overwritten(total, bytes) /\ all
        BY <1>1 DEF Stored, Processed
      <3>2. Agrees(total)
        BY <2>1, <3>1 DEF WalkInv
      <3>3. i \in 1 .. Room /\ DOMAIN memory = 1 .. Room /\ i \in Nat
        BY <1>2, <2>4
      <3>4. memory'[i] = IF i > total /\ i <= total + len THEN bytes[i - total] ELSE memory[i]
        BY <2>2, <3>1, <3>3 DEF Overwritten
      <3>5. CASE i <= total
        BY <1>2, <3>2, <3>3, <3>4, <3>5 DEF Agrees
      <3>6. CASE i > total
        <4>1. i - total \in 1 .. len /\ total + (i - total) = i /\ i <= total + len
          BY <1>2, <2>2, <2>4, <3>6
        <4> QED
          BY <2>2, <3>4, <3>6, <4>1
      <3> QED
        BY <1>2, <3>3, <3>5, <3>6
    <2>11. call # "equals" => SameSight(it, value)'
      BY <1>1, <1>4, <2>1, <2>2 DEF SameSight, WalkInv
    <2>12. call = "equals" => Kind' = "text"
      BY <1>4, <2>1 DEF WalkInv
    <2> QED
      BY <2>3, <2>6, <2>8, <2>9, <2>10, <2>11, <2>12 DEF WalkInv
  <1>7. OneWalk' <=> OneWalk
    BY <1>1, <1>4 DEF OneWalk
  <1> QED
    BY <1>1, <1>4, <1>5, <1>6, <1>7 DEF AnswersInv

(* A chunk that is none shows that the string is malformed. *)
LEMMA BadChunkAnswers ==
  ASSUME StringsInv, AnswersInv, BadChunk PROVE AnswersInv'
  <1> DEFINE chunk == GetChunk(it)
  <1>1. /\ step = "chunks" /\ chunk.err \notin {"ok", "no_more_chunks"}
        /\ step' = "done" /\ answer'.err = chunk.err
        /\ next' = IF call \in {"copy", "dup", "dup_copy"} THEN << chunk.it >> ELSE next
        /\ UNCHANGED source /\ UNCHANGED << call, capacity, memory, total, all >>
    BY DEF BadChunk, WalkReturns, Return
  <1>2. buf \in Seq(Byte) /\ chunk.err # "oom"
    BY ValueProperties, ChunkNotOom
  <1> HIDE DEF chunk
  <1>3. HeadRead(value) /\ CallInv
    BY DEF AnswersInv
  <1>4. /\ HeadRead(value)' /\ reader' = reader
        /\ Content' = Content /\ Kind' = Kind /\ (WellFormed' <=> WellFormed) /\ After' = After
    BY <1>1, <1>2, <1>3, ContractStays
  <1>5. CallInv'
    <2>1. /\ call' = call /\ capacity' = capacity /\ memory' = memory /\ buf' = buf
          /\ step' # "measured"
          /\ call \in {"none", "length", "equals"} => next' = next
      BY <1>1 DEF source
    <2>2. call' \in {"none", "length", "equals"} => next' = None'
      BY <1>3, <2>1 DEF CallInv, None
    <2>3. step' = "measured" \/ call' = "dup_copy" => WellFormed' /\ After'.err = "ok"
      BY <1>3, <1>4, <2>1 DEF CallInv
    <2> QED
      BY <1>3, <1>4, <2>1, <2>2, <2>3 DEF CallInv
  <1>6. OneWalk => ~WellFormed
    <2> SUFFICES ASSUME OneWalk PROVE ~WellFormed
      OBVIOUS
    <2>1. OnWay(it, total)
      BY <1>1 DEF AnswersInv, WalkInv
    <2>2. ThisEnd(it, TRUE, Unlimited) = Malformed
      BY <1>1, <1>2, <2>1, ChunkEnds, BufferType DEF OnWay, Unlimited, chunk
    <2> QED
      BY <2>1, <2>2 DEF OnWay, WellFormed
  <1>7. (OneWalk' <=> OneWalk) /\ (~OneWalk => call # "equals")
    BY <1>1, <1>4 DEF OneWalk
  <1>8. AnswerExact' /\ EqualsExact' /\ NextExact'
    BY <1>1, <1>2, <1>4, <1>6, <1>7
       DEF AnswerExact, AnswersContent, RefusesMalformed, EqualsExact, NextExact
  <1> QED
    BY <1>1, <1>4, <1>5, <1>8 DEF AnswersInv

-----------------------------------------------------------------------------
(* Where the chunks are over the whole of the content is behind, and what  *)
(* the walk then decodes is what comes after the string.                   *)
LEMMA WalkEnds ==
  ASSUME buf \in Seq(Byte), value \in Cursors, value.remaining # 0,
         NEW c, NEW n \in Nat, OnWay(c, n), ChunksOver(c)
  PROVE  LET f == FinishStringIteration(c)
         IN  /\ WellFormed /\ n = Len(Content) /\ f.err = After.err /\ f.err # "oom"
             /\ SameSight(c, value) =>
                  /\ f.it.ptr = After.it.ptr /\ f.it.remaining = After.it.remaining
                  /\ f.it.type = After.it.type /\ f.it.unknown = After.it.unknown
  <1> DEFINE f == FinishStringIteration(c)
             end == ItemEnd(StringAt, Unlimited)
             y == [value EXCEPT !.type = Kind, !.ptr = end]
  <1>1. /\ Iterated(c) /\ c.type = Kind /\ c.type \in StringMajors /\ c.type \in Types
        /\ c.remaining = value.remaining /\ c.map = value.map /\ c.key = value.key
        /\ ThisEnd(c, TRUE, Unlimited) = end
        /\ n + Len(RestOf(c)) = Len(Content)
    BY DEF OnWay, Iterated, IsString, Cursors
  <1>2. PICK x \in Cursors :
               /\ f = PreparseNext(x) /\ SameSight(x, c) /\ x.ptr \in 1 .. Limit
               /\ ThisEnd(c, TRUE, Unlimited) = x.ptr
    BY <1>1, FinishIs, BufferType DEF Unlimited
  <1>3. end = x.ptr /\ end \in Nat /\ end # Malformed
    <2>1. end = x.ptr
      BY <1>1, <1>2
    <2> HIDE DEF end
    <2> QED
      BY <1>2, <2>1, BufferType DEF Malformed
  <1>4. WellFormed
    BY <1>1, <1>3 DEF WellFormed
  <1>5. n = Len(Content)
    <2>1. RestOf(c) = << >>
      BY <1>1, NothingRests
    <2> QED
      BY <1>1, <2>1
  <1> HIDE DEF f, end
  <1>6. /\ y \in Cursors /\ y.ptr = x.ptr /\ y.type = Kind /\ y.remaining = value.remaining
        /\ y.map = value.map /\ y.key = value.key
        /\ y.extra = value.extra /\ y.wide = value.wide /\ y.unknown = value.unknown
    BY <1>1, <1>3 DEF Cursors
  <1>7. After = PreparseNext(y)
    BY DEF After, end
  <1> HIDE DEF y
  <1>8. f.err = After.err
    BY <1>1, <1>2, <1>6, <1>7, NextError DEF SameSight
  <1>9. f.err # "oom"
    BY <1>2, NextNotOom
  <1>10. ASSUME SameSight(c, value)
         PROVE  /\ f.it.ptr = After.it.ptr /\ f.it.remaining = After.it.remaining
                /\ f.it.type = After.it.type /\ f.it.unknown = After.it.unknown
    <2>1. SameSight(x, y)
      BY <1>1, <1>2, <1>6, <1>10 DEF SameSight
    <2>2. x.remaining # 0
      BY <1>1, <1>2 DEF SameSight
    <2> QED
      BY <1>2, <1>6, <1>7, <2>1, <2>2, NextSeen DEF SeenAlike, SameSight
  <1> QED
    BY <1>4, <1>5, <1>8, <1>9, <1>10 DEF f

(* What agrees with all of the content is the content. *)
LEMMA AgreesBegins ==
  ASSUME NEW m, m \in [1 .. Room -> Bytes], Content \in Seq(Byte), Len(Content) <= Room,
         \A i \in 1 .. Len(Content) : m[i] = Content[i]
  PROVE  /\ SubSeq(m, 1, Len(Content)) = Content
         /\ Len(Content) < Room /\ m[Len(Content) + 1] = 0 =>
              SubSeq(m, 1, Len(Append(Content, 0))) = Append(Content, 0)
  OBVIOUS

LEMMA SameString ==
  ASSUME NEW m, m \in [1 .. Room -> Bytes], Content \in Seq(Byte), NEW k \in Nat, k <= Room
  PROVE  Content = SubSeq(m, 1, k) <=>
           Len(Content) = k /\ \A i \in 1 .. k : m[i] = Content[i]
  <1>1. Room \in Nat /\ Len(Content) \in Nat
    BY StringsAssumption, LenProperties
  <1>2. /\ SubSeq(m, 1, k) \in Seq(Bytes) /\ Len(SubSeq(m, 1, k)) = k
        /\ \A i \in 1 .. k : SubSeq(m, 1, k)[i] = m[i]
    <2>1. \A i \in 1 .. k : m[i] \in Bytes
      BY <1>1
    <2> QED
      BY <2>1, SubSeqProperties
  <1>3. Content \in Seq(Bytes)
    BY DEF Bytes
  <1> QED
    BY <1>2, <1>3, SeqEqual

-----------------------------------------------------------------------------
(* What is left in memory, and of `result`, when the NUL is or is not put. *)
LEMMA NulPut ==
  ASSUME StringsInv, CallInv, WalkInv, total = Len(Content),
         all' = (all /\ (NulFits => Applied(<< 0 >>))),
         memory' = IF NulFits THEN Stored(<< 0 >>) ELSE memory
  PROVE  /\ call # "equals" => (all' <=> total <= capacity)
         /\ call = "equals" =>
              (all' <=> Content = SubSeq(memory, 1, capacity)) /\ memory' = memory
         /\ call \in {"copy", "dup_copy"} /\ total <= capacity =>
              SubSeq(memory', 1, Len(Content)) = Content
         /\ call \in {"copy", "dup_copy"} /\ total < capacity => memory'[total + 1] = 0
         /\ call = "dup_copy" =>
              SubSeq(memory', 1, Len(Append(Content, 0))) = Append(Content, 0)
  <1>1. /\ Len(buf) <= Room /\ Len(buf) \in Nat /\ total \in Nat /\ capacity \in Nat /\ Room \in Nat
        /\ memory \in [1 .. Room -> Bytes] /\ all \in BOOLEAN
        /\ Content \in Seq(Byte) /\ Len(Content) < Len(buf) /\ total < Room
    BY StringsAssumption, ValueProperties DEF StringsInv, ValueInv, LedgerInv, WalkInv, OnWay
  <1>2. call # "equals" => (all <=> total <= capacity)
    BY DEF WalkInv
  <1>3. call # "equals" => (all' <=> total <= capacity)
    BY <1>2 DEF Applied
  <1>4. ASSUME call = "equals"
        PROVE  (all' <=> Content = SubSeq(memory, 1, capacity)) /\ memory' = memory
    <2>1. memory' = memory
      BY <1>4 DEF Stored
    <2>2. capacity < Room /\ \A i \in 1 .. capacity : memory[i] # 0
      BY <1>4 DEF CallInv
    <2>3. all <=> total <= capacity /\ \A i \in 1 .. total : memory[i] = Content[i]
      BY <1>4 DEF WalkInv, Agrees
    <2>4. ASSUME NulFits PROVE ~Applied(<< 0 >>)
      <3>1. total + 1 \in 1 .. capacity
        BY <1>1, <2>4 DEF NulFits
      <3>2. memory[total + 1] # 0
        BY <2>2, <3>1
      <3>3. Len(<< 0 >>) = 1 /\ << 0 >>[1] = 0
        OBVIOUS
      <3> QED
        BY <1>4, <3>2, <3>3 DEF Applied, Matches
    <2>5. all' <=> all /\ ~NulFits
      BY <2>4
    <2>6. all' <=> total = capacity /\ \A i \in 1 .. total : memory[i] = Content[i]
      BY <1>1, <2>3, <2>5 DEF NulFits
    <2>7. Content = SubSeq(memory, 1, capacity) <=>
            total = capacity /\ \A i \in 1 .. capacity : memory[i] = Content[i]
      BY <1>1, <2>2, SameString
    <2> QED
      BY <2>1, <2>6, <2>7
  <1>5. ASSUME call \in {"copy", "dup_copy"}, total <= capacity
        PROVE  /\ SubSeq(memory', 1, Len(Content)) = Content
               /\ total < capacity => memory'[total + 1] = 0
               /\ total < capacity =>
                    SubSeq(memory', 1, Len(Append(Content, 0))) = Append(Content, 0)
    <2>1. all
      BY <1>2, <1>5
    <2>2. \A i \in 1 .. total : memory[i] = Content[i]
      BY <1>5, <2>1 DEF WalkInv, Agrees
    <2>3. << 0 >> \in Seq(Bytes) /\ Len(<< 0 >>) = 1 /\ << 0 >>[1] = 0
      BY ByteBaseType, DescriptorsAssumption DEF Bytes, Byte, ByteBase
    <2>4. CASE total < capacity
      <3>1. memory' = Overwritten(total, << 0 >>)
        BY <1>1, <1>5, <2>1, <2>4 DEF NulFits, Stored
      <3>2. \A i \in 1 .. Room : memory'[i] = IF i > total /\ i <= total + 1
                                             THEN << 0 >>[i - total] ELSE memory[i]
        BY <1>1, <2>3, <3>1 DEF Overwritten
      <3>3. memory' \in [1 .. Room -> Bytes]
        <4>1. memory' = Stored(<< 0 >>)
          BY <1>5, <3>1 DEF Stored
        <4> QED
          BY <1>1, <2>3, <4>1, StoredProperties
      <3>4. memory'[total + 1] = 0
        <4>1. total + 1 \in 1 .. Room /\ (total + 1) - total = 1
          BY <1>1
        <4> QED
          BY <1>1, <2>3, <3>2, <4>1
      <3>5. \A i \in 1 .. total : memory'[i] = Content[i]
        BY <1>1, <2>2, <3>2
      <3> QED
        BY <1>1, <3>3, <3>4, <3>5, AgreesBegins
    <2>5. CASE ~(total < capacity)
      <3>1. memory' = memory
        BY <1>1, <2>5 DEF NulFits
      <3> QED
        BY <1>1, <2>2, <2>5, <3>1, AgreesBegins
    <2> QED
      BY <2>4, <2>5
  <1>6. call = "dup_copy" => total < capacity
    BY <1>1 DEF CallInv
  <1> QED
    BY <1>1, <1>3, <1>4, <1>5, <1>6

LEMMA EndOfStringAnswers ==
  ASSUME StringsInv, AnswersInv, EndOfString PROVE AnswersInv'
  <1> DEFINE f == FinishStringIteration(it)
  <1>1. /\ step = "chunks" /\ GetChunk(it).err = "no_more_chunks"
        /\ all' = (all /\ (NulFits => Applied(<< 0 >>)))
        /\ memory' = IF NulFits THEN Stored(<< 0 >>) ELSE memory
        /\ next' = IF call \in {"copy", "dup", "dup_copy"} THEN << f.it >> ELSE next
        /\ IF f.err = "ok" /\ call = "dup" THEN step' = "measured"
           ELSE /\ step' = "done"
                /\ answer' = [err |-> IF f.err = "ok" /\ call # "equals" /\ ~all'
                                      THEN "oom" ELSE f.err,
                              buflen |-> total, result |-> all']
        /\ UNCHANGED source /\ call' = call /\ capacity' = capacity /\ total' = total
    BY DEF EndOfString, WalkReturns, Return
  <1>2. /\ buf \in Seq(Byte) /\ value \in Cursors /\ value.remaining # 0 /\ total \in Nat
        /\ capacity \in Nat /\ Len(buf) \in Nat
        /\ call \in {"none", "length", "copy", "dup", "dup_copy", "equals"}
        /\ call # "none"
    BY <1>1, ValueProperties DEF StringsInv, PlaceInv, ValueInv, LedgerInv
  <1>3. HeadRead(value) /\ CallInv
    BY DEF AnswersInv
  <1>4. /\ HeadRead(value)' /\ reader' = reader /\ buf' = buf
        /\ Content' = Content /\ Kind' = Kind /\ (WellFormed' <=> WellFormed) /\ After' = After
    BY <1>1, <1>2, <1>3, ContractStays
  <1>5. call = "equals" => memory' = memory
    BY <1>1 DEF Stored
  <1>6. OneWalk' <=> OneWalk
    BY <1>1, <1>4 DEF OneWalk
  <1>7. OneWalk =>
          /\ WellFormed /\ total = Len(Content) /\ f.err = After.err /\ f.err # "oom"
          /\ call # "equals" =>
               /\ f.it.ptr = After.it.ptr /\ f.it.remaining = After.it.remaining
               /\ f.it.type = After.it.type /\ f.it.unknown = After.it.unknown
    <2> SUFFICES ASSUME OneWalk
                 PROVE  /\ WellFormed /\ total = Len(Content) /\ f.err = After.err /\ f.err # "oom"
                        /\ call # "equals" =>
                             /\ f.it.ptr = After.it.ptr /\ f.it.remaining = After.it.remaining
                             /\ f.it.type = After.it.type /\ f.it.unknown = After.it.unknown
      OBVIOUS
    <2>1. OnWay(it, total) /\ (call # "equals" => SameSight(it, value))
      BY <1>1 DEF AnswersInv, WalkInv
    <2>2. ChunksOver(it)
      BY <1>1, <1>2, <2>1, ChunkEnds DEF OnWay
    <2> HIDE DEF f
    <2> QED
      BY <1>2, <2>1, <2>2, WalkEnds DEF f
  <1> HIDE DEF f
  <1>8. CallInv'
    <2>1. call = "dup" => OneWalk
      BY DEF OneWalk
    <2>2. call' \in {"none", "length", "equals"} => next' = None'
      BY <1>1, <1>3 DEF CallInv, None
    <2>3. step' = "measured" \/ call' = "dup_copy" => WellFormed' /\ After'.err = "ok"
      BY <1>1, <1>3, <1>4, <1>7, <2>1 DEF CallInv
    <2>4. call' = "equals" => capacity' < Room /\ \A i \in 1 .. capacity' : memory'[i] # 0
      BY <1>1, <1>3, <1>5 DEF CallInv
    <2>5. /\ call' \in {"length", "dup"} => capacity' = Len(buf')
          /\ call' = "dup_copy" => capacity' = Len(Content') + 1
      BY <1>1, <1>3, <1>4 DEF CallInv
    <2> QED
      BY <2>2, <2>3, <2>4, <2>5 DEF CallInv
  <1>9. CASE ~OneWalk
    <2>1. call = "dup_copy" /\ ~OneWalk'
      BY <1>6, <1>9 DEF OneWalk
    <2>2. WellFormed' /\ step' # "measured" /\ step' # "chunks" /\ step' # "tags"
      BY <1>1, <1>3, <1>4, <2>1 DEF CallInv
    <2>3. AnswerExact' /\ EqualsExact' /\ NextExact'
      BY <1>1, <2>1, <2>2
         DEF AnswerExact, AnswersContent, RefusesMalformed, EqualsExact, NextExact
    <2> QED
      BY <1>4, <1>8, <2>2, <2>3 DEF AnswersInv
  <1>10. CASE OneWalk
    <2>1. WalkInv
      BY <1>1, <1>10 DEF AnswersInv
    <2>2. HandedBack'
      <3>1. CASE call \in {"length", "equals"}
        <4>1. next' = None'
          BY <1>1, <1>3, <3>1 DEF CallInv, None
        <4> QED
          BY <4>1 DEF HandedBack
      <3>2. CASE call \in {"copy", "dup", "dup_copy"}
        <4>1. next'[1] = f.it
          BY <1>1, <3>2
        <4>2. /\ f.it.ptr = After.it.ptr /\ f.it.remaining = After.it.remaining
              /\ f.it.type = After.it.type /\ f.it.unknown = After.it.unknown
          BY <1>7, <1>10, <3>2
        <4> QED
          BY <1>4, <4>1, <4>2 DEF HandedBack
      <3> QED
        BY <1>2, <3>1, <3>2
    <2>3. /\ call # "equals" => (all' <=> total <= capacity)
          /\ call = "equals" => (all' <=> Content = SubSeq(memory, 1, capacity))
          /\ call \in {"copy", "dup_copy"} /\ total <= capacity =>
               SubSeq(memory', 1, Len(Content)) = Content
          /\ call \in {"copy", "dup_copy"} /\ total < capacity => memory'[total + 1] = 0
          /\ call = "dup_copy" =>
               SubSeq(memory', 1, Len(Append(Content, 0))) = Append(Content, 0)
      BY <1>1, <1>3, <1>7, <1>10, <2>1, NulPut
    <2>4. CASE step' = "measured"
      BY <1>1, <1>4, <1>7, <1>8, <1>10, <2>2, <2>4 DEF AnswersInv
    <2>5. CASE step' # "measured"
      <3>1. /\ step' = "done" /\ answer'.buflen = total /\ answer'.result = all'
            /\ answer'.err = IF f.err = "ok" /\ call # "equals" /\ ~all' THEN "oom" ELSE f.err
            /\ call = "dup" => f.err # "ok"
        BY <1>1, <2>5
      <3>2. AnswersContent'
        <4>1. CASE call = "length"
          <5>1. all'
            BY <1>2, <1>3, <1>7, <1>10, <2>1, <2>3, <4>1 DEF CallInv, WalkInv, OnWay
          <5> QED
            BY <1>1, <1>4, <1>7, <1>10, <3>1, <4>1, <5>1 DEF AnswersContent
        <4>2. CASE call = "copy"
          BY <1>1, <1>4, <1>7, <1>10, <2>3, <3>1, <4>2 DEF AnswersContent, Begins
        <4>3. CASE call = "dup"
          BY <1>1, <1>4, <1>7, <1>10, <3>1, <4>3 DEF AnswersContent
        <4>4. CASE call = "dup_copy"
          <5>1. total <= capacity /\ After.err = "ok"
            BY <1>2, <1>3, <1>7, <1>10, <4>4 DEF CallInv
          <5> QED
            BY <1>1, <1>4, <1>7, <1>10, <2>3, <3>1, <4>4, <5>1 DEF AnswersContent, Begins
        <4>5. CASE call = "equals"
          BY <1>1, <4>5 DEF AnswersContent
        <4> QED
          BY <1>2, <4>1, <4>2, <4>3, <4>4, <4>5
      <3>3. RefusesMalformed'
        BY <1>4, <1>7, <1>10 DEF RefusesMalformed
      <3>4. EqualsExact'
        <4> SUFFICES ASSUME call = "equals" PROVE EqualsExact'
          BY <1>1 DEF EqualsExact
        <4>1. Kind = "text"
          BY <2>1 DEF WalkInv
        <4> QED
          BY <1>1, <1>4, <1>5, <1>7, <1>10, <2>3, <3>1, <4>1 DEF EqualsExact
      <3>5. NextExact'
        BY <2>2 DEF NextExact
      <3> QED
        BY <1>4, <1>8, <3>1, <3>2, <3>3, <3>4, <3>5 DEF AnswersInv, AnswerExact
    <2> QED
      BY <2>4, <2>5
  <1> QED
    BY <1>9, <1>10

LEMMA DupFailsAnswers ==
  ASSUME StringsInv, AnswersInv, DupCannotAllocate PROVE AnswersInv'
  <1>1. /\ step = "measured" /\ step' = "done"
        /\ answer' = [err |-> "oom", buflen |-> total + 1, result |-> FALSE]
        /\ UNCHANGED source /\ call' = call /\ capacity' = capacity /\ memory' = memory
        /\ next' = next
    BY DEF DupCannotAllocate, Return
  <1>2. buf \in Seq(Byte) /\ call = "dup"
    BY <1>1 DEF StringsInv, ValueInv, PlaceInv
  <1>3. /\ HeadRead(value) /\ CallInv /\ total = Len(Content) /\ HandedBack
        /\ WellFormed /\ After.err = "ok"
    BY <1>1 DEF AnswersInv, CallInv
  <1>4. /\ HeadRead(value)' /\ buf' = buf
        /\ Content' = Content /\ WellFormed' /\ After' = After
    BY <1>1, <1>2, <1>3, ContractStays
  <1>5. CallInv'
    BY <1>1, <1>2, <1>3, <1>4 DEF CallInv
  <1>6. HandedBack'
    BY <1>1, <1>3, <1>4 DEF HandedBack, None
  <1>7. AnswerExact' /\ EqualsExact' /\ NextExact'
    BY <1>1, <1>2, <1>3, <1>4, <1>6
       DEF AnswerExact, AnswersContent, RefusesMalformed, EqualsExact, NextExact
  <1> QED
    BY <1>1, <1>4, <1>5, <1>7 DEF AnswersInv

LEMMA AnswersStay ==
  ASSUME StringsInv, AnswersInv, UNCHANGED vars PROVE AnswersInv'
  <1>1. /\ UNCHANGED source /\ it' = it /\ total' = total /\ step' = step /\ call' = call
        /\ capacity' = capacity /\ memory' = memory /\ all' = all /\ answer' = answer
        /\ next' = next /\ buf \in Seq(Byte) /\ HeadRead(value)
    BY DEF vars, source, StringsInv, ValueInv, AnswersInv
  <1>2. /\ buf' = buf /\ reader' = reader /\ value' = value
        /\ TagsEnd' = TagsEnd /\ StringAt' = StringAt
        /\ Kind' = Kind /\ (WellFormed' <=> WellFormed)
        /\ Content' = Content /\ After' = After /\ HeadRead(value)'
    BY <1>1, ContractStays
  <1>3. CallInv'
    BY <1>1, <1>2 DEF AnswersInv, CallInv, None
  <1>4. TagsInv => TagsInv'
    <2>1. HeadRead(it) => HeadRead(it)'
      <3>1. PICK c : c = it
        OBVIOUS
      <3> QED
        BY <1>1, <1>2, <3>1, HeadReadStays
    <2> QED
      BY <1>1, <1>2, <2>1 DEF TagsInv
  <1>5. WalkInv => WalkInv'
    <2>1. OnWay(it, total) => OnWay(it, total)'
      <3>1. PICK c : c = it
        OBVIOUS
      <3>2. PICK n : n = total
        OBVIOUS
      <3> QED
        BY <1>1, <3>1, <3>2, OnWayStays
    <2>2. Agrees(total)' <=> Agrees(total)
      BY <1>1, <1>2 DEF Agrees
    <2> QED
      BY <1>1, <1>2, <2>1, <2>2 DEF WalkInv, SameSight
  <1>6. HandedBack' <=> HandedBack
    BY <1>1, <1>2 DEF HandedBack, None
  <1>7. OneWalk' <=> OneWalk
    BY <1>1, <1>2 DEF OneWalk
  <1>8. (AnswerExact <=> AnswerExact') /\ (EqualsExact <=> EqualsExact')
        /\ (NextExact <=> NextExact')
    BY <1>1, <1>2, <1>6, <1>7
       DEF AnswerExact, AnswersContent, RefusesMalformed, EqualsExact, NextExact, Begins
  <1> QED
    BY <1>1, <1>2, <1>3, <1>4, <1>5, <1>6, <1>7, <1>8 DEF AnswersInv

LEMMA AnswersInit == Init => AnswersInv
  <1> SUFFICES ASSUME Init PROVE AnswersInv
    OBVIOUS
  <1>1. /\ buf \in Seq(Byte) /\ FirstItem.err = "ok" /\ value = FirstItem.it
        /\ value.type \in StringMajors \cup {"tag"}
        /\ call = "none" /\ step = "idle" /\ next = None
    BY CursorAssumption DEF Init
  <1>2. value.type # "invalid"
    BY <1>1 DEF StringMajors
  <1>3. HeadRead(value)
    BY <1>1, <1>2, FirstItemRead
  <1> QED
    BY <1>1, <1>3 DEF AnswersInv, CallInv

LEMMA AnswersStep == StringsInv /\ AnswersInv /\ [Next]_vars => AnswersInv'
  <1> SUFFICES ASSUME StringsInv, AnswersInv, [Next]_vars PROVE AnswersInv'
    OBVIOUS
  <1>1. CASE UNCHANGED vars
    BY <1>1, AnswersStay
  <1>2. CASE CalculateLength \/ CopyString \/ DupString
    BY <1>2, CallAnswers
  <1>3. CASE TextStringEquals
    BY <1>3, TextEqualsAnswers
  <1>4. CASE Chunk
    BY <1>4, ChunkAnswers
  <1>5. CASE EndOfString
    BY <1>5, EndOfStringAnswers
  <1>6. CASE BadChunk
    BY <1>6, BadChunkAnswers
  <1>7. CASE DupAllocates
    BY <1>7, DupAllocatesAnswers
  <1>8. CASE DupCannotAllocate
    BY <1>8, DupFailsAnswers
  <1>9. CASE SkipTag
    BY <1>9, SkipTagAnswers
  <1>10. CASE CompareText
    BY <1>10, CompareAnswers
  <1>11. CASE NotText
    BY <1>11, NotTextAnswers
  <1> QED
    BY <1>1, <1>2, <1>3, <1>4, <1>5, <1>6, <1>7, <1>8, <1>9, <1>10, <1>11 DEF Next

LEMMA AnswersAlways == Spec => [](StringsInv /\ AnswersInv)
  <1>1. Init => StringsInv /\ AnswersInv
    BY InitStep, AnswersInit
  <1>2. StringsInv /\ AnswersInv /\ [Next]_vars => (StringsInv /\ AnswersInv)'
    BY StepInv, AnswersStep
  <1> QED
    BY <1>1, <1>2, PTL DEF Spec

(* iterate_string_chunks and the calls over it: whatever the document,     *)
(* definite or chunked, the length reported is that of all the chunks of   *)
(* the string, what is copied or duplicated is their content and its NUL,  *)
(* a buffer too small is told the true length, and a malformed string is   *)
(* refused.                                                                *)
THEOREM StringsAnswerExact == Spec => []AnswerExact
  <1>1. AnswersInv => AnswerExact
    BY DEF AnswersInv, AnswerExact, AnswersContent, RefusesMalformed
  <1> QED
    BY <1>1, AnswersAlways, PTL

(* cbor_value_text_string_equals: for every expected string, in however    *)
(* many chunks and behind however many tags the text comes, the comparison *)
(* says equal only and always when the content is the expected bytes.      *)
THEOREM StringsEqualsExact == Spec => []EqualsExact
  <1>1. AnswersInv => EqualsExact
    BY DEF AnswersInv, EqualsExact
  <1> QED
    BY <1>1, AnswersAlways, PTL

(* hand_back: the cursor a copy or a duplication returns stands where      *)
(* advancing over the string leads.                                        *)
THEOREM StringsNextExact == Spec => []NextExact
  <1>1. AnswersInv => NextExact
    BY DEF AnswersInv, NextExact
  <1> QED
    BY <1>1, AnswersAlways, PTL
=============================================================================
