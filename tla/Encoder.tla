------------------------------- MODULE Encoder -------------------------------
(***************************************************************************)
(* The encoder of cbor-ffi/src/encoder.rs: a CborEncoder per open          *)
(* container, the innermost one writing into the caller's buffer or        *)
(* handing bytes to the caller's writer.  When the buffer overruns, `end`  *)
(* drops to NULL and `data` turns from a cursor into a count of the bytes  *)
(* still wanting, which the caller reads to size a second pass.            *)
(*                                                                         *)
(* Bytes are abstracted to their number.  The client follows the one rule  *)
(* the API states: write to the child while it is open, to the parent      *)
(* after it is closed.                                                     *)
(***************************************************************************)
EXTENDS CborHead, Sequences

CONSTANTS
  Buffers,       \* the [base, size] a caller may hand to cbor_encoder_init
  Tokens,        \* the tokens a caller may hand to cbor_encoder_init_writer
  Writes,        \* what a writer callback may return
  Word,          \* usize counts modulo Word (2^64)
  Lengths,       \* lengths announced for containers and payloads
  HeadLengths,   \* lengths of the heads of scalars and tags
  MaxDemand,     \* bound of the model: bytes demanded in one behaviour
  MaxDepth       \* bound of the model: containers open at once

NULL == 0

ASSUME BuffersAssumption ==
  /\ Buffers \subseteq [base : Nat, size : Nat]
  /\ \A b \in Buffers : b.base = NULL => b.size = 0
  /\ Tokens \subseteq Nat
ASSUME WritesAssumption == "ok" \in Writes
ASSUME LengthsAssumption ==
  /\ Word \in Nat /\ Word > 1
  /\ Lengths \subseteq 0 .. Word - 1
  /\ HeadLengths \subseteq Nat \ {0}
  /\ MaxDemand \in Nat /\ MaxDepth \in Nat

VARIABLES
  buffer,     \* what the caller handed to init
  encoders,   \* one CborEncoder per open container, the root first
  top,        \* one past the highest address of the buffer written so far
  ret,        \* what the last call returned
  handed,     \* what the writer callbacks of the last call returned
  demanded,   \* history: bytes the client has asked for
  open        \* history: [slots, items, counted] of each open container

vars == << buffer, encoders, top, ret, handed, demanded, open >>

(* A CborEncoder; the booleans are its flags. *)
EncoderRecord ==
  [data : Nat, end : Nat, remaining : Nat,
   map : BOOLEAN, unknown : BOOLEAN, writer : BOOLEAN]

UnknownItems == Word - 1     \* CborIndefiniteLength
WrapAdd(a, b) == IF a + b < Word THEN a + b ELSE a + b - Word

Counting(e) == e.end = NULL
WouldOverflow_OffByOne(e, len) == e.end - e.data - len < -1
WouldOverflow(e, len) == e.end - e.data - len < 0
Advance(e, n) == [e EXCEPT !.data = @ + n]

Decrement_Unsaturated(e) == [e EXCEPT !.remaining = @ - 1]
SaturatedDecrement(e) == [e EXCEPT !.remaining = IF @ # 0 THEN @ - 1 ELSE @]

-----------------------------------------------------------------------------
(* append(): what becomes of the encoder, of the buffer's high-water mark, *)
(* and the error returned.  `answer` is what the writer would say.         *)

(* The overrun: what fitted is deducted and the cursor becomes a count. *)
Overrun_KeepsFitted(e, len) ==
  IF Counting(e) THEN Advance(e, len)
  ELSE Advance([e EXCEPT !.end = NULL, !.data = NULL], len)
Overrun(e, len) ==
  IF Counting(e) THEN Advance(e, len)
  ELSE Advance([e EXCEPT !.end = NULL, !.data = NULL], len - (e.end - e.data))

AppendBytes(e, high, len, answer) ==
  IF e.writer
  THEN [encoder |-> e, high |-> high, err |-> answer]
  ELSE IF WouldOverflow(e, len)
  THEN [encoder |-> Overrun(e, len), high |-> high, err |-> "oom"]
  ELSE [encoder |-> Advance(e, len),
        high |-> IF len = 0 THEN high ELSE e.data + len, err |-> "ok"]

Innermost == encoders[Len(encoders)]
WithInnermost(e) == [encoders EXCEPT ![Len(encoders)] = e]

CountItem ==
  IF open = << >> THEN open ELSE [open EXCEPT ![Len(open)].items = @ + 1]

(* A call that appends one run of n bytes for encoder e. *)
AppendOne(e, n, answer) ==
  LET a == AppendBytes(e, top, n, answer)
  IN  /\ demanded + n <= MaxDemand
      /\ demanded' = demanded + n
      /\ encoders' = WithInnermost(a.encoder)
      /\ top' = a.high
      /\ ret' = a.err
      /\ handed' = IF e.writer THEN << answer >> ELSE << >>
      /\ UNCHANGED buffer

-----------------------------------------------------------------------------
(* Unsigned, negative, simple, floating point: one head of n bytes. *)
EncodeNumber(n, answer) ==
  /\ AppendOne(SaturatedDecrement(Innermost), n, answer)
  /\ open' = CountItem

(* A simple value 25..31 is refused before anything happens. *)
RefuseSimpleValue ==
  /\ ret' = "illegal_simple_type"
  /\ handed' = << >>
  /\ UNCHANGED << buffer, encoders, top, demanded, open >>

(* A tag is a prefix, spliced bytes are not counted: no item either way. *)
EncodeTag(n, answer) ==
  /\ AppendOne(Innermost, n, answer)
  /\ UNCHANGED open

EncodeRaw(n, answer) ==
  /\ AppendOne(Innermost, n, answer)
  /\ UNCHANGED open

(* The head, then the payload; only an out-of-memory head lets it go on. *)
GoesOn_Always(err) == TRUE
GoesOn(err) == err \in {"ok", "oom"}

EncodeString(n, answer, second) ==
  LET head == AppendBytes(SaturatedDecrement(Innermost), top, HeadSize(n), answer)
      body == AppendBytes(head.encoder, head.high, n, second)
      last == IF GoesOn(head.err) THEN body ELSE head
  IN  /\ demanded + HeadSize(n) + n <= MaxDemand
      /\ demanded' = demanded + HeadSize(n) + n
      /\ encoders' = WithInnermost(last.encoder)
      /\ top' = last.high
      /\ ret' = last.err
      /\ handed' = IF ~Innermost.writer THEN << >>
                   ELSE IF GoesOn(head.err) THEN << answer, second >>
                   ELSE << answer >>
      /\ open' = CountItem
      /\ UNCHANGED buffer

(* `remaining` of a new container: its items and one for itself. *)
ItemsOwed_EntriesOnly(map, length) == WrapAdd(length, 1)
ItemsOwed(map, length) ==
  IF map /\ length # UnknownItems
  THEN WrapAdd(WrapAdd(length, 1), length)
  ELSE WrapAdd(length, 1)

(* What the client has promised: a map takes two items per entry. *)
SlotsOf(map, length) ==
  IF length = UnknownItems THEN 0 ELSE IF map THEN 2 * length ELSE length

(* container.flags |= parent.flags & WRITER_FUNCTION *)
Inherited_Never(parent) == FALSE
Inherited(parent) == parent.writer

(* The child starts from the parent's cursor, which it leaves untouched. *)
CreateContainer(map, length, answer) ==
  LET n == IF length = UnknownItems THEN 1 ELSE HeadSize(length)
      child == [data |-> Innermost.data, end |-> Innermost.end,
                remaining |-> ItemsOwed(map, length),
                map |-> map, unknown |-> length = UnknownItems,
                writer |-> Inherited(Innermost)]
      a == AppendBytes(child, top, n, answer)
  IN  /\ Len(encoders) <= MaxDepth
      /\ demanded + n <= MaxDemand
      /\ demanded' = demanded + n
      /\ encoders' = Append(WithInnermost(SaturatedDecrement(Innermost)), a.encoder)
      /\ top' = a.high
      /\ ret' = a.err
      /\ handed' = IF a.encoder.writer THEN << answer >> ELSE << >>
      /\ open' = Append(CountItem, [slots |-> SlotsOf(map, length), items |-> 0,
                                    counted |-> length # UnknownItems])
      /\ UNCHANGED buffer

(* The parent takes the child's cursor back. *)
Parent_KeepsEnd == [encoders[Len(encoders) - 1] EXCEPT !.data = Innermost.data]
Parent == [encoders[Len(encoders) - 1] EXCEPT !.data = Innermost.data,
                                              !.end = Innermost.end]
Closed(parent) ==
  [SubSeq(encoders, 1, Len(encoders) - 1) EXCEPT ![Len(encoders) - 1] = parent]

CloseUnknown(answer) ==
  LET a == AppendBytes(Parent, top, 1, answer)
  IN  /\ Len(encoders) > 1 /\ Innermost.unknown
      /\ demanded + 1 <= MaxDemand
      /\ demanded' = demanded + 1
      /\ encoders' = Closed(a.encoder)
      /\ top' = a.high
      /\ ret' = a.err
      /\ handed' = IF a.encoder.writer THEN << answer >> ELSE << >>
      /\ open' = SubSeq(open, 1, Len(open) - 1)
      /\ UNCHANGED buffer

CountVerdict_RoomFirst(child, parent) ==
  IF Counting(parent) THEN "oom"
  ELSE IF child.remaining = 0 THEN "too_many"
  ELSE IF child.remaining # 1 THEN "too_few"
  ELSE "ok"
CountVerdict(child, parent) ==
  IF child.remaining = 0 THEN "too_many"
  ELSE IF child.remaining # 1 THEN "too_few"
  ELSE IF Counting(parent) THEN "oom"
  ELSE "ok"

CloseCounted ==
  /\ Len(encoders) > 1 /\ ~Innermost.unknown
  /\ encoders' = Closed(Parent)
  /\ ret' = CountVerdict(Innermost, Parent)
  /\ handed' = << >>
  /\ open' = SubSeq(open, 1, Len(open) - 1)
  /\ UNCHANGED << buffer, top, demanded >>

-----------------------------------------------------------------------------
Root(data, end, writer) ==
  [data |-> data, end |-> end, remaining |-> 2,
   map |-> FALSE, unknown |-> FALSE, writer |-> writer]

Fresh ==
  /\ ret = "ok" /\ handed = << >>
  /\ demanded = 0 /\ open = << >>

(* cbor_encoder_init *)
BufferInit ==
  /\ buffer \in Buffers
  /\ encoders = << Root(buffer.base, buffer.base + buffer.size, FALSE) >>
  /\ top = buffer.base
  /\ Fresh

(* cbor_encoder_init_writer: `data` is the callback, `end` its token. *)
WriterInit ==
  /\ buffer = [base |-> NULL, size |-> 0]
  /\ \E token \in Tokens : encoders = << Root(NULL, token, TRUE) >>
  /\ top = NULL
  /\ Fresh

Answers == IF Innermost.writer THEN Writes ELSE {"ok"}

Next ==
  \/ \E n \in HeadLengths, answer \in Answers : EncodeNumber(n, answer)
  \/ RefuseSimpleValue
  \/ \E n \in HeadLengths, answer \in Answers : EncodeTag(n, answer)
  \/ \E n \in Lengths, answer \in Answers : EncodeRaw(n, answer)
  \/ \E n \in Lengths, answer, second \in Answers : EncodeString(n, answer, second)
  \/ \E map \in BOOLEAN, length \in Lengths, answer \in Answers :
        CreateContainer(map, length, answer)
  \/ \E answer \in Answers : CloseUnknown(answer)
  \/ CloseCounted

BufferSpec == BufferInit /\ [][Next]_vars
WriterSpec == WriterInit /\ [][Next]_vars

(* An encoder of either kind: the kind is the one of the init called.      *)
Spec == (BufferInit \/ WriterInit) /\ [][Next]_vars

-----------------------------------------------------------------------------
(* The types of the state, and one CborEncoder per open container besides  *)
(* the root's.                                                             *)
TypeOK ==
  /\ buffer \in [base : Nat, size : Nat]
  /\ encoders \in Seq(EncoderRecord)
  /\ top \in Nat /\ demanded \in Nat
  /\ open \in Seq([slots : Nat, items : Nat, counted : BOOLEAN])
  /\ Len(encoders) = Len(open) + 1

(* Sizing a second pass: cbor_encoder_get_extra_bytes_needed, the count in *)
(* `data` once `end` is NULL, is exactly what the document exceeds the     *)
(* buffer by, and until then the cursor is exactly as far as the document  *)
(* is long, however the overrun fell between nested encoders.              *)
ShortfallExact ==
  ~Innermost.writer =>
    IF Counting(Innermost)
    THEN buffer.size + Innermost.data = demanded
    ELSE Innermost.data = buffer.base + demanded /\ demanded <= buffer.size

(* append() never writes outside the caller's buffer, and leaves no gap:   *)
(* while the cursor is live the bytes written are exactly those asked for. *)
WrittenInPlace ==
  /\ buffer.base <= top /\ top <= buffer.base + buffer.size
  /\ ~Innermost.writer /\ ~Counting(Innermost) => top = Innermost.data

(* Once a call has overrun, the prefix already written is final: no later  *)
(* call, and no closing of a container opened before, writes again or      *)
(* revives a cursor.                                                       *)
PrefixFinal ==
  [][~Innermost.writer /\ Counting(Innermost)
       => top' = top /\ Counting(Innermost')]_vars

(* Every open container, not only the innermost, still owes exactly the    *)
(* items its client has yet to write, plus one; an over-full one sticks at *)
(* zero (saturated_decrement) instead of wrapping to a huge debt.          *)
ItemsOwedExact ==
  \A i \in 1 .. Len(open) :
    open[i].counted =>
      encoders[i + 1].remaining =
        IF open[i].items > open[i].slots THEN 0 ELSE open[i].slots - open[i].items + 1

(* With a writer callback, out-of-memory is the callback's word: no call   *)
(* reports it unless a callback returned it ("counting" is for buffers).   *)
OomIsTheWriters ==
  [][Innermost.writer /\ ret' = "oom" => \E i \in DOMAIN handed' : handed'[i] = "oom"]_vars

(* A callback's error is the call's error, and no further run of bytes is  *)
(* handed over once a callback has refused one, out-of-memory apart.       *)
WriterHasLastWord ==
  [][Innermost.writer /\ handed' # << >> =>
       /\ ret' = handed'[Len(handed')]
       /\ \A i \in 1 .. Len(handed') - 1 : handed'[i] \in {"ok", "oom"}]_vars

(* The abstract ledger, seen through the cursor or the count. *)
Total == IF Counting(Innermost) THEN buffer.size + Innermost.data
                                ELSE Innermost.data - buffer.base
Ledger == INSTANCE SizeLedger WITH
  room <- buffer.size, total <- Total, verdict <- ret,
  Slots <- {SlotsOf(map, length) : map \in BOOLEAN, length \in Lengths},
  Refusals <- {"illegal_simple_type"}

(* The buffer encoder answers every call as the ledger does: out-of-memory *)
(* exactly when the whole document exceeds the room, and item counts       *)
(* exactly as announced and written.  This is Ledger!Spec but for the      *)
(* steps of an encoder with a callback, whose answers are the callback's.  *)
ImplementsLedger ==
  Ledger!Init /\ [][Innermost.writer \/ Ledger!Next]_(Ledger!ledgerVars)
=============================================================================
