----------------------------- MODULE SizeLedger -----------------------------
(***************************************************************************)
(* What the buffer encoder promises its caller, without a buffer: a ledger *)
(* of how many bytes the document takes so far and which containers are    *)
(* open.  A call is answered "oom" exactly when the document no longer     *)
(* fits the caller's room, and closing a container compares the items put  *)
(* in it with the number announced.  The encoder of module Encoder is      *)
(* shown to implement it.                                                  *)
(***************************************************************************)
EXTENDS Integers, Sequences

CONSTANTS
  MaxDemand,    \* bound of the model: bytes demanded in one behaviour
  Slots,        \* item counts a container may be announced with
  Refusals      \* answers to calls that are refused before any byte

VARIABLES
  room,     \* bytes of the caller's buffer
  total,    \* bytes the document takes so far
  open,     \* the open containers, innermost last: [slots, items, counted]
  verdict   \* the answer to the last call

ledgerVars == << room, total, open, verdict >>

Judge(bytes) == IF bytes > room THEN "oom" ELSE "ok"

(* One more item in the innermost open container; none at the top level. *)
Counted(frames) ==
  IF frames = << >> THEN frames
  ELSE [frames EXCEPT ![Len(frames)].items = @ + 1]

Init ==
  /\ room \in Nat
  /\ total = 0
  /\ open = << >>
  /\ verdict = "ok"

(* An item (or, uncounted, a tag or spliced bytes) of n bytes. *)
Put(n, counts) ==
  /\ total + n <= MaxDemand
  /\ total' = total + n
  /\ open' = IF counts THEN Counted(open) ELSE open
  /\ verdict' = Judge(total + n)
  /\ UNCHANGED room

Refuse ==
  /\ verdict' \in Refusals
  /\ UNCHANGED << room, total, open >>

Open(n, slots, counted) ==
  /\ total + n <= MaxDemand
  /\ total' = total + n
  /\ open' = Append(Counted(open), [slots |-> slots, items |-> 0, counted |-> counted])
  /\ verdict' = Judge(total + n)
  /\ UNCHANGED room

Top == open[Len(open)]

(* A container of announced length: no bytes, the count is the verdict. *)
CloseCounted ==
  /\ open # << >> /\ Top.counted
  /\ open' = SubSeq(open, 1, Len(open) - 1)
  /\ verdict' = IF Top.items > Top.slots THEN "too_many"
                ELSE IF Top.items < Top.slots THEN "too_few"
                ELSE Judge(total)
  /\ UNCHANGED << room, total >>

(* A container of unknown length: one break byte, any number of items. *)
CloseUncounted ==
  /\ open # << >> /\ ~Top.counted
  /\ total + 1 <= MaxDemand
  /\ total' = total + 1
  /\ open' = SubSeq(open, 1, Len(open) - 1)
  /\ verdict' = Judge(total + 1)
  /\ UNCHANGED room

Next ==
  \/ \E n \in 0 .. MaxDemand, counts \in BOOLEAN : Put(n, counts)
  \/ Refuse
  \/ \E n \in 1 .. MaxDemand, slots \in Slots, counted \in BOOLEAN : Open(n, slots, counted)
  \/ CloseCounted
  \/ CloseUncounted

Spec == Init /\ [][Next]_ledgerVars
=============================================================================
