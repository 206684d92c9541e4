--------------------------- MODULE StringsContract ---------------------------
(***************************************************************************)
(* What the string calls promise, stated with the content of the client's  *)
(* string as the grammar has it: Strings against the bytes themselves.     *)
(***************************************************************************)
EXTENDS Strings, Grammar

StringAt == TagsEnd[value.ptr]
Kind == IF StringAt < Limit THEN MajorOf(buf[StringAt]) ELSE "invalid"
WellFormed == Kind \in StringMajors /\ ItemEnd(StringAt, Unlimited) # Malformed

(* The content of the definite string at q, and that of all the chunks     *)
(* from q on.                                                              *)
Payload(q) == SubSeq(buf, q + HeadLength(q), StringEnd(q) - 1)
Chunks[q \in 1 .. Limit] ==
  IF PlainHead(q) /\ StringEnd(q) # Malformed THEN Payload(q) \o Chunks[StringEnd(q)]
  ELSE << >>

Content == IF PlainHead(StringAt) THEN Payload(StringAt) ELSE Chunks[StringAt + 1]

(* What the client finds past the string. *)
After == PreparseNext([value EXCEPT !.type = Kind, !.ptr = ItemEnd(StringAt, Unlimited)])

-----------------------------------------------------------------------------
Begins(bytes) == SubSeq(memory, 1, Len(bytes)) = bytes

(* A call on a well-formed string answers by its content: the length of    *)
(* all its chunks, a copy if it fits and its true length if it does not,   *)
(* with a NUL only where there is room beyond it, a duplicate with its     *)
(* NUL.  What comes after the string may still be an error.                *)
AnswersContent ==
  step = "done" /\ WellFormed /\ OneWalk /\ call # "equals" =>
    LET n == Len(Content)
    IN  CASE call = "length" -> answer.err = After.err /\ answer.buflen = n
          [] call = "copy" ->
               /\ answer.buflen = n
               /\ answer.err = IF After.err # "ok" THEN After.err
                               ELSE IF n <= capacity THEN "ok" ELSE "oom"
               /\ n <= capacity => Begins(Content)
               /\ n < capacity => memory[n + 1] = 0
          [] call = "dup" ->
               IF After.err # "ok" THEN answer.err = After.err
               ELSE answer.err = "oom" /\ answer.buflen = n + 1
          [] call = "dup_copy" ->
               answer.err = "ok" /\ answer.buflen = n /\ Begins(Append(Content, 0))

(* A call on a malformed string is refused, however far it got; so is a    *)
(* comparison where tags lead to no item.                                  *)
RefusesMalformed ==
  step = "done" /\ ~WellFormed /\ (call = "equals" => Kind \in {"text", "tag", "invalid"}) =>
    answer.err \notin {"ok", "oom"}

AnswerExact == AnswersContent /\ RefusesMalformed

(* A string equals the expected one only if they are the same: a prefix of *)
(* it is shorter by its NUL, in however many chunks the content comes, and *)
(* a byte string or an item that is no string equals nothing.  Nothing but *)
(* what comes after a well-formed text makes the comparison fail.          *)
EqualsExact ==
  step = "done" /\ call = "equals" =>
    /\ WellFormed /\ Kind = "text" => answer.err = After.err
    /\ answer.err = "ok" =>
         (answer.result <=> /\ WellFormed /\ Kind = "text"
                            /\ Content = SubSeq(memory, 1, capacity))

(* The cursor handed back stands where advancing over the string would.    *)
HandedBack ==
  next # None =>
    /\ next[1].ptr = After.it.ptr /\ next[1].remaining = After.it.remaining
    /\ next[1].type = After.it.type /\ next[1].unknown = After.it.unknown
NextExact == step = "done" /\ WellFormed /\ OneWalk => HandedBack
=============================================================================
