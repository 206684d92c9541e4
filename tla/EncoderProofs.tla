---------------------------- MODULE EncoderProofs ----------------------------
(***************************************************************************)
(* Proofs about the encoder for every buffer, every usize, every set of    *)
(* lengths and every bound of the model.                                   *)
(*                                                                         *)
(* ShortfallExact is not inductive alone: that an overrun is detected at   *)
(* all rests on the live cursor being paired with the true end of the      *)
(* buffer, and that a later close revives nothing on the innermost encoder *)
(* being the only one whose cursor is meaningful.  Sound states this of    *)
(* one encoder, and AppendSound that append() preserves it; every          *)
(* operation is one or two appends on the innermost encoder, its parent    *)
(* after a close or its child after a create.                              *)
(*                                                                         *)
(* That the buffer encoder implements SizeLedger needs beyond this the     *)
(* item debts of every open container (OwedInv), and one thing the code    *)
(* does not check: that an announced map length, doubled, still counts     *)
(* below usize (NoCountWraps).                                             *)
(***************************************************************************)
EXTENDS Encoder, SequenceTheorems, TLAPS

(* Encoder e, whose buffer has been written up to `high`, stands at byte d *)
(* of the document.  It counts from nothing only at the very start, when   *)
(* the buffer is the (NULL, 0) of a sizing pass.                           *)
Sound(e, high, d) ==
  /\ e \in EncoderRecord /\ ~e.writer
  /\ high \in Nat /\ buffer.base <= high /\ high <= buffer.base + buffer.size
  /\ IF Counting(e)
     THEN buffer.size + e.data = d /\ (e.data = 0 => d = 0)
     ELSE /\ e.end = buffer.base + buffer.size
          /\ e.data = buffer.base + d /\ d <= buffer.size
          /\ high = e.data

(* The inductive invariant of the buffer encoder. *)
BufferInv ==
  /\ TypeOK
  /\ \A i \in 1 .. Len(encoders) : ~encoders[i].writer
  /\ Sound(Innermost, top, demanded)

USE DEF NULL

-----------------------------------------------------------------------------
LEMMA HeadSizePositive ==
  ASSUME NEW n PROVE HeadSize(n) \in Nat /\ HeadSize(n) > 0
  BY DEF HeadSize

LEMMA ItemsOwedType ==
  ASSUME NEW map \in BOOLEAN, NEW length \in Lengths PROVE ItemsOwed(map, length) \in Nat
  BY LengthsAssumption DEF ItemsOwed, WrapAdd

(* One append moves the document on by len bytes and answers "oom" exactly *)
(* when the document then exceeds the buffer.                              *)
LEMMA AppendSound ==
  ASSUME NEW e, NEW high, NEW d \in Nat, NEW len \in Nat, NEW answer,
         buffer \in [base : Nat, size : Nat], Sound(e, high, d)
  PROVE  LET a == AppendBytes(e, high, len, answer)
         IN  /\ Sound(a.encoder, a.high, d + len)
             /\ a.err = IF d + len > buffer.size THEN "oom" ELSE "ok"
             /\ Counting(e) => Counting(a.encoder) /\ a.high = high
             /\ a.encoder.remaining = e.remaining
             /\ a.encoder.unknown = e.unknown
  <1> DEFINE a == AppendBytes(e, high, len, answer)
  <1>1. e.data \in Nat /\ e.end \in Nat /\ e.writer = FALSE /\ high \in Nat
    BY DEF Sound, EncoderRecord
  <1>2. buffer.base \in Nat /\ buffer.size \in Nat
    OBVIOUS
  <1>3. CASE WouldOverflow(e, len) /\ Counting(e)
    <2>1. a = [encoder |-> [e EXCEPT !.data = @ + len], high |-> high, err |-> "oom"]
      BY <1>1, <1>3 DEF AppendBytes, Overrun, Advance
    <2>2. d + len > buffer.size
      BY <1>1, <1>2, <1>3 DEF Sound, WouldOverflow, Counting
    <2> QED
      BY <1>1, <1>2, <1>3, <2>1, <2>2 DEF Sound, Counting, EncoderRecord
  <1>4. CASE WouldOverflow(e, len) /\ ~Counting(e)
    <2> DEFINE short == len - (e.end - e.data)
               wiped == [e EXCEPT !.end = 0, !.data = 0]
    <2>1. d + len > buffer.size /\ short \in Nat /\ buffer.size + short = d + len
      BY <1>1, <1>2, <1>4 DEF Sound, WouldOverflow, Counting
    <2>2. a = [encoder |-> Advance(wiped, short), high |-> high, err |-> "oom"]
      BY <1>1, <1>4 DEF AppendBytes, Overrun
    <2> HIDE DEF short
    <2>3. wiped \in EncoderRecord /\ wiped.data = 0 /\ wiped.end = 0 /\ ~wiped.writer
          /\ wiped.remaining = e.remaining /\ wiped.unknown = e.unknown
      BY DEF EncoderRecord, Sound
    <2> HIDE DEF wiped
    <2>4. LET f == Advance(wiped, short)
          IN  /\ f \in EncoderRecord /\ f.data = short /\ f.end = 0 /\ ~f.writer
              /\ f.remaining = e.remaining /\ f.unknown = e.unknown
      BY <2>1, <2>3 DEF Advance, EncoderRecord
    <2> QED
      BY <1>1, <1>2, <1>4, <2>1, <2>2, <2>4 DEF Sound, Counting
  <1>5. CASE ~WouldOverflow(e, len)
    <2>1. a = [encoder |-> [e EXCEPT !.data = @ + len],
               high |-> IF len = 0 THEN high ELSE e.data + len, err |-> "ok"]
      BY <1>1, <1>5 DEF AppendBytes, Advance
    <2>2. d + len <= buffer.size /\ (Counting(e) => len = 0)
      BY <1>1, <1>2, <1>5 DEF Sound, WouldOverflow, Counting
    <2>3. Counting(e) => e.data = 0 /\ len = 0 /\ d = 0
      BY <1>1, <1>2, <1>5 DEF Sound, WouldOverflow, Counting
    <2> DEFINE f == [e EXCEPT !.data = @ + len]
    <2>4. /\ f \in EncoderRecord /\ f.data = e.data + len /\ f.end = e.end /\ ~f.writer
          /\ f.remaining = e.remaining /\ f.unknown = e.unknown
      BY <1>1 DEF EncoderRecord, Sound
    <2> HIDE DEF f
    <2>5. Sound(f, IF len = 0 THEN high ELSE e.data + len, d + len)
      BY <1>1, <1>2, <2>2, <2>3, <2>4 DEF Sound, Counting
    <2>6. Counting(e) => Counting(f) /\ (IF len = 0 THEN high ELSE e.data + len) = high
      BY <2>3, <2>4 DEF Counting
    <2>7. ~(d + len > buffer.size)
      BY <1>2, <2>2
    <2> HIDE DEF a
    <2>8. a = [encoder |-> f, high |-> IF len = 0 THEN high ELSE e.data + len, err |-> "ok"]
      BY <2>1 DEF f
    <2> QED
      BY <2>4, <2>5, <2>6, <2>7, <2>8 DEF a
  <1> QED
    BY <1>3, <1>4, <1>5

(* The innermost encoder of a stack, before and after its replacement. *)
LEMMA InnermostType ==
  ASSUME TypeOK
  PROVE  /\ Len(encoders) \in Nat \ {0}
         /\ Innermost \in EncoderRecord
         /\ Len(encoders) = Len(open) + 1
  BY ElementOfSeq, LenProperties DEF TypeOK, Innermost

LEMMA DecrementSound ==
  ASSUME NEW e, NEW high, NEW d, Sound(e, high, d)
  PROVE  LET f == SaturatedDecrement(e) IN Sound(f, high, d) /\ f.end = e.end /\ f.data = e.data
  BY DEF Sound, SaturatedDecrement, EncoderRecord, Counting

LEMMA CountItemType ==
  ASSUME open \in Seq([slots : Nat, items : Nat, counted : BOOLEAN])
  PROVE  /\ CountItem \in Seq([slots : Nat, items : Nat, counted : BOOLEAN])
         /\ Len(CountItem) = Len(open)
  <1> DEFINE S == [slots : Nat, items : Nat, counted : BOOLEAN]
  <1>1. CASE open = << >>
    BY <1>1 DEF CountItem
  <1>2. CASE open # << >>
    <2>1. Len(open) \in 1 .. Len(open) /\ open[Len(open)] \in S
      <3> open \in Seq(S)
        OBVIOUS
      <3> HIDE DEF S
      <3>1. Len(open) \in Nat \ {0}
        BY <1>2, EmptySeq
      <3> QED
        BY <3>1, ElementOfSeq
    <2> DEFINE last == [open[Len(open)] EXCEPT !.items = @ + 1]
    <2>2. last \in S
      BY <2>1
    <2>3. CountItem = [open EXCEPT ![Len(open)] = last]
      BY <1>2 DEF CountItem
    <2> HIDE DEF last
    <2> QED
      BY <2>1, <2>2, <2>3, ExceptSeq
  <1> QED
    BY <1>1, <1>2

(* Replacing the innermost encoder, taking a child's, adding one. *)
LEMMA WithInnermostSeq ==
  ASSUME TypeOK, NEW e \in EncoderRecord
  PROVE  LET s == WithInnermost(e)
         IN  /\ s \in Seq(EncoderRecord) /\ Len(s) = Len(encoders)
             /\ s[Len(s)] = e
             /\ \A i \in 1 .. Len(s) - 1 : s[i] = encoders[i]
  <1>1. encoders \in Seq(EncoderRecord) /\ Len(encoders) \in 1 .. Len(encoders)
    BY InnermostType DEF TypeOK
  <1> QED
    BY <1>1, ExceptSeq DEF WithInnermost

LEMMA ClosedSeq ==
  ASSUME TypeOK, Len(encoders) > 1, NEW e \in EncoderRecord
  PROVE  LET s == Closed(e)
         IN  /\ s \in Seq(EncoderRecord) /\ Len(s) = Len(encoders) - 1
             /\ s[Len(s)] = e
             /\ \A i \in 1 .. Len(s) - 1 : s[i] = encoders[i]
  <1> DEFINE n == Len(encoders) - 1
             t == SubSeq(encoders, 1, n)
  <1>1. encoders \in Seq(EncoderRecord) /\ n \in Nat /\ n >= 1
    BY InnermostType DEF TypeOK
  <1>2. \A i \in 1 .. n : encoders[i] \in EncoderRecord
    BY <1>1, ElementOfSeq
  <1>3. t \in Seq(EncoderRecord) /\ Len(t) = n /\ \A i \in 1 .. n : t[i] = encoders[i]
    BY <1>1, <1>2, SubSeqProperties
  <1>4. Closed(e) = [t EXCEPT ![n] = e] /\ n = Len(encoders) - 1
    BY DEF Closed
  <1> HIDE DEF t, n
  <1>5. n \in 1 .. Len(t)
    BY <1>1, <1>3
  <1>6. LET s == [t EXCEPT ![n] = e]
        IN  /\ s \in Seq(EncoderRecord) /\ Len(s) = n
            /\ \A i \in 1 .. n : s[i] = IF i = n THEN e ELSE t[i]
    BY <1>3, <1>5, ExceptSeq
  <1> QED
    BY <1>1, <1>3, <1>4, <1>6

-----------------------------------------------------------------------------
(* The step consumed n bytes of document, kept the invariant, and left the *)
(* buffer alone if it had already overrun.                                 *)
Consumes(n) ==
  /\ buffer' = buffer
  /\ demanded' = demanded + n
  /\ BufferInv'
  /\ Counting(Innermost) => Counting(Innermost') /\ top' = top

(* The step's answer is about the room only. *)
AnswersRoom == ret' = IF demanded' > buffer.size THEN "oom" ELSE "ok"

(* An action that ends with encoder f innermost, the encoders below it     *)
(* being as before except perhaps in `remaining`, keeps the invariant.     *)
LEMMA StackStep ==
  ASSUME BufferInv, NEW f, NEW n \in Nat,
         buffer' = buffer, demanded' = demanded + n,
         encoders' \in Seq(EncoderRecord), Len(encoders') \in Nat \ {0},
         encoders'[Len(encoders')] = f,
         \A i \in 1 .. Len(encoders') - 1 : ~encoders'[i].writer,
         open' \in Seq([slots : Nat, items : Nat, counted : BOOLEAN]),
         Len(encoders') = Len(open') + 1,
         Sound(f, top', demanded + n),
         Counting(Innermost) => Counting(f) /\ top' = top
  PROVE  Consumes(n)
  <1>1. Innermost' = f
    BY DEF Innermost
  <1>2. demanded' \in Nat /\ top' \in Nat /\ buffer' \in [base : Nat, size : Nat]
    BY DEF BufferInv, TypeOK, Sound
  <1>3. TypeOK'
    BY <1>2 DEF TypeOK
  <1>4. Sound(Innermost, top, demanded)'
    BY <1>1 DEF Sound, Counting
  <1>5. \A i \in 1 .. Len(encoders') : ~encoders'[i].writer
    BY DEF Sound
  <1> QED
    BY <1>1, <1>3, <1>4, <1>5 DEF Consumes, BufferInv

LEMMA AppendOneStep ==
  ASSUME BufferInv, NEW e, NEW n \in Nat, NEW answer,
         Sound(e, top, demanded), Counting(Innermost) => Counting(e),
         open' = open \/ open' = CountItem,
         AppendOne(e, n, answer)
  PROVE  Consumes(n) /\ AnswersRoom
  <1> DEFINE a == AppendBytes(e, top, n, answer)
  <1>1. TypeOK /\ demanded \in Nat /\ buffer \in [base : Nat, size : Nat]
    BY DEF BufferInv, TypeOK
  <1>2. /\ Sound(a.encoder, a.high, demanded + n)
        /\ a.err = IF demanded + n > buffer.size THEN "oom" ELSE "ok"
        /\ Counting(e) => Counting(a.encoder) /\ a.high = top
    BY <1>1, AppendSound
  <1>3. /\ demanded' = demanded + n /\ encoders' = WithInnermost(a.encoder)
        /\ top' = a.high /\ ret' = a.err /\ buffer' = buffer
    BY DEF AppendOne
  <1> HIDE DEF a
  <1>4. a.encoder \in EncoderRecord
    BY <1>2 DEF Sound
  <1>5. /\ encoders' \in Seq(EncoderRecord) /\ Len(encoders') = Len(encoders)
        /\ encoders'[Len(encoders')] = a.encoder
        /\ \A i \in 1 .. Len(encoders') - 1 : encoders'[i] = encoders[i]
    BY <1>1, <1>3, <1>4, WithInnermostSeq
  <1>6. /\ open' \in Seq([slots : Nat, items : Nat, counted : BOOLEAN])
        /\ Len(open') = Len(open)
    BY <1>1, CountItemType DEF TypeOK
  <1>7. Len(encoders) \in Nat \ {0} /\ Len(encoders) = Len(open) + 1
    BY <1>1, InnermostType
  <1>8. \A i \in 1 .. Len(encoders') - 1 : ~encoders'[i].writer
    BY <1>5, <1>7 DEF BufferInv
  <1>9. Consumes(n)
    BY <1>2, <1>3, <1>5, <1>6, <1>7, <1>8, StackStep
  <1> QED
    BY <1>2, <1>3, <1>9 DEF AnswersRoom

LEMMA InnermostSound ==
  ASSUME BufferInv
  PROVE  /\ Sound(Innermost, top, demanded)
         /\ Sound(SaturatedDecrement(Innermost), top, demanded)
         /\ Counting(Innermost) <=> Counting(SaturatedDecrement(Innermost))
  BY DecrementSound DEF BufferInv, Counting

LEMMA NumberStep ==
  ASSUME BufferInv, NEW n \in HeadLengths, NEW answer, EncodeNumber(n, answer)
  PROVE  Consumes(n) /\ AnswersRoom
  BY InnermostSound, LengthsAssumption, AppendOneStep DEF EncodeNumber

LEMMA UncountedStep ==
  ASSUME BufferInv, NEW n \in Nat, NEW answer, EncodeTag(n, answer) \/ EncodeRaw(n, answer)
  PROVE  Consumes(n) /\ AnswersRoom
  BY InnermostSound, AppendOneStep DEF EncodeTag, EncodeRaw

LEMMA StringStep ==
  ASSUME BufferInv, NEW n \in Lengths, NEW answer, NEW second,
         EncodeString(n, answer, second)
  PROVE  Consumes(HeadSize(n) + n) /\ AnswersRoom
  <1> DEFINE e == SaturatedDecrement(Innermost)
             h == AppendBytes(e, top, HeadSize(n), answer)
             b == AppendBytes(h.encoder, h.high, n, second)
  <1>1. /\ TypeOK /\ demanded \in Nat /\ buffer \in [base : Nat, size : Nat]
        /\ n \in Nat /\ HeadSize(n) \in Nat
    BY LengthsAssumption, HeadSizePositive DEF BufferInv, TypeOK
  <1>2. Sound(e, top, demanded) /\ (Counting(Innermost) <=> Counting(e))
    BY InnermostSound
  <1>3. /\ Sound(h.encoder, h.high, demanded + HeadSize(n))
        /\ h.err = IF demanded + HeadSize(n) > buffer.size THEN "oom" ELSE "ok"
        /\ Counting(e) => Counting(h.encoder) /\ h.high = top
    BY <1>1, <1>2, AppendSound
  <1>4. /\ demanded' = demanded + (HeadSize(n) + n) /\ encoders' = WithInnermost(b.encoder)
        /\ top' = b.high /\ ret' = b.err /\ buffer' = buffer /\ open' = CountItem
    BY <1>1, <1>3 DEF EncodeString, GoesOn
  <1> HIDE DEF e, h
  <1>5. /\ Sound(b.encoder, b.high, (demanded + HeadSize(n)) + n)
        /\ b.err = IF (demanded + HeadSize(n)) + n > buffer.size THEN "oom" ELSE "ok"
        /\ Counting(h.encoder) => Counting(b.encoder) /\ b.high = h.high
    BY <1>1, <1>3, AppendSound
  <1> HIDE DEF b
  <1>6. b.encoder \in EncoderRecord
    BY <1>5 DEF Sound
  <1>7. /\ encoders' \in Seq(EncoderRecord) /\ Len(encoders') = Len(encoders)
        /\ encoders'[Len(encoders')] = b.encoder
        /\ \A i \in 1 .. Len(encoders') - 1 : encoders'[i] = encoders[i]
    BY <1>1, <1>4, <1>6, WithInnermostSeq
  <1>8. /\ open' \in Seq([slots : Nat, items : Nat, counted : BOOLEAN])
        /\ Len(open') = Len(open)
    BY <1>1, <1>4, CountItemType DEF TypeOK
  <1>9. Len(encoders) \in Nat \ {0} /\ Len(encoders) = Len(open) + 1
    BY <1>1, InnermostType
  <1>10. \A i \in 1 .. Len(encoders') - 1 : ~encoders'[i].writer
    BY <1>7, <1>9 DEF BufferInv
  <1>11. (demanded + HeadSize(n)) + n = demanded + (HeadSize(n) + n)
         /\ HeadSize(n) + n \in Nat
    BY <1>1
  <1>12. Consumes(HeadSize(n) + n)
    BY <1>2, <1>3, <1>4, <1>5, <1>7, <1>8, <1>9, <1>10, <1>11, StackStep
  <1> QED
    BY <1>4, <1>5, <1>11, <1>12 DEF AnswersRoom

LEMMA CreateStep ==
  ASSUME BufferInv, NEW map \in BOOLEAN, NEW length \in Lengths, NEW answer,
         CreateContainer(map, length, answer)
  PROVE  /\ Consumes(IF length = UnknownItems THEN 1 ELSE HeadSize(length))
         /\ AnswersRoom
  <1> DEFINE n == IF length = UnknownItems THEN 1 ELSE HeadSize(length)
             child == [data |-> Innermost.data, end |-> Innermost.end,
                       remaining |-> ItemsOwed(map, length),
                       map |-> map, unknown |-> length = UnknownItems,
                       writer |-> Inherited(Innermost)]
             a == AppendBytes(child, top, n, answer)
             parent == SaturatedDecrement(Innermost)
             frame == [slots |-> SlotsOf(map, length), items |-> 0,
                       counted |-> length # UnknownItems]
             S == [slots : Nat, items : Nat, counted : BOOLEAN]
  <1>1. /\ TypeOK /\ demanded \in Nat /\ buffer \in [base : Nat, size : Nat]
        /\ n \in Nat /\ length \in Nat /\ Innermost \in EncoderRecord
    BY LengthsAssumption, HeadSizePositive, InnermostType DEF BufferInv, TypeOK
  <1>2. Sound(child, top, demanded) /\ (Counting(Innermost) <=> Counting(child))
    <2>1. child \in EncoderRecord /\ ~child.writer
      BY <1>1, ItemsOwedType, InnermostSound DEF EncoderRecord, Inherited, Sound
    <2> QED
      BY <2>1, InnermostSound DEF Sound, Counting
  <1>3. /\ Sound(a.encoder, a.high, demanded + n)
        /\ a.err = IF demanded + n > buffer.size THEN "oom" ELSE "ok"
        /\ Counting(child) => Counting(a.encoder) /\ a.high = top
    BY <1>1, <1>2, AppendSound
  <1>4. /\ demanded' = demanded + n /\ encoders' = Append(WithInnermost(parent), a.encoder)
        /\ top' = a.high /\ ret' = a.err /\ buffer' = buffer
        /\ open' = Append(CountItem, frame)
    BY DEF CreateContainer
  <1>5. frame \in S
    BY <1>1 DEF SlotsOf
  <1>6. parent \in EncoderRecord /\ a.encoder \in EncoderRecord /\ ~parent.writer
    BY <1>3, InnermostSound DEF Sound
  <1> HIDE DEF child, a, n, parent, frame
  <1>7. /\ Len(encoders) \in Nat \ {0} /\ Len(encoders) = Len(open) + 1
        /\ WithInnermost(parent) \in Seq(EncoderRecord)
        /\ Len(WithInnermost(parent)) = Len(encoders)
        /\ WithInnermost(parent)[Len(encoders)] = parent
        /\ \A i \in 1 .. Len(encoders) - 1 : WithInnermost(parent)[i] = encoders[i]
    BY <1>1, <1>6, InnermostType, WithInnermostSeq
  <1>8. /\ encoders' \in Seq(EncoderRecord) /\ Len(encoders') = Len(encoders) + 1
        /\ encoders'[Len(encoders')] = a.encoder
        /\ \A i \in 1 .. Len(encoders) : encoders'[i] = WithInnermost(parent)[i]
    BY <1>4, <1>6, <1>7, AppendProperties
  <1>9. open' \in Seq(S) /\ Len(open') = Len(open) + 1
    BY <1>1, <1>4, <1>5, CountItemType, AppendProperties DEF TypeOK
  <1>10. \A i \in 1 .. Len(encoders') - 1 : ~encoders'[i].writer
    BY <1>6, <1>7, <1>8 DEF BufferInv
  <1>13. /\ Len(encoders') \in Nat \ {0} /\ Len(encoders') = Len(open') + 1
         /\ Sound(a.encoder, top', demanded + n)
         /\ Counting(Innermost) => Counting(a.encoder) /\ top' = top
    BY <1>2, <1>3, <1>4, <1>7, <1>8, <1>9
  <1>11. Consumes(n)
    BY <1>1, <1>4, <1>8, <1>9, <1>10, <1>13, StackStep
  <1>12. AnswersRoom
    BY <1>3, <1>4 DEF AnswersRoom
  <1> QED
    BY <1>11, <1>12 DEF n

(* A close hands the child's cursor to the parent. *)
LEMMA ParentSound ==
  ASSUME BufferInv, Len(encoders) > 1
  PROVE  /\ Sound(Parent, top, demanded)
         /\ Counting(Innermost) <=> Counting(Parent)
  <1>1. encoders[Len(encoders) - 1] \in EncoderRecord /\ ~encoders[Len(encoders) - 1].writer
    BY InnermostType, ElementOfSeq DEF BufferInv, TypeOK
  <1>2. Innermost.data \in Nat /\ Innermost.end \in Nat
    BY InnermostType DEF BufferInv, EncoderRecord
  <1>3. /\ Parent \in EncoderRecord /\ ~Parent.writer
        /\ Parent.data = Innermost.data /\ Parent.end = Innermost.end
    BY <1>1, <1>2 DEF Parent, EncoderRecord
  <1> QED
    BY <1>3, InnermostSound DEF Sound, Counting

(* The stacks after a close. *)
LEMMA ClosedStacks ==
  ASSUME BufferInv, Len(encoders) > 1, NEW e \in EncoderRecord,
         encoders' = Closed(e), open' = SubSeq(open, 1, Len(open) - 1)
  PROVE  /\ encoders' \in Seq(EncoderRecord) /\ Len(encoders') \in Nat \ {0}
         /\ encoders'[Len(encoders')] = e
         /\ \A i \in 1 .. Len(encoders') - 1 : ~encoders'[i].writer
         /\ open' \in Seq([slots : Nat, items : Nat, counted : BOOLEAN])
         /\ Len(encoders') = Len(open') + 1
  <1> DEFINE S == [slots : Nat, items : Nat, counted : BOOLEAN]
  <1>1. /\ TypeOK /\ Len(encoders) \in Nat \ {0} /\ Len(encoders) = Len(open) + 1
        /\ open \in Seq(S) /\ Len(open) \in Nat
    BY InnermostType DEF BufferInv, TypeOK
  <1>2. /\ encoders' \in Seq(EncoderRecord) /\ Len(encoders') = Len(encoders) - 1
        /\ encoders'[Len(encoders')] = e
        /\ \A i \in 1 .. Len(encoders') - 1 : encoders'[i] = encoders[i]
    BY <1>1, ClosedSeq
  <1> HIDE DEF S
  <1>3. \A i \in 1 .. Len(open) - 1 : open[i] \in S
    BY <1>1, ElementOfSeq
  <1>4. open' \in Seq(S) /\ Len(open') = Len(open) - 1
    <2>1. Len(open) \in Nat /\ Len(open) >= 1 /\ 1 \in Int /\ Len(open) - 1 \in Int
      BY <1>1
    <2>2. /\ open' \in Seq(S)
          /\ Len(open') = IF 1 <= Len(open) - 1 THEN Len(open) - 1 - 1 + 1 ELSE 0
      BY <1>3, <2>1, SubSeqProperties
    <2>3. \A k \in Nat : k >= 1 => (IF 1 <= k - 1 THEN k - 1 - 1 + 1 ELSE 0) = k - 1
      OBVIOUS
    <2> QED
      BY <2>1, <2>2, <2>3, Zenon
  <1>5. \A i \in 1 .. Len(encoders') - 1 : ~encoders'[i].writer
    BY <1>1, <1>2 DEF BufferInv
  <1> QED
    BY <1>1, <1>2, <1>4, <1>5 DEF S

LEMMA CloseUnknownStep ==
  ASSUME BufferInv, NEW answer, CloseUnknown(answer)
  PROVE  Consumes(1) /\ AnswersRoom
  <1> DEFINE a == AppendBytes(Parent, top, 1, answer)
  <1>1. /\ Len(encoders) > 1 /\ demanded' = demanded + 1 /\ encoders' = Closed(a.encoder)
        /\ top' = a.high /\ ret' = a.err /\ buffer' = buffer
        /\ open' = SubSeq(open, 1, Len(open) - 1)
    BY DEF CloseUnknown
  <1>2. demanded \in Nat /\ buffer \in [base : Nat, size : Nat]
    BY DEF BufferInv, TypeOK
  <1>3. /\ Sound(a.encoder, a.high, demanded + 1)
        /\ a.err = IF demanded + 1 > buffer.size THEN "oom" ELSE "ok"
        /\ Counting(Parent) => Counting(a.encoder) /\ a.high = top
    BY <1>1, <1>2, ParentSound, AppendSound
  <1> HIDE DEF a
  <1>4. a.encoder \in EncoderRecord
    BY <1>3 DEF Sound
  <1>5. Consumes(1)
    BY <1>1, <1>3, <1>4, ParentSound, ClosedStacks, StackStep
  <1> QED
    BY <1>1, <1>3, <1>5 DEF AnswersRoom

LEMMA CloseCountedStep ==
  ASSUME BufferInv, CloseCounted
  PROVE  Consumes(0)
  <1>1. /\ Len(encoders) > 1 /\ encoders' = Closed(Parent) /\ demanded' = demanded
        /\ top' = top /\ buffer' = buffer /\ open' = SubSeq(open, 1, Len(open) - 1)
    BY DEF CloseCounted
  <1>2. /\ Sound(Parent, top, demanded) /\ Parent \in EncoderRecord
        /\ Counting(Innermost) <=> Counting(Parent)
    BY <1>1, ParentSound DEF Sound
  <1>3. demanded + 0 = demanded
    BY DEF BufferInv, TypeOK
  <1> QED
    BY <1>1, <1>2, <1>3, ClosedStacks, StackStep

-----------------------------------------------------------------------------
LEMMA BufferInitInv == BufferInit => BufferInv
  <1> SUFFICES ASSUME BufferInit PROVE BufferInv
    OBVIOUS
  <1> DEFINE root == Root(buffer.base, buffer.base + buffer.size, FALSE)
  <1>1. buffer \in [base : Nat, size : Nat] /\ (buffer.base = 0 => buffer.size = 0)
    BY BuffersAssumption DEF BufferInit
  <1>2. /\ encoders = << root >> /\ top = buffer.base /\ demanded = 0 /\ open = << >>
    BY DEF BufferInit, Fresh
  <1>3. root \in EncoderRecord /\ ~root.writer
        /\ root.data = buffer.base /\ root.end = buffer.base + buffer.size
    BY <1>1 DEF Root, EncoderRecord
  <1> HIDE DEF root
  <1>4. encoders \in Seq(EncoderRecord) /\ Len(encoders) = 1 /\ encoders[1] = root
    BY <1>2, <1>3
  <1>5. Innermost = root
    BY <1>4 DEF Innermost
  <1>6. /\ TypeOK
    <2>1. open \in Seq([slots : Nat, items : Nat, counted : BOOLEAN]) /\ Len(open) = 0
      BY <1>2, EmptySeq
    <2> QED
      BY <1>1, <1>2, <1>4, <2>1 DEF TypeOK
  <1>7. Sound(Innermost, top, demanded)
    BY <1>1, <1>2, <1>3, <1>5 DEF Sound, Counting
  <1>8. \A i \in 1 .. Len(encoders) : ~encoders[i].writer
    BY <1>3, <1>4
  <1> QED
    BY <1>6, <1>7, <1>8 DEF BufferInv

(* Every step keeps the invariant and a prefix that has overrun. *)
LEMMA NextStep ==
  ASSUME BufferInv, [Next]_vars
  PROVE  /\ BufferInv'
         /\ Counting(Innermost) => Counting(Innermost') /\ top' = top
  <1>1. ASSUME NEW n \in Nat, Consumes(n)
        PROVE  /\ BufferInv'
               /\ Counting(Innermost) => Counting(Innermost') /\ top' = top
    BY <1>1 DEF Consumes
  <1>2. HeadLengths \subseteq Nat /\ Lengths \subseteq Nat
    BY LengthsAssumption
  <1>3. ASSUME NEW n \in HeadLengths, NEW answer \in Answers, EncodeNumber(n, answer)
        PROVE  Consumes(n)
    BY <1>3, NumberStep
  <1>4. ASSUME NEW n \in Nat, NEW answer \in Answers,
               EncodeTag(n, answer) \/ EncodeRaw(n, answer)
        PROVE  Consumes(n)
    BY <1>4, UncountedStep
  <1>5. ASSUME NEW n \in Lengths, NEW answer \in Answers, NEW second \in Answers,
               EncodeString(n, answer, second)
        PROVE  HeadSize(n) + n \in Nat /\ Consumes(HeadSize(n) + n)
    BY <1>2, <1>5, StringStep, HeadSizePositive
  <1>6. ASSUME NEW map \in BOOLEAN, NEW length \in Lengths, NEW answer \in Answers,
               CreateContainer(map, length, answer)
        PROVE  \E n \in Nat : Consumes(n)
    BY <1>6, CreateStep, HeadSizePositive
  <1>7. ASSUME NEW answer \in Answers, CloseUnknown(answer)
        PROVE  Consumes(1)
    BY <1>7, CloseUnknownStep
  <1>8. ASSUME CloseCounted
        PROVE  Consumes(0)
    BY <1>8, CloseCountedStep
  <1>9. CASE RefuseSimpleValue \/ UNCHANGED vars
    BY <1>9 DEF RefuseSimpleValue, vars, BufferInv, TypeOK, Sound, Innermost, Counting
  <1> QED
    BY <1>1, <1>2, <1>3, <1>4, <1>5, <1>6, <1>7, <1>8, <1>9 DEF Next

LEMMA BufferInvariant == BufferSpec => []BufferInv
  <1>1. BufferInv /\ [Next]_vars => BufferInv'
    BY NextStep
  <1> QED
    BY BufferInitInv, <1>1, PTL DEF BufferSpec

(* The state of a buffer encoder keeps its types, whatever the client does *)
(* within the rule of writing to the innermost encoder.                    *)
THEOREM BufferTypeCorrect == BufferSpec => []TypeOK
  <1>1. BufferInv => TypeOK
    BY DEF BufferInv
  <1> QED
    BY BufferInvariant, <1>1, PTL

(* The two-pass sizing promise, for every buffer: once the encoder counts, *)
(* size plus shortfall is the exact length of the document.                *)
THEOREM BufferShortfallExact == BufferSpec => []ShortfallExact
  <1>1. BufferInv => ShortfallExact
    BY DEF BufferInv, Sound, ShortfallExact
  <1> QED
    BY BufferInvariant, <1>1, PTL

(* No byte lands outside the caller's buffer and none is left out below    *)
(* the cursor.                                                             *)
THEOREM BufferWrittenInPlace == BufferSpec => []WrittenInPlace
  <1>1. BufferInv => WrittenInPlace
    BY DEF BufferInv, Sound, WrittenInPlace
  <1> QED
    BY BufferInvariant, <1>1, PTL

(* What was written before the overrun is final. *)
THEOREM BufferPrefixFinal == BufferSpec => PrefixFinal
  <1>1. BufferInv /\ [Next]_vars =>
          [~Innermost.writer /\ Counting(Innermost)
             => top' = top /\ Counting(Innermost')]_vars
    BY NextStep
  <1> QED
    BY BufferInvariant, <1>1, PTL DEF BufferSpec, PrefixFinal

-----------------------------------------------------------------------------
(* The encoder over a writer callback.  `end` is the caller's token there, *)
(* and the flag that says so must reach every child and survive every      *)
(* close: this is what the properties of WriterSpec rest on.               *)
WriterRecord == {e \in EncoderRecord : e.writer /\ e.end \in Tokens}

WriterInv == TypeOK /\ encoders \in Seq(WriterRecord)

(* The last run of bytes handed over has the last word, and out-of-memory  *)
(* is a callback's word, but for a NULL token.                             *)
Answered ==
  /\ handed' # << >> =>
       /\ ret' = handed'[Len(handed')]
       /\ \A i \in 1 .. Len(handed') - 1 : handed'[i] \in {"ok", "oom"}
  /\ ret' = "oom" /\ NULL \notin Tokens => \E i \in DOMAIN handed' : handed'[i] = "oom"

LEMMA WriterAppends ==
  ASSUME NEW e \in WriterRecord, NEW high, NEW len, NEW answer
  PROVE  AppendBytes(e, high, len, answer) = [encoder |-> e, high |-> high, err |-> answer]
  BY DEF AppendBytes, WriterRecord

LEMMA WriterDecrements ==
  ASSUME NEW e \in WriterRecord
  PROVE  SaturatedDecrement(e) \in WriterRecord
  BY DEF SaturatedDecrement, WriterRecord, EncoderRecord

LEMMA WriterInnermost ==
  ASSUME WriterInv
  PROVE  Len(encoders) \in Nat \ {0} /\ Innermost \in WriterRecord /\ Innermost.writer
  <1>1. Len(encoders) \in Nat \ {0} /\ encoders \in Seq(WriterRecord)
    BY InnermostType DEF WriterInv
  <1>2. Innermost \in WriterRecord
    BY <1>1, ElementOfSeq DEF Innermost
  <1> QED
    BY <1>1, <1>2 DEF WriterRecord

(* One answer is the call's answer. *)
LEMMA AnswersOnce ==
  ASSUME NEW answer, handed' = << answer >>, ret' = answer
  PROVE  Answered
  <1>1. handed'[1] = answer /\ Len(handed') = 1 /\ DOMAIN handed' = {1}
    OBVIOUS
  <1> QED
    BY <1>1 DEF Answered

(* Steps that write for the innermost encoder. *)
LEMMA WriterStays ==
  ASSUME WriterInv, NEW e \in WriterRecord, NEW n \in Nat,
         encoders' = WithInnermost(e), top' = top, buffer' = buffer,
         demanded' = demanded + n, open' = CountItem \/ open' = open
  PROVE  WriterInv'
  <1>1. encoders \in Seq(WriterRecord) /\ Len(encoders) \in 1 .. Len(encoders)
    BY WriterInnermost DEF WriterInv
  <1>2. encoders' \in Seq(WriterRecord) /\ Len(encoders') = Len(encoders)
    BY <1>1, ExceptSeq DEF WithInnermost
  <1>3. e \in EncoderRecord
    BY DEF WriterRecord
  <1>4. encoders' \in Seq(EncoderRecord)
    BY <1>3, WithInnermostSeq DEF WriterInv
  <1>5. /\ open' \in Seq([slots : Nat, items : Nat, counted : BOOLEAN])
        /\ Len(open') = Len(open)
    BY CountItemType DEF WriterInv, TypeOK
  <1> QED
    BY <1>2, <1>4, <1>5 DEF WriterInv, TypeOK

LEMMA WriterAppendOneStep ==
  ASSUME WriterInv, NEW e \in WriterRecord, NEW n \in Nat, NEW answer,
         AppendOne(e, n, answer), open' = CountItem \/ open' = open
  PROVE  WriterInv' /\ Answered
  <1>1. /\ encoders' = WithInnermost(e) /\ top' = top /\ ret' = answer
        /\ handed' = << answer >> /\ buffer' = buffer /\ demanded' = demanded + n
    BY WriterAppends DEF AppendOne, WriterRecord
  <1> QED
    BY <1>1, WriterStays, AnswersOnce

LEMMA WriterStringStep ==
  ASSUME WriterInv, NEW n \in Nat, NEW answer, NEW second, EncodeString(n, answer, second)
  PROVE  WriterInv' /\ Answered
  <1> DEFINE e == SaturatedDecrement(Innermost)
             head == AppendBytes(e, top, HeadSize(n), answer)
             body == AppendBytes(head.encoder, head.high, n, second)
             last == IF GoesOn(head.err) THEN body ELSE head
  <1>1. e \in WriterRecord /\ Innermost.writer
    BY WriterInnermost, WriterDecrements
  <1>2. /\ demanded' = demanded + HeadSize(n) + n /\ encoders' = WithInnermost(last.encoder)
        /\ top' = last.high /\ ret' = last.err /\ open' = CountItem /\ buffer' = buffer
        /\ handed' = IF GoesOn(head.err) THEN << answer, second >> ELSE << answer >>
    BY <1>1 DEF EncodeString
  <1> HIDE DEF e
  <1>3. head = [encoder |-> e, high |-> top, err |-> answer]
    BY <1>1, WriterAppends
  <1>4. body = [encoder |-> e, high |-> top, err |-> second]
    BY <1>1, <1>3, WriterAppends
  <1> HIDE DEF head, body
  <1>5. /\ encoders' = WithInnermost(e) /\ top' = top
        /\ ret' = IF GoesOn(answer) THEN second ELSE answer
        /\ handed' = IF GoesOn(answer) THEN << answer, second >> ELSE << answer >>
    BY <1>2, <1>3, <1>4
  <1>6. HeadSize(n) + n \in Nat /\ demanded' = demanded + (HeadSize(n) + n)
    BY <1>2, HeadSizePositive DEF WriterInv, TypeOK
  <1>7. WriterInv'
    BY <1>1, <1>2, <1>5, <1>6, WriterStays
  <1>8. Answered
    <2>1. CASE GoesOn(answer)
      <3>1. /\ handed'[1] = answer /\ handed'[2] = second /\ Len(handed') = 2
            /\ DOMAIN handed' = {1, 2} /\ ret' = second
        BY <1>5, <2>1
      <3> QED
        BY <2>1, <3>1 DEF Answered, GoesOn
    <2>2. CASE ~GoesOn(answer)
      BY <1>5, <2>2, AnswersOnce
    <2> QED
      BY <2>1, <2>2
  <1> QED
    BY <1>7, <1>8

LEMMA WriterCreateStep ==
  ASSUME WriterInv, NEW map \in BOOLEAN, NEW length \in Lengths, NEW answer,
         CreateContainer(map, length, answer)
  PROVE  WriterInv' /\ Answered
  <1> DEFINE n == IF length = UnknownItems THEN 1 ELSE HeadSize(length)
             child == [data |-> Innermost.data, end |-> Innermost.end,
                       remaining |-> ItemsOwed(map, length),
                       map |-> map, unknown |-> length = UnknownItems,
                       writer |-> Inherited(Innermost)]
             parent == SaturatedDecrement(Innermost)
             frame == [slots |-> SlotsOf(map, length), items |-> 0,
                       counted |-> length # UnknownItems]
             below == WithInnermost(parent)
             S == [slots : Nat, items : Nat, counted : BOOLEAN]
  <1>1. /\ n \in Nat /\ length \in Nat /\ Innermost \in WriterRecord
        /\ parent \in WriterRecord /\ Len(encoders) \in 1 .. Len(encoders)
    BY LengthsAssumption, HeadSizePositive, WriterInnermost, WriterDecrements
  <1>2. child \in WriterRecord
    BY <1>1, ItemsOwedType DEF WriterRecord, EncoderRecord, Inherited
  <1>3. AppendBytes(child, top, n, answer) = [encoder |-> child, high |-> top, err |-> answer]
    BY <1>2, WriterAppends
  <1>4. /\ demanded' = demanded + n /\ encoders' = Append(below, child)
        /\ top' = top /\ ret' = answer /\ buffer' = buffer
        /\ open' = Append(CountItem, frame)
        /\ handed' = IF child.writer THEN << answer >> ELSE << >>
    BY <1>3 DEF CreateContainer
  <1>5. frame \in S
    BY <1>1 DEF SlotsOf
  <1>6. child.writer /\ child \in EncoderRecord /\ parent \in EncoderRecord
    BY <1>1, <1>2 DEF WriterRecord
  <1> HIDE DEF child, n, parent, frame
  <1>7. below \in Seq(EncoderRecord) /\ Len(below) = Len(encoders)
    BY <1>6, WithInnermostSeq DEF WriterInv
  <1>8. below \in Seq(WriterRecord)
    BY <1>1, ExceptSeq DEF WriterInv, WithInnermost
  <1> HIDE DEF below
  <1>9. /\ encoders' \in Seq(WriterRecord) /\ encoders' \in Seq(EncoderRecord)
        /\ Len(encoders') = Len(encoders) + 1
    BY <1>2, <1>4, <1>6, <1>7, <1>8, AppendProperties
  <1>10. open' \in Seq(S) /\ Len(open') = Len(open) + 1
    BY <1>4, <1>5, CountItemType, AppendProperties DEF WriterInv, TypeOK
  <1>11. WriterInv'
    BY <1>1, <1>4, <1>9, <1>10 DEF WriterInv, TypeOK
  <1> QED
    BY <1>4, <1>6, <1>11, AnswersOnce

(* The parent of a close is a writer too, and keeps the token. *)
LEMMA WriterParent ==
  ASSUME WriterInv, Len(encoders) > 1
  PROVE  Parent \in WriterRecord
  <1>1. encoders[Len(encoders) - 1] \in WriterRecord
    BY WriterInnermost, ElementOfSeq DEF WriterInv
  <1>2. Innermost \in WriterRecord
    BY WriterInnermost
  <1> QED
    BY <1>1, <1>2 DEF Parent, WriterRecord, EncoderRecord

LEMMA WriterClosed ==
  ASSUME WriterInv, Len(encoders) > 1, NEW e \in WriterRecord, NEW n \in Nat,
         encoders' = Closed(e), open' = SubSeq(open, 1, Len(open) - 1),
         top' = top, buffer' = buffer, demanded' = demanded + n
  PROVE  WriterInv'
  <1> DEFINE S == [slots : Nat, items : Nat, counted : BOOLEAN]
             k == Len(encoders) - 1
             t == SubSeq(encoders, 1, k)
  <1>1. /\ encoders \in Seq(WriterRecord) /\ k \in Nat /\ k >= 1 /\ k = Len(open)
        /\ Len(encoders) = k + 1 /\ open \in Seq(S)
    BY InnermostType DEF WriterInv, TypeOK
  <1>2. e \in EncoderRecord
    BY DEF WriterRecord
  <1>3. encoders' \in Seq(EncoderRecord) /\ Len(encoders') = k
    BY <1>2, ClosedSeq DEF WriterInv
  <1>4. \A i \in 1 .. k : encoders[i] \in WriterRecord
    BY <1>1, ElementOfSeq
  <1>5. t \in Seq(WriterRecord) /\ Len(t) = k
    BY <1>1, <1>4, SubSeqProperties
  <1>6. encoders' = [t EXCEPT ![k] = e]
    BY DEF Closed
  <1> HIDE DEF t, S, k
  <1>7. encoders' \in Seq(WriterRecord)
    BY <1>1, <1>5, <1>6, ExceptSeq
  <1>8. open' \in Seq(S) /\ Len(open') = k - 1
    <2>1. open' = SubSeq(open, 1, k - 1)
      BY <1>1
    <2>2. \A i \in 1 .. k - 1 : open[i] \in S
      BY <1>1, ElementOfSeq
    <2>3. /\ open' \in Seq(S)
          /\ Len(open') = IF 1 <= k - 1 THEN k - 1 - 1 + 1 ELSE 0
      BY <1>1, <2>1, <2>2, SubSeqProperties
    <2> QED
      BY <1>1, <2>3
  <1>9. Len(encoders') = Len(open') + 1
    BY <1>1, <1>3, <1>8
  <1> QED
    BY <1>3, <1>7, <1>8, <1>9 DEF WriterInv, TypeOK, S

LEMMA WriterCloseUnknownStep ==
  ASSUME WriterInv, NEW answer, CloseUnknown(answer)
  PROVE  WriterInv' /\ Answered
  <1>1. Len(encoders) > 1 /\ Parent \in WriterRecord /\ Parent.writer
    BY WriterParent DEF CloseUnknown, WriterRecord
  <1>2. AppendBytes(Parent, top, 1, answer)
          = [encoder |-> Parent, high |-> top, err |-> answer]
    BY <1>1, WriterAppends
  <1>3. /\ demanded' = demanded + 1 /\ encoders' = Closed(Parent)
        /\ top' = top /\ ret' = answer /\ buffer' = buffer
        /\ open' = SubSeq(open, 1, Len(open) - 1)
        /\ handed' = << answer >>
    BY <1>1, <1>2 DEF CloseUnknown
  <1> QED
    BY <1>1, <1>3, WriterClosed, AnswersOnce

LEMMA WriterCloseCountedStep ==
  ASSUME WriterInv, CloseCounted
  PROVE  WriterInv' /\ Answered
  <1>1. Len(encoders) > 1 /\ Parent \in WriterRecord /\ Parent.end \in Tokens
    BY WriterParent DEF CloseCounted, WriterRecord
  <1>2. /\ demanded' = demanded + 0 /\ encoders' = Closed(Parent)
        /\ top' = top /\ buffer' = buffer /\ open' = SubSeq(open, 1, Len(open) - 1)
        /\ ret' = CountVerdict(Innermost, Parent) /\ handed' = << >>
    BY DEF CloseCounted, WriterInv, TypeOK
  <1>3. WriterInv'
    BY <1>1, <1>2, WriterClosed
  <1>4. ret' = "oom" => Parent.end = NULL
    BY <1>2 DEF CountVerdict, Counting
  <1> QED
    BY <1>1, <1>2, <1>3, <1>4 DEF Answered

LEMMA WriterInitInv == WriterInit => WriterInv
  <1> SUFFICES ASSUME WriterInit PROVE WriterInv
    OBVIOUS
  <1>1. PICK token \in Tokens : encoders = << Root(NULL, token, TRUE) >>
    BY DEF WriterInit
  <1> DEFINE r == Root(NULL, token, TRUE)
  <1>2. r \in WriterRecord /\ r \in EncoderRecord
    BY BuffersAssumption DEF Root, WriterRecord, EncoderRecord
  <1>5. encoders = << r >>
    BY <1>1
  <1> HIDE DEF r
  <1>3. /\ encoders \in Seq(WriterRecord) /\ encoders \in Seq(EncoderRecord)
        /\ Len(encoders) = 1
    BY <1>2, <1>5
  <1>4. /\ open = << >> /\ demanded = 0 /\ top = 0 /\ buffer = [base |-> 0, size |-> 0]
    BY DEF WriterInit, Fresh
  <1> QED
    BY <1>3, <1>4 DEF WriterInv, TypeOK

LEMMA WriterStep ==
  ASSUME WriterInv, Next
  PROVE  /\ WriterInv'
         /\ Answered \/ (handed' = << >> /\ ret' = "illegal_simple_type")
  <1>1. /\ HeadLengths \subseteq Nat /\ Lengths \subseteq Nat
        /\ Innermost \in WriterRecord /\ SaturatedDecrement(Innermost) \in WriterRecord
    BY LengthsAssumption, WriterInnermost, WriterDecrements
  <1>2. ASSUME NEW n \in Nat, NEW answer,
               EncodeNumber(n, answer) \/ EncodeTag(n, answer) \/ EncodeRaw(n, answer)
        PROVE  WriterInv' /\ Answered
    BY <1>1, <1>2, WriterAppendOneStep DEF EncodeNumber, EncodeTag, EncodeRaw
  <1>3. ASSUME NEW n \in Lengths, NEW answer, NEW second, EncodeString(n, answer, second)
        PROVE  WriterInv' /\ Answered
    BY <1>1, <1>3, WriterStringStep
  <1>4. ASSUME NEW map \in BOOLEAN, NEW length \in Lengths, NEW answer,
               CreateContainer(map, length, answer)
        PROVE  WriterInv' /\ Answered
    BY <1>4, WriterCreateStep
  <1>5. ASSUME NEW answer, CloseUnknown(answer) PROVE WriterInv' /\ Answered
    BY <1>5, WriterCloseUnknownStep
  <1>6. ASSUME CloseCounted PROVE WriterInv' /\ Answered
    BY <1>6, WriterCloseCountedStep
  <1>7. ASSUME RefuseSimpleValue
        PROVE  WriterInv' /\ handed' = << >> /\ ret' = "illegal_simple_type"
    BY <1>7 DEF RefuseSimpleValue, WriterInv, TypeOK
  <1> QED
    BY <1>1, <1>2, <1>3, <1>4, <1>5, <1>6, <1>7 DEF Next

LEMMA WriterStutter == WriterInv /\ UNCHANGED vars => WriterInv'
  BY DEF vars, WriterInv, TypeOK

LEMMA WriterInvariant == WriterSpec => []WriterInv
  <1>1. WriterInv /\ [Next]_vars => WriterInv'
    BY WriterStep, WriterStutter
  <1> QED
    BY WriterInitInv, <1>1, PTL DEF WriterSpec

(* cbor_encoder_init_writer: whatever the callbacks answer, the state of   *)
(* the encoder over a writer keeps its types.                              *)
THEOREM WriterTypeCorrect == WriterSpec => []TypeOK
  <1>1. WriterInv => TypeOK
    BY DEF WriterInv
  <1> QED
    BY WriterInvariant, <1>1, PTL

(* The writer callback's error is the call's error, and nothing is handed  *)
(* over after a refusal other than out-of-memory.                          *)
THEOREM WriterRefusalIsFinal == WriterSpec => WriterHasLastWord
  <1>1. WriterInv /\ [Next]_vars =>
          [Innermost.writer /\ handed' # << >> =>
             /\ ret' = handed'[Len(handed')]
             /\ \A i \in 1 .. Len(handed') - 1 : handed'[i] \in {"ok", "oom"}]_vars
    BY WriterStep DEF Answered
  <1> QED
    BY WriterInvariant, <1>1, PTL DEF WriterSpec, WriterHasLastWord

(* Over a writer with a token that is not NULL no call reports             *)
(* out-of-memory of its own: `end` is never taken for a buffer's.          *)
THEOREM WriterOwnsOom ==
  ASSUME NULL \notin Tokens
  PROVE  WriterSpec => OomIsTheWriters
  <1>1. WriterInv /\ [Next]_vars =>
          [Innermost.writer /\ ret' = "oom" =>
             \E i \in DOMAIN handed' : handed'[i] = "oom"]_vars
    BY WriterStep DEF Answered
  <1> QED
    BY WriterInvariant, <1>1, PTL DEF WriterSpec, OomIsTheWriters

-----------------------------------------------------------------------------
(* No announced length makes `remaining` wrap: lengths below 2^63. *)
NoCountWraps == \A length \in Lengths \ {UnknownItems} : 2 * length + 1 < Word

Frames == [slots : Nat, items : Nat, counted : BOOLEAN]

(* Encoder e owes what frame f says is missing. *)
Owes(e, f) ==
  /\ f.counted = ~e.unknown
  /\ f.counted => e.remaining = IF f.items > f.slots THEN 0 ELSE f.slots - f.items + 1

OwedInv == \A i \in 1 .. Len(open) : Owes(encoders[i + 1], open[i])

LEMMA DecrementOwes ==
  ASSUME NEW e \in EncoderRecord, NEW f \in Frames, Owes(e, f)
  PROVE  Owes(SaturatedDecrement(e), [f EXCEPT !.items = @ + 1])
  BY DEF Owes, SaturatedDecrement, EncoderRecord, Frames

LEMMA DecrementType ==
  ASSUME NEW e \in EncoderRecord PROVE SaturatedDecrement(e) \in EncoderRecord
  BY DEF SaturatedDecrement, EncoderRecord

LEMMA CountItemElements ==
  ASSUME open \in Seq(Frames)
  PROVE  /\ CountItem \in Seq(Frames) /\ Len(CountItem) = Len(open)
         /\ \A i \in 1 .. Len(open) :
              CountItem[i] = IF i = Len(open) THEN [open[i] EXCEPT !.items = @ + 1] ELSE open[i]
  <1>1. CASE open = << >>
    BY <1>1 DEF CountItem
  <1>2. CASE open # << >>
    <2> DEFINE last == [open[Len(open)] EXCEPT !.items = @ + 1]
    <2>1. Len(open) \in 1 .. Len(open) /\ open[Len(open)] \in Frames
      <3>1. Len(open) \in Nat \ {0}
        BY <1>2, EmptySeq
      <3> QED
        BY <3>1, ElementOfSeq
    <2>2. last \in Frames
      BY <2>1 DEF Frames
    <2>3. CountItem = [open EXCEPT ![Len(open)] = last]
      BY <1>2 DEF CountItem
    <2>4. LET s == [open EXCEPT ![Len(open)] = last]
          IN  /\ s \in Seq(Frames) /\ Len(s) = Len(open)
              /\ \A i \in 1 .. Len(open) : s[i] = IF i = Len(open) THEN last ELSE open[i]
      <3> HIDE DEF last
      <3> QED
        BY <2>1, <2>2, ExceptSeq
    <2> QED
      BY <2>3, <2>4
  <1> QED
    BY <1>1, <1>2

(* An item put in the innermost container is owed no more. *)
LEMMA CountStep ==
  ASSUME BufferInv, OwedInv, NEW g \in EncoderRecord,
         g.remaining = SaturatedDecrement(Innermost).remaining,
         g.unknown = Innermost.unknown
  PROVE  \A i \in 1 .. Len(open) : Owes(WithInnermost(g)[i + 1], CountItem[i])
  <1>1. /\ TypeOK /\ Len(encoders) \in Nat \ {0} /\ Len(encoders) = Len(open) + 1
        /\ Innermost \in EncoderRecord /\ open \in Seq(Frames) /\ Len(open) \in Nat
    BY InnermostType DEF BufferInv, TypeOK, Frames
  <1>2. /\ WithInnermost(g)[Len(encoders)] = g
        /\ \A i \in 1 .. Len(encoders) - 1 : WithInnermost(g)[i] = encoders[i]
    BY <1>1, WithInnermostSeq
  <1> SUFFICES ASSUME NEW i \in 1 .. Len(open)
               PROVE  Owes(WithInnermost(g)[i + 1], CountItem[i])
    OBVIOUS
  <1>3. open[i] \in Frames /\ Owes(encoders[i + 1], open[i])
    BY <1>1, ElementOfSeq DEF OwedInv
  <1>4. CASE i = Len(open)
    <2>1. encoders[i + 1] = Innermost /\ WithInnermost(g)[i + 1] = g
      BY <1>1, <1>2, <1>4 DEF Innermost
    <2>2. Owes(SaturatedDecrement(Innermost), [open[i] EXCEPT !.items = @ + 1])
      BY <1>1, <1>3, <2>1, DecrementOwes
    <2>3. SaturatedDecrement(Innermost).unknown = Innermost.unknown
      BY <1>1 DEF SaturatedDecrement, EncoderRecord
    <2>4. CountItem[i] = [open[i] EXCEPT !.items = @ + 1]
      BY <1>1, <1>4, CountItemElements
    <2> QED
      BY <2>1, <2>2, <2>3, <2>4 DEF Owes
  <1>5. CASE i # Len(open)
    <2>1. i + 1 \in 1 .. Len(encoders) - 1
      BY <1>1, <1>5
    <2>2. WithInnermost(g)[i + 1] = encoders[i + 1]
      BY <1>2, <2>1
    <2>3. CountItem[i] = open[i]
      BY <1>1, <1>5, CountItemElements
    <2> QED
      BY <1>3, <2>2, <2>3
  <1> QED
    BY <1>4, <1>5

(* Moving the cursor of the innermost encoder changes no debt. *)
LEMMA KeepStep ==
  ASSUME BufferInv, OwedInv, NEW g \in EncoderRecord,
         g.remaining = Innermost.remaining, g.unknown = Innermost.unknown
  PROVE  \A i \in 1 .. Len(open) : Owes(WithInnermost(g)[i + 1], open[i])
  <1>1. TypeOK /\ Len(encoders) \in Nat \ {0} /\ Len(encoders) = Len(open) + 1
    BY InnermostType DEF BufferInv
  <1>2. /\ WithInnermost(g)[Len(encoders)] = g
        /\ \A i \in 1 .. Len(encoders) - 1 : WithInnermost(g)[i] = encoders[i]
    BY <1>1, WithInnermostSeq
  <1> SUFFICES ASSUME NEW i \in 1 .. Len(open)
               PROVE  Owes(WithInnermost(g)[i + 1], open[i])
    OBVIOUS
  <1>3. Owes(encoders[i + 1], open[i])
    BY DEF OwedInv
  <1>4. CASE i = Len(open)
    <2>1. encoders[i + 1] = Innermost /\ WithInnermost(g)[i + 1] = g
      BY <1>1, <1>2, <1>4 DEF Innermost
    <2> QED
      BY <1>3, <2>1 DEF Owes
  <1>5. CASE i # Len(open)
    <2>1. i + 1 \in 1 .. Len(encoders) - 1
      BY <1>1, <1>5 DEF TypeOK
    <2> QED
      BY <1>2, <1>3, <2>1
  <1> QED
    BY <1>4, <1>5

LEMMA AppendType ==
  ASSUME NEW e, NEW high, NEW d \in Nat, NEW len \in Nat, NEW answer,
         buffer \in [base : Nat, size : Nat], Sound(e, high, d)
  PROVE  AppendBytes(e, high, len, answer).encoder \in EncoderRecord
  <1> DEFINE a == AppendBytes(e, high, len, answer)
  <1>1. Sound(a.encoder, a.high, d + len)
    BY AppendSound
  <1> QED
    BY <1>1 DEF Sound

(* append() leaves the counter and the flags alone. *)
LEMMA AppendKeeps ==
  ASSUME NEW e \in EncoderRecord, NEW high, NEW len \in Nat, NEW answer
  PROVE  LET f == AppendBytes(e, high, len, answer).encoder
         IN  f.remaining = e.remaining /\ f.unknown = e.unknown
  BY DEF AppendBytes, Overrun, Advance, EncoderRecord

-----------------------------------------------------------------------------
(* OwedInv through each operation. *)
LEMMA OwedAppendOne ==
  ASSUME BufferInv, OwedInv, NEW n \in Nat, NEW answer,
         \/ EncodeTag(n, answer) \/ EncodeRaw(n, answer)
         \/ EncodeNumber(n, answer)
  PROVE  OwedInv'
  <1>1. Innermost \in EncoderRecord /\ SaturatedDecrement(Innermost) \in EncoderRecord
        /\ SaturatedDecrement(Innermost).unknown = Innermost.unknown
    BY InnermostType, DecrementType DEF BufferInv, SaturatedDecrement, EncoderRecord
  <1>2. demanded \in Nat /\ buffer \in [base : Nat, size : Nat]
    BY DEF BufferInv, TypeOK
  <1>3. CASE EncodeNumber(n, answer)
    <2> DEFINE g == AppendBytes(SaturatedDecrement(Innermost), top, n, answer).encoder
    <2>1. encoders' = WithInnermost(g) /\ open' = CountItem
      BY <1>3 DEF EncodeNumber, AppendOne
    <2>2. g.remaining = SaturatedDecrement(Innermost).remaining /\ g.unknown = Innermost.unknown
      BY <1>1, AppendKeeps
    <2>3. g \in EncoderRecord
      BY <1>2, InnermostSound, AppendType
    <2> HIDE DEF g
    <2>4. \A i \in 1 .. Len(open) : Owes(WithInnermost(g)[i + 1], CountItem[i])
      BY <2>2, <2>3, CountStep
    <2>5. Len(open') = Len(open)
      BY <2>1, CountItemType DEF BufferInv, TypeOK
    <2> QED
      BY <2>1, <2>4, <2>5 DEF OwedInv, Owes
  <1>4. CASE EncodeTag(n, answer) \/ EncodeRaw(n, answer)
    <2> DEFINE g == AppendBytes(Innermost, top, n, answer).encoder
    <2>1. encoders' = WithInnermost(g) /\ open' = open
      BY <1>4 DEF EncodeTag, EncodeRaw, AppendOne
    <2>2. g.remaining = Innermost.remaining /\ g.unknown = Innermost.unknown
      BY <1>1, AppendKeeps
    <2>3. g \in EncoderRecord
      BY <1>2, InnermostSound, AppendType
    <2> HIDE DEF g
    <2>4. \A i \in 1 .. Len(open) : Owes(WithInnermost(g)[i + 1], open[i])
      BY <2>2, <2>3, KeepStep
    <2> QED
      BY <2>1, <2>4 DEF OwedInv, Owes
  <1> QED
    BY <1>3, <1>4

LEMMA OwedString ==
  ASSUME BufferInv, OwedInv, NEW n \in Lengths, NEW answer, NEW second,
         EncodeString(n, answer, second)
  PROVE  OwedInv'
  <1> DEFINE e == SaturatedDecrement(Innermost)
             h == AppendBytes(e, top, HeadSize(n), answer)
             b == AppendBytes(h.encoder, h.high, n, second)
  <1>1. /\ demanded \in Nat /\ buffer \in [base : Nat, size : Nat]
        /\ n \in Nat /\ HeadSize(n) \in Nat /\ demanded + HeadSize(n) \in Nat
    BY LengthsAssumption, HeadSizePositive DEF BufferInv, TypeOK
  <1>2. e \in EncoderRecord /\ e.unknown = Innermost.unknown /\ Sound(e, top, demanded)
    BY InnermostType, InnermostSound, DecrementType
       DEF BufferInv, SaturatedDecrement, EncoderRecord
  <1>3. /\ Sound(h.encoder, h.high, demanded + HeadSize(n)) /\ h.err \in {"ok", "oom"}
        /\ h.encoder.remaining = e.remaining /\ h.encoder.unknown = e.unknown
    BY <1>1, <1>2, AppendSound
  <1>4. encoders' = WithInnermost(b.encoder) /\ open' = CountItem
    BY <1>3 DEF EncodeString, GoesOn
  <1> HIDE DEF h
  <1>a. h.encoder \in EncoderRecord
    BY <1>3 DEF Sound
  <1>b. b.encoder \in EncoderRecord
    BY <1>1, <1>3, AppendType
  <1>c. b.encoder.remaining = h.encoder.remaining /\ b.encoder.unknown = h.encoder.unknown
    BY <1>1, <1>a, AppendKeeps
  <1>5. /\ b.encoder \in EncoderRecord
        /\ b.encoder.remaining = h.encoder.remaining /\ b.encoder.unknown = h.encoder.unknown
    BY <1>b, <1>c
  <1> HIDE DEF b
  <1>6. \A i \in 1 .. Len(open) : Owes(WithInnermost(b.encoder)[i + 1], CountItem[i])
    BY <1>2, <1>3, <1>5, CountStep
  <1>7. Len(open') = Len(open)
    BY <1>4, CountItemType DEF BufferInv, TypeOK
  <1> QED
    BY <1>4, <1>6, <1>7 DEF OwedInv, Owes

LEMMA OwedCreate ==
  ASSUME NoCountWraps, BufferInv, OwedInv,
         NEW map \in BOOLEAN, NEW length \in Lengths, NEW answer,
         CreateContainer(map, length, answer)
  PROVE  OwedInv'
  <1> DEFINE n == IF length = UnknownItems THEN 1 ELSE HeadSize(length)
             child == [data |-> Innermost.data, end |-> Innermost.end,
                       remaining |-> ItemsOwed(map, length),
                       map |-> map, unknown |-> length = UnknownItems,
                       writer |-> Inherited(Innermost)]
             f == AppendBytes(child, top, n, answer).encoder
             parent == SaturatedDecrement(Innermost)
             frame == [slots |-> SlotsOf(map, length), items |-> 0,
                       counted |-> length # UnknownItems]
  <1>1. /\ TypeOK /\ Innermost \in EncoderRecord /\ parent \in EncoderRecord
        /\ parent.unknown = Innermost.unknown /\ n \in Nat /\ length \in 0 .. Word - 1
    BY LengthsAssumption, HeadSizePositive, InnermostType, DecrementType
       DEF BufferInv, SaturatedDecrement, EncoderRecord
  <1>2. Len(encoders) \in Nat \ {0} /\ Len(encoders) = Len(open) + 1 /\ Len(open) \in Nat
    BY <1>1, InnermostType DEF TypeOK
  <1>3. child \in EncoderRecord
    BY <1>1, ItemsOwedType, InnermostSound DEF EncoderRecord, Inherited, Sound
  <1>4. encoders' = Append(WithInnermost(parent), f) /\ open' = Append(CountItem, frame)
    BY DEF CreateContainer
  <1>5. f.remaining = ItemsOwed(map, length) /\ f.unknown = (length = UnknownItems)
    <2> HIDE DEF n
    <2>1. child.remaining = ItemsOwed(map, length) /\ child.unknown = (length = UnknownItems)
      OBVIOUS
    <2> HIDE DEF child
    <2> QED
      BY <1>1, <1>3, <2>1, AppendKeeps
  <1>6. Owes(f, frame)
    <2>1. length # UnknownItems =>
            ItemsOwed(map, length) = (IF map THEN 2 * length ELSE length) + 1
      BY <1>1, LengthsAssumption DEF NoCountWraps, ItemsOwed, WrapAdd, UnknownItems
    <2>2. frame.counted = ~f.unknown /\ frame.items = 0
          /\ frame.slots = SlotsOf(map, length)
      BY <1>5
    <2>3. length # UnknownItems =>
            frame.slots \in Nat /\ f.remaining = frame.slots - frame.items + 1
      BY <1>1, <1>5, <2>1, <2>2 DEF SlotsOf
    <2>4. frame.counted = (length # UnknownItems)
      OBVIOUS
    <2> HIDE DEF frame, f
    <2>5. length # UnknownItems =>
            f.remaining = IF frame.items > frame.slots THEN 0 ELSE frame.slots - frame.items + 1
      BY <2>2, <2>3
    <2> QED
      BY <2>2, <2>4, <2>5, Zenon DEF Owes
  <1>7. frame \in Frames
    BY <1>1 DEF SlotsOf, Frames
  <1>8. f \in EncoderRecord
    <2>1. child.data = Innermost.data /\ child.end = Innermost.end /\ child.writer = Innermost.writer
      BY DEF Inherited
    <2>2. Sound(child, top, demanded)
      <3> HIDE DEF child
      <3> QED
        BY <1>3, <2>1, InnermostSound DEF Sound, Counting
    <2> HIDE DEF child, n
    <2> QED
      BY <1>1, <2>2, AppendType DEF BufferInv, TypeOK
  <1> HIDE DEF child, f, n, parent, frame
  <1>9. /\ WithInnermost(parent) \in Seq(EncoderRecord)
        /\ Len(WithInnermost(parent)) = Len(encoders)
    BY <1>1, WithInnermostSeq
  <1>10. CountItem \in Seq(Frames) /\ Len(CountItem) = Len(open)
    BY <1>1, CountItemElements DEF TypeOK, Frames
  <1>11. \A i \in 1 .. Len(open) : Owes(WithInnermost(parent)[i + 1], CountItem[i])
    BY <1>1, CountStep DEF parent
  <1>12. /\ Len(open') = Len(open) + 1 /\ open'[Len(open) + 1] = frame
         /\ \A i \in 1 .. Len(open) : open'[i] = CountItem[i]
    BY <1>4, <1>7, <1>10, AppendProperties
  <1>13. /\ encoders'[Len(encoders) + 1] = f
         /\ \A i \in 1 .. Len(encoders) : encoders'[i] = WithInnermost(parent)[i]
    BY <1>4, <1>8, <1>9, AppendProperties
  <1> SUFFICES ASSUME NEW i \in 1 .. Len(open)' PROVE Owes(encoders'[i + 1], open'[i])
    BY DEF OwedInv, Owes
  <1>14. CASE i = Len(open) + 1
    BY <1>2, <1>6, <1>12, <1>13, <1>14
  <1>15. CASE i # Len(open) + 1
    <2>1. i \in 1 .. Len(open) /\ i + 1 \in 1 .. Len(encoders)
      BY <1>2, <1>12, <1>15
    <2> QED
      BY <1>11, <1>12, <1>13, <2>1
  <1> QED
    BY <1>14, <1>15

LEMMA OwedClose ==
  ASSUME BufferInv, OwedInv, NEW answer, CloseUnknown(answer) \/ CloseCounted
  PROVE  OwedInv'
  <1>a. TypeOK /\ open \in Seq(Frames)
    BY DEF BufferInv, TypeOK, Frames
  <1>b. Len(encoders) > 1 /\ open' = SubSeq(open, 1, Len(open) - 1)
    BY DEF CloseUnknown, CloseCounted
  <1>c. Len(encoders) = Len(open) + 1 /\ Len(encoders) \in Nat /\ Len(open) \in Nat
    BY <1>a, InnermostType, LenProperties
  <1>1. /\ TypeOK /\ Len(encoders) > 1 /\ open' = SubSeq(open, 1, Len(open) - 1)
        /\ Len(encoders) = Len(open) + 1 /\ Len(encoders) \in Nat
        /\ open \in Seq(Frames) /\ Len(open) \in Nat
    BY <1>a, <1>b, <1>c
  <1>2. Parent \in EncoderRecord
    BY <1>1, ParentSound DEF Sound
  <1> DEFINE last == encoders[Len(encoders) - 1]
  <1>3. PICK g \in EncoderRecord :
          encoders' = Closed(g) /\ g.remaining = last.remaining /\ g.unknown = last.unknown
    <2>1. Parent.remaining = last.remaining /\ Parent.unknown = last.unknown
      <3>1. last \in EncoderRecord
        BY <1>1, ElementOfSeq DEF TypeOK
      <3> QED
        BY <3>1 DEF Parent, EncoderRecord
    <2>2. CASE CloseCounted
      BY <1>2, <2>1, <2>2 DEF CloseCounted
    <2>3. CASE CloseUnknown(answer)
      <3> DEFINE f == AppendBytes(Parent, top, 1, answer).encoder
      <3>1. encoders' = Closed(f)
        BY <2>3 DEF CloseUnknown
      <3>2. f.remaining = Parent.remaining /\ f.unknown = Parent.unknown
        BY <1>2, AppendKeeps
      <3>3. f \in EncoderRecord
        BY <1>1, ParentSound, AppendType DEF BufferInv, TypeOK
      <3> QED
        BY <2>1, <3>1, <3>2, <3>3
    <2> QED
      BY <2>2, <2>3
  <1>4. /\ Len(encoders') = Len(encoders) - 1 /\ encoders'[Len(encoders) - 1] = g
        /\ \A i \in 1 .. Len(encoders) - 2 : encoders'[i] = encoders[i]
    <2>1. LET s == Closed(g)
          IN  /\ Len(s) = Len(encoders) - 1 /\ s[Len(s)] = g
              /\ \A i \in 1 .. Len(s) - 1 : s[i] = encoders[i]
      BY <1>1, ClosedSeq
    <2> QED
      BY <1>1, <1>3, <2>1
  <1>5. Len(open') = Len(open) - 1 /\ \A i \in 1 .. Len(open) - 1 : open'[i] = open[i]
    <2>1. Len(open) - 1 \in Nat /\ \A i \in 1 .. Len(open) - 1 : open[i] \in Frames
      BY <1>1, ElementOfSeq
    <2>2. /\ Len(open') = IF 1 <= Len(open) - 1 THEN Len(open) - 1 - 1 + 1 ELSE 0
          /\ \A i \in 1 .. Len(open) - 1 - 1 + 1 : open'[i] = open[1 + i - 1]
      BY <1>1, <2>1, SubSeqProperties
    <2>3. \A k \in Nat : /\ (IF 1 <= k THEN k - 1 + 1 ELSE 0) = k
                         /\ 1 .. k - 1 + 1 = 1 .. k
                         /\ \A i \in 1 .. k : 1 + i - 1 = i
      OBVIOUS
    <2> QED
      BY <2>1, <2>2, <2>3, Zenon
  <1> SUFFICES ASSUME NEW i \in 1 .. Len(open)' PROVE Owes(encoders'[i + 1], open'[i])
    BY DEF OwedInv, Owes
  <1>6. i \in 1 .. Len(open) /\ Owes(encoders[i + 1], open[i]) /\ open'[i] = open[i]
    BY <1>1, <1>5 DEF OwedInv
  <1>7. CASE i + 1 = Len(encoders) - 1
    BY <1>3, <1>4, <1>6, <1>7 DEF Owes
  <1>8. CASE i + 1 # Len(encoders) - 1
    <2>1. i + 1 \in 1 .. Len(encoders) - 2
      BY <1>1, <1>5, <1>8
    <2> QED
      BY <1>4, <1>6, <2>1
  <1> QED
    BY <1>7, <1>8

LEMMA OwedNext ==
  ASSUME NoCountWraps, BufferInv, OwedInv, [Next]_vars
  PROVE  OwedInv'
  <1>1. HeadLengths \subseteq Nat /\ Lengths \subseteq Nat
    BY LengthsAssumption
  <1>2. CASE RefuseSimpleValue \/ UNCHANGED vars
    BY <1>2 DEF RefuseSimpleValue, vars, OwedInv, Owes
  <1> QED
    BY <1>1, <1>2, OwedAppendOne, OwedString, OwedCreate, OwedClose DEF Next

LEMMA OwedInit == BufferInit => OwedInv
  BY DEF BufferInit, Fresh, OwedInv

(* No container is ever closed with a wrong verdict about its items: the   *)
(* counter of every open container is exact.                               *)
THEOREM BufferItemsOwedExact ==
  ASSUME NoCountWraps PROVE BufferSpec => []ItemsOwedExact
  <1>1. BufferInv /\ OwedInv /\ [Next]_vars => OwedInv'
    BY OwedNext
  <1>2. OwedInv => ItemsOwedExact
    BY DEF OwedInv, Owes, ItemsOwedExact
  <1> QED
    BY BufferInvariant, OwedInit, <1>1, <1>2, PTL DEF BufferSpec

-----------------------------------------------------------------------------
(* A container's head takes at least a byte. *)
Started == open # << >> => demanded > 0

LEMMA StartedNext ==
  ASSUME BufferInv, Started, [Next]_vars PROVE Started'
  <1> DEFINE S == [slots : Nat, items : Nat, counted : BOOLEAN]
  <1>1. demanded \in Nat /\ open \in Seq(S)
    BY DEF BufferInv, TypeOK
  <1>2. ASSUME NEW n \in Nat, Consumes(n), n > 0 \/ (open = << >> => open' = << >>)
        PROVE  Started'
    BY <1>1, <1>2 DEF Consumes, Started
  <1>3. open = << >> => CountItem = << >> /\ SubSeq(open, 1, Len(open) - 1) = << >>
    <2>1. Len(<< >>) - 1 = -1
      BY EmptySeq
    <2> QED
      BY <2>1, SubSeqEmpty DEF CountItem
  <1>4. HeadLengths \subseteq Nat /\ Lengths \subseteq Nat
    BY LengthsAssumption
  <1>5. ASSUME NEW n \in Nat, NEW answer,
               \/ EncodeTag(n, answer) \/ EncodeRaw(n, answer)
               \/ n \in HeadLengths /\ EncodeNumber(n, answer)
        PROVE  Started'
    <2>1. Consumes(n)
      BY <1>5, NumberStep, UncountedStep
    <2>2. open' = open \/ open' = CountItem
      BY <1>5 DEF EncodeTag, EncodeRaw, EncodeNumber
    <2> QED
      BY <1>2, <1>3, <2>1, <2>2
  <1>6. ASSUME NEW n \in Lengths, NEW answer, NEW second, EncodeString(n, answer, second)
        PROVE  Started'
    <2>1. HeadSize(n) + n \in Nat /\ HeadSize(n) + n > 0
      BY <1>4, HeadSizePositive
    <2> QED
      BY <1>2, <1>6, <2>1, StringStep
  <1>7. ASSUME NEW map \in BOOLEAN, NEW length \in Lengths, NEW answer,
               CreateContainer(map, length, answer)
        PROVE  Started'
    <2> DEFINE n == IF length = UnknownItems THEN 1 ELSE HeadSize(length)
    <2>1. Consumes(n) /\ n \in Nat /\ n > 0
      BY <1>7, CreateStep, HeadSizePositive
    <2> HIDE DEF n
    <2> QED
      BY <1>2, <2>1
  <1>8. ASSUME NEW answer, CloseUnknown(answer)
        PROVE  Started'
    BY <1>2, <1>8, CloseUnknownStep
  <1>9. CASE CloseCounted
    <2>1. Consumes(0) /\ open' = SubSeq(open, 1, Len(open) - 1)
      BY <1>9, CloseCountedStep DEF CloseCounted
    <2> QED
      BY <1>2, <1>3, <2>1
  <1>10. CASE RefuseSimpleValue \/ UNCHANGED vars
    BY <1>10 DEF RefuseSimpleValue, vars, Started
  <1> QED
    BY <1>4, <1>5, <1>6, <1>7, <1>8, <1>9, <1>10 DEF Next

LEMMA TotalIsDemanded == ASSUME BufferInv PROVE Total = demanded
  BY DEF BufferInv, TypeOK, Sound, Total, Counting

(* How a step that consumed n bytes looks to the ledger. *)
LEMMA LedgerView ==
  ASSUME BufferInv, NEW n \in Nat, Consumes(n)
  PROVE  /\ Total = demanded /\ Total' = demanded + n /\ buffer'.size = buffer.size
         /\ demanded \in Nat /\ demanded' = demanded + n
  BY TotalIsDemanded DEF Consumes, BufferInv, TypeOK, Sound, Total, Counting

LEMMA LedgerPut ==
  ASSUME BufferInv, NEW n \in Nat, Consumes(n), AnswersRoom, demanded + n <= MaxDemand,
         open' = open \/ open' = CountItem
  PROVE  Ledger!Next
  <1>1. /\ Total = demanded /\ Total' = demanded + n /\ buffer'.size = buffer.size
        /\ demanded \in Nat /\ demanded' = demanded + n
    BY LedgerView
  <1>2. n \in 0 .. MaxDemand
    BY <1>1, LengthsAssumption
  <1>3. ASSUME NEW counts \in BOOLEAN, open' = IF counts THEN CountItem ELSE open
        PROVE  Ledger!Put(n, counts)
    BY <1>1, <1>3 DEF Ledger!Put, Ledger!Judge, Ledger!Counted, CountItem, AnswersRoom
  <1>4. \E counts \in BOOLEAN : Ledger!Put(n, counts)
    <2>1. CASE open' = CountItem
      BY <1>3, <2>1
    <2>2. CASE open' = open
      BY <1>3, <2>2
    <2> QED
      BY <2>1, <2>2
  <1> QED
    BY <1>2, <1>4 DEF Ledger!Next

LEMMA LedgerOpen ==
  ASSUME BufferInv, NEW map \in BOOLEAN, NEW length \in Lengths, NEW answer,
         CreateContainer(map, length, answer)
  PROVE  Ledger!Next
  <1> DEFINE n == IF length = UnknownItems THEN 1 ELSE HeadSize(length)
             slots == SlotsOf(map, length)
             counted == length # UnknownItems
  <1>1. Consumes(n) /\ AnswersRoom /\ n \in Nat /\ n >= 1
    BY CreateStep, HeadSizePositive
  <1>2. /\ demanded + n <= MaxDemand
        /\ open' = Append(CountItem, [slots |-> slots, items |-> 0, counted |-> counted])
    BY DEF CreateContainer
  <1> HIDE DEF n
  <1>3. /\ Total = demanded /\ Total' = demanded + n /\ buffer'.size = buffer.size
        /\ demanded \in Nat /\ demanded' = demanded + n
    BY <1>1, LedgerView
  <1>4. n \in 1 .. MaxDemand
    BY <1>1, <1>2, <1>3, LengthsAssumption
  <1>5. slots \in {SlotsOf(m, l) : m \in BOOLEAN, l \in Lengths} /\ counted \in BOOLEAN
    OBVIOUS
  <1> HIDE DEF slots, counted
  <1>6. Ledger!Open(n, slots, counted)
    BY <1>1, <1>2, <1>3 DEF Ledger!Open, Ledger!Judge, Ledger!Counted, CountItem, AnswersRoom
  <1> QED
    BY <1>4, <1>5, <1>6 DEF Ledger!Next

LEMMA LedgerClose ==
  ASSUME BufferInv, OwedInv, Started, NEW answer, CloseUnknown(answer) \/ CloseCounted
  PROVE  Ledger!Next
  <1>1. /\ Len(encoders) > 1 /\ Len(open) = Len(encoders) - 1 /\ Len(open) \in Nat \ {0}
        /\ open # << >> /\ open[Len(open)] \in Frames
        /\ open' = SubSeq(open, 1, Len(open) - 1) /\ Innermost \in EncoderRecord
    <2>1. Len(encoders) > 1 /\ open' = SubSeq(open, 1, Len(open) - 1)
      BY DEF CloseUnknown, CloseCounted
    <2>2. /\ Len(open) = Len(encoders) - 1 /\ Len(open) \in Nat \ {0}
          /\ Innermost \in EncoderRecord /\ open \in Seq(Frames)
      BY <2>1, InnermostType DEF BufferInv, TypeOK, Frames
    <2> QED
      BY <2>1, <2>2, ElementOfSeq
  <1>2. Owes(Innermost, open[Len(open)])
    BY <1>1 DEF OwedInv, Innermost
  <1>3. CASE CloseUnknown(answer)
    <2>1. /\ Total = demanded /\ Total' = demanded + 1 /\ buffer'.size = buffer.size
          /\ demanded' = demanded + 1 /\ AnswersRoom
      BY <1>3, CloseUnknownStep, LedgerView
    <2>2. demanded + 1 <= MaxDemand /\ ~open[Len(open)].counted
      BY <1>2, <1>3 DEF CloseUnknown, Owes
    <2>3. Ledger!CloseUncounted
      BY <1>1, <2>1, <2>2 DEF Ledger!CloseUncounted, Ledger!Top, Ledger!Judge, AnswersRoom
    <2> QED
      BY <2>3 DEF Ledger!Next
  <1>4. CASE CloseCounted
    <2>1. /\ Total = demanded /\ Total' = demanded + 0 /\ buffer'.size = buffer.size
          /\ demanded \in Nat
      BY <1>4, CloseCountedStep, LedgerView
    <2>2. open[Len(open)].counted /\ ret' = CountVerdict(Innermost, Parent)
      BY <1>2, <1>4 DEF CloseCounted, Owes
    <2>3. Counting(Parent) <=> demanded > buffer.size
      <3>1. Sound(Parent, top, demanded) /\ buffer \in [base : Nat, size : Nat]
        BY <1>1, ParentSound DEF BufferInv, TypeOK
      <3>2. demanded \in Nat /\ demanded > 0 /\ buffer.size \in Nat
        BY <1>1, <3>1 DEF Started, BufferInv, TypeOK
      <3>3. Parent.data \in Nat
        BY <3>1 DEF Sound, EncoderRecord
      <3>4. CASE Counting(Parent)
        <4>1. buffer.size + Parent.data = demanded /\ Parent.data # 0
          BY <3>1, <3>2, <3>4 DEF Sound
        <4> QED
          BY <3>2, <3>3, <3>4, <4>1
      <3>5. CASE ~Counting(Parent)
        BY <3>1, <3>2, <3>5 DEF Sound
      <3> QED
        BY <3>4, <3>5
    <2>4. Ledger!CloseCounted
      <3> DEFINE f == open[Len(open)]
      <3>1. f.items \in Nat /\ f.slots \in Nat
        BY <1>1 DEF Frames
      <3>2. Innermost.remaining = IF f.items > f.slots THEN 0 ELSE f.slots - f.items + 1
        BY <1>2, <2>2 DEF Owes
      <3>3. ret' = IF f.items > f.slots THEN "too_many"
                   ELSE IF f.items < f.slots THEN "too_few"
                   ELSE IF demanded > buffer.size THEN "oom" ELSE "ok"
        BY <2>2, <2>3, <3>1, <3>2 DEF CountVerdict
      <3> HIDE DEF f
      <3>4. ret' = IF f.items > f.slots THEN "too_many"
                   ELSE IF f.items < f.slots THEN "too_few"
                   ELSE Ledger!Judge(Total)
        BY <2>1, <3>3 DEF Ledger!Judge
      <3> QED
        BY <1>1, <2>1, <2>2, <3>4 DEF Ledger!CloseCounted, Ledger!Top, f
    <2> QED
      BY <2>4 DEF Ledger!Next
  <1> QED
    BY <1>3, <1>4

LEMMA LedgerStep ==
  ASSUME BufferInv, OwedInv, Started, [Next]_vars
  PROVE  [Ledger!Next]_(Ledger!ledgerVars)
  <1>1. HeadLengths \subseteq Nat /\ Lengths \subseteq Nat
    BY LengthsAssumption
  <1>2. ASSUME NEW n \in Nat, NEW answer,
               \/ EncodeTag(n, answer) \/ EncodeRaw(n, answer)
               \/ n \in HeadLengths /\ EncodeNumber(n, answer)
        PROVE  Ledger!Next
    <2>1. Consumes(n) /\ AnswersRoom
      BY <1>2, NumberStep, UncountedStep
    <2>2. (open' = open \/ open' = CountItem) /\ demanded + n <= MaxDemand
      BY <1>2 DEF EncodeTag, EncodeRaw, EncodeNumber, AppendOne
    <2> QED
      BY <2>1, <2>2, LedgerPut
  <1>3. ASSUME NEW n \in Lengths, NEW answer, NEW second, EncodeString(n, answer, second)
        PROVE  Ledger!Next
    <2>1. HeadSize(n) + n \in Nat /\ Consumes(HeadSize(n) + n) /\ AnswersRoom
      BY <1>1, <1>3, StringStep, HeadSizePositive
    <2>2. open' = CountItem /\ demanded + HeadSize(n) + n <= MaxDemand /\ demanded \in Nat
      BY <1>3 DEF EncodeString, BufferInv, TypeOK
    <2>3. demanded + (HeadSize(n) + n) <= MaxDemand
      BY <1>1, <2>2, HeadSizePositive
    <2> QED
      BY <2>1, <2>2, <2>3, LedgerPut
  <1>4. CASE RefuseSimpleValue
    <2>1. Ledger!Refuse
      BY <1>4 DEF RefuseSimpleValue, Ledger!Refuse, Total, Innermost, Counting
    <2> QED
      BY <2>1 DEF Ledger!Next
  <1>5. CASE UNCHANGED vars
    BY <1>5 DEF vars, Ledger!ledgerVars, Total, Innermost, Counting
  <1> QED
    BY <1>1, <1>2, <1>3, <1>4, <1>5, LedgerOpen, LedgerClose DEF Next

LEMMA LedgerInit == BufferInit => Ledger!Init
  <1> SUFFICES ASSUME BufferInit PROVE Ledger!Init
    OBVIOUS
  <1>1. BufferInv
    BY BufferInitInv
  <1>2. Total = 0 /\ buffer.size \in Nat
    BY <1>1, TotalIsDemanded DEF BufferInit, Fresh, BufferInv, TypeOK
  <1> QED
    BY <1>2 DEF BufferInit, Fresh, Ledger!Init

(* For every buffer and every nesting, the encoder's answers are those of  *)
(* the ledger: out-of-memory exactly when the document exceeds the room,   *)
(* too many or too few exactly when the container holds other than it      *)
(* announced.                                                              *)
THEOREM BufferImplementsLedger ==
  ASSUME NoCountWraps PROVE BufferSpec => Ledger!Spec /\ ImplementsLedger
  <1>1. BufferInv /\ OwedInv /\ [Next]_vars => OwedInv'
    BY OwedNext
  <1>2. BufferInv /\ Started /\ [Next]_vars => Started'
    BY StartedNext
  <1>3. BufferInv /\ OwedInv /\ Started /\ [Next]_vars => [Ledger!Next]_(Ledger!ledgerVars)
    BY LedgerStep
  <1>4. BufferInit => Started
    BY DEF BufferInit, Fresh, Started
  <1>5. [Ledger!Next]_(Ledger!ledgerVars)
          => [Innermost.writer \/ Ledger!Next]_(Ledger!ledgerVars)
    OBVIOUS
  <1> QED
    BY BufferInvariant, OwedInit, LedgerInit, <1>1, <1>2, <1>3, <1>4, <1>5, PTL
       DEF BufferSpec, ImplementsLedger, Ledger!Spec
=============================================================================
