-------------------------- MODULE ValidationProofs --------------------------
(***************************************************************************)
(* The proofs of Validation.  The stack of frames stays within its limit   *)
(* because every level left to a frame was taken from the one around it,   *)
(* and the remembered keys stay behind the cursors because a frame's       *)
(* cursor waits where the one inside it began.                             *)
(*                                                                         *)
(* Callbacks move every cursor at once, so that a tag whose key was looked *)
(* up under keys_string is judged where the look ended (Adrift): nothing   *)
(* is known there but that a byte can be read.                             *)
(*                                                                         *)
(* The second part follows the walk through the grammar: its answer is     *)
(* true of the bytes, and it ends where an advance would (CourseInv).      *)
(***************************************************************************)
EXTENDS ValidationContract, GrammarProofs

Containers == {"none", "array", "map"}
Frames ==
  [it : Placed, container : Containers, left : 1 .. MAX_RECURSIONS, onKey : BOOLEAN,
   current : Nat, previous : {<< >>} \cup (Nat \X Nat)]

Adrift(c) ==
  /\ reader /\ c \in Placed /\ c.ptr < Limit
  /\ c.type = "tag" /\ c.remaining # 0

(* The containers of the walk are open and each is one level below the one *)
(* around it.                                                              *)
FramesInv ==
  /\ buf \in Seq(Byte) /\ reader \in BOOLEAN
  /\ frames \in Seq(Frames) /\ frames # << >>
  /\ \A k \in 1 .. Len(frames) :
       /\ frames[k].container = "none" <=> k = 1
       /\ frames[k].left <= MAX_RECURSIONS - k + 1
  /\ \A k \in 1 .. Len(frames) - 1 : frames[k].it.remaining # 0
  /\ left \in 1 .. MAX_RECURSIONS

(* What the innermost cursor stands on in each phase. *)
PhaseInv ==
  /\ phase \in {"item", "chunks", "after", "loop", "done"}
  /\ phase = "item" => left <= Top.left /\ (Here \in Stood \/ Adrift(Here))
  /\ phase = "chunks" =>
       Here.remaining # 0 /\ (~Here.unknown /\ Here.first => ~AtBreak(Here))
  /\ phase \in {"after", "loop"} => Here \in Stood
  /\ phase = "loop" => Len(frames) > 1

(* Keys, over a buffer: one that is remembered has been walked past; one   *)
(* that is being read begins after it; and the item inside the container   *)
(* is behind both when it is done.                                         *)
Remembered(f) ==
  /\ f.current <= f.it.ptr
  /\ f.previous # << >> =>
       /\ 1 <= f.previous[1] /\ f.previous[1] < f.previous[2]
       /\ f.previous[2] <= f.it.ptr
Underway(f) ==
  f.onKey => 1 <= f.current /\ (f.previous # << >> => f.previous[2] < f.current)
Passed(f) ==
  f.current < f.it.ptr /\ (f.previous # << >> => f.previous[2] < f.it.ptr)

Behind(s) ==
  /\ \A k \in 1 .. Len(s) : Remembered(s[k])
  /\ \A k \in 1 .. Len(s) - 1 : Underway(s[k]) /\ s[k].it.ptr < s[k + 1].it.ptr

KeysInv ==
  ~reader =>
    /\ Behind(frames)
    /\ phase \in {"item", "chunks", "after"} => Underway(Top)
    /\ phase \in {"after", "loop"} => Passed(Top)
    /\ phase = "chunks" /\ (Here.unknown \/ ~Here.first) => Passed(Top)

ValidationInv == FramesInv /\ PhaseInv /\ KeysInv

-----------------------------------------------------------------------------
(* Frames: what each record is made of, and a stack whose top is replaced  *)
(* while callbacks move all the cursors.                                   *)
PlacedAt(c, p) == [c EXCEPT !.ptr = p]
At(f, p) == [f EXCEPT !.it.ptr = p]
SameFrame(f, g) ==
  /\ f.container = g.container /\ f.left = g.left /\ f.onKey = g.onKey
  /\ f.current = g.current /\ f.previous = g.previous

LEMMA PlacedAtIs ==
  ASSUME buf \in Seq(Byte), NEW c \in Placed, NEW p \in 1 .. Limit
  PROVE  LET d == PlacedAt(c, p)
         IN  /\ d \in Placed /\ d.ptr = p /\ d.remaining = c.remaining /\ d.type = c.type
             /\ d.unknown = c.unknown /\ d.first = c.first /\ d.map = c.map /\ d.key = c.key
             /\ p = c.ptr => d = c
  <1> DEFINE d == PlacedAt(c, p)
  <1>1. p \in Nat /\ c \in Cursors
    BY BufferType DEF Placed
  <1>2. /\ d \in Cursors /\ d.ptr = p /\ d.remaining = c.remaining /\ d.type = c.type
        /\ d.unknown = c.unknown /\ d.first = c.first /\ d.extra = c.extra /\ d.wide = c.wide
        /\ d.map = c.map /\ d.key = c.key /\ d.iterating = c.iterating
    BY <1>1 DEF Cursors, PlacedAt
  <1> HIDE DEF d
  <1>3. d \in Placed
    BY <1>2 DEF Placed, Within
  <1>4. p = c.ptr => d = c
    BY <1>1, <1>2, CursorsEqual
  <1> QED
    BY <1>2, <1>3, <1>4 DEF d

LEMMA FramesEqual ==
  ASSUME NEW f \in Frames, NEW g \in Frames, SameFrame(f, g), f.it = g.it
  PROVE  f = g
  BY DEF Frames, SameFrame

LEMMA FrameFields ==
  ASSUME NEW f \in Frames
  PROVE  /\ f.it \in Placed /\ f.container \in Containers /\ f.left \in 1 .. MAX_RECURSIONS
         /\ f.onKey \in BOOLEAN /\ f.current \in Nat
         /\ f.previous = << >> \/ f.previous \in Nat \X Nat
  BY DEF Frames

LEMMA WithCursor ==
  ASSUME NEW f \in Frames, NEW c \in Placed
  PROVE  LET g == [f EXCEPT !.it = c]
         IN  g \in Frames /\ g.it = c /\ SameFrame(g, f)
  BY DEF Frames, SameFrame

LEMMA AtIs ==
  ASSUME buf \in Seq(Byte), NEW f \in Frames, NEW p \in 1 .. Limit
  PROVE  LET g == At(f, p)
         IN  /\ g \in Frames /\ SameFrame(g, f) /\ g.it = PlacedAt(f.it, p)
             /\ p = f.it.ptr => g = f
  <1> DEFINE g == At(f, p)
  <1>1. f.it \in Placed
    BY FrameFields
  <1>2. PlacedAt(f.it, p) \in Placed /\ (p = f.it.ptr => PlacedAt(f.it, p) = f.it)
    BY <1>1, PlacedAtIs
  <1>3. g = [f EXCEPT !.it = PlacedAt(f.it, p)]
    BY DEF At, PlacedAt
  <1> HIDE DEF g
  <1>4. g \in Frames /\ g.it = PlacedAt(f.it, p) /\ SameFrame(g, f)
    BY <1>2, <1>3, WithCursor
  <1>5. p = f.it.ptr => g = f
    BY <1>2, <1>4, FramesEqual
  <1> QED
    BY <1>4, <1>5 DEF g

LEMMA AllAtIs ==
  ASSUME buf \in Seq(Byte), NEW s \in Seq(Frames), NEW p \in 1 .. Limit
  PROVE  LET t == AllAt(s, p)
         IN  /\ t \in Seq(Frames) /\ Len(t) = Len(s)
             /\ \A k \in 1 .. Len(s) : t[k] = IF reader THEN At(s[k], p) ELSE s[k]
  <1>1. CASE ~reader
    BY <1>1 DEF AllAt
  <1>2. CASE reader
    <2> DEFINE t == [k \in DOMAIN s |-> At(s[k], p)]
    <2>1. AllAt(s, p) = t
      BY <1>2 DEF AllAt, At
    <2>2. DOMAIN s = 1 .. Len(s) /\ Len(s) \in Nat
      BY LenProperties
    <2>3. \A k \in 1 .. Len(s) : At(s[k], p) \in Frames
      BY ElementOfSeq, AtIs
    <2>4. t \in [1 .. Len(s) -> Frames] /\ \A k \in 1 .. Len(s) : t[k] = At(s[k], p)
      BY <2>2, <2>3
    <2> HIDE DEF t
    <2>5. t \in Seq(Frames)
      BY <2>2, <2>4, IsASeq
    <2>6. Len(t) = Len(s)
      BY <2>2, <2>4, <2>5, LenProperties
    <2> QED
      BY <1>2, <2>1, <2>4, <2>5, <2>6
  <1> QED
    BY <1>1, <1>2

Topped(s, g, p) == AllAt([s EXCEPT ![Len(s)] = g], p)

LEMMA Stacked ==
  ASSUME buf \in Seq(Byte), NEW s \in Seq(Frames), s # << >>, NEW g \in Frames,
         NEW p \in 1 .. Limit
  PROVE  LET t == Topped(s, g, p)
         IN  /\ t \in Seq(Frames) /\ Len(t) = Len(s)
             /\ t[Len(s)] = IF reader THEN At(g, p) ELSE g
             /\ \A k \in 1 .. Len(s) - 1 : t[k] = IF reader THEN At(s[k], p) ELSE s[k]
  <1> DEFINE r == [s EXCEPT ![Len(s)] = g]
  <1>1. /\ r \in Seq(Frames) /\ Len(r) = Len(s) /\ r[Len(r)] = g
        /\ \A i \in 1 .. Len(s) - 1 : r[i] = s[i]
    BY LastReplaced
  <1>2. Len(s) \in Nat \ {0}
    BY EmptySeq, LenProperties
  <1> HIDE DEF r
  <1>3. LET t == AllAt(r, p)
        IN  /\ t \in Seq(Frames) /\ Len(t) = Len(r)
            /\ \A k \in 1 .. Len(r) : t[k] = IF reader THEN At(r[k], p) ELSE r[k]
    BY <1>1, AllAtIs
  <1>4. \A k \in 1 .. Len(s) - 1 :
          AllAt(r, p)[k] = IF reader THEN At(s[k], p) ELSE s[k]
    BY <1>1, <1>2, <1>3
  <1>5. AllAt(r, p)[Len(s)] = IF reader THEN At(g, p) ELSE g
    BY <1>1, <1>2, <1>3
  <1> QED
    BY <1>1, <1>3, <1>4, <1>5 DEF r, Topped

(* The stack keeps its height and gets f for its top; callbacks may move   *)
(* the cursors below.                                                      *)
SameCount(c, d) == c.remaining = d.remaining /\ c.map = d.map /\ c.key = d.key
SameItem(c, d) == SameCount(c, d) /\ c.type = d.type
SameBelow(t, s, n) ==
  \A k \in 1 .. n :
    /\ SameFrame(t[k], s[k]) /\ SameItem(t[k].it, s[k].it)
    /\ ~reader => t[k] = s[k]
TopBecomes(f) ==
  /\ frames' \in Seq(Frames) /\ Len(frames') = Len(frames)
  /\ frames'[Len(frames)] = f /\ SameBelow(frames', frames, Len(frames) - 1)

LEMMA FramesStay == ASSUME buf' = buf PROVE Frames' = Frames
  BY PlacesStay DEF Frames, Containers

LEMMA TopIs ==
  ASSUME FramesInv
  PROVE  /\ Len(frames) \in Nat \ {0} /\ Top = frames[Len(frames)] /\ Top \in Frames
         /\ Here = Top.it /\ Here \in Placed /\ Here \in Cursors /\ Here.ptr \in 1 .. Limit
         /\ Top.left \in 1 .. MAX_RECURSIONS
  <1>1. Len(frames) \in Nat \ {0}
    BY EmptySeq, LenProperties DEF FramesInv
  <1>2. Top = frames[Len(frames)] /\ Top \in Frames
    BY <1>1, ElementOfSeq DEF FramesInv, Top, Last
  <1>3. Top.it \in Placed
    BY <1>2, FrameFields
  <1> QED
    BY <1>1, <1>2, <1>3, FrameFields DEF Here, Placed, Within

LEMMA AtBelow ==
  ASSUME buf \in Seq(Byte), NEW t, NEW s \in Seq(Frames), NEW p \in 1 .. Limit,
         NEW n \in Nat, n <= Len(s),
         \A k \in 1 .. n : t[k] = IF reader THEN At(s[k], p) ELSE s[k]
  PROVE  SameBelow(t, s, n)
  <1> SUFFICES ASSUME NEW k \in 1 .. n
               PROVE  /\ SameFrame(t[k], s[k]) /\ SameItem(t[k].it, s[k].it)
                      /\ ~reader => t[k] = s[k]
    BY DEF SameBelow
  <1>1. s[k] \in Frames
    BY ElementOfSeq, LenProperties
  <1>2. CASE reader
    <2>1. t[k] = At(s[k], p)
      BY <1>2
    <2>2. s[k].it \in Placed
      BY <1>1, FrameFields
    <2>3. SameFrame(t[k], s[k]) /\ t[k].it = PlacedAt(s[k].it, p)
      BY <1>1, <2>1, AtIs
    <2>4. SameItem(t[k].it, s[k].it)
      BY <2>2, <2>3, PlacedAtIs DEF SameItem, SameCount
    <2> QED
      BY <1>2, <2>3, <2>4
  <1>3. CASE ~reader
    BY <1>3 DEF SameFrame, SameItem, SameCount
  <1> QED
    BY <1>2, <1>3

LEMMA Replacing ==
  ASSUME FramesInv, NEW g \in Frames, NEW p \in 1 .. Limit,
         frames' = AllAt([frames EXCEPT ![Len(frames)] = g], p)
  PROVE  TopBecomes(IF reader THEN At(g, p) ELSE g)
  <1>1. /\ buf \in Seq(Byte) /\ frames \in Seq(Frames) /\ frames # << >>
        /\ Len(frames) \in Nat \ {0}
    BY TopIs DEF FramesInv
  <1> DEFINE t == Topped(frames, g, p)
             n == Len(frames) - 1
  <1>2. /\ t \in Seq(Frames) /\ Len(t) = Len(frames)
        /\ t[Len(frames)] = IF reader THEN At(g, p) ELSE g
        /\ \A k \in 1 .. n : t[k] = IF reader THEN At(frames[k], p) ELSE frames[k]
    BY <1>1, Stacked
  <1>3. n \in Nat /\ n <= Len(frames)
    BY <1>1
  <1>4. frames' = t
    BY DEF Topped
  <1> HIDE DEF t, n
  <1>5. SameBelow(t, frames, n)
    BY <1>1, <1>2, <1>3, AtBelow
  <1> QED
    BY <1>2, <1>4, <1>5 DEF TopBecomes, n

LEMMA Becoming ==
  ASSUME FramesInv, UNCHANGED << buf, reader >>, left' \in 1 .. MAX_RECURSIONS,
         NEW f \in Frames, f.container = Top.container, f.left = Top.left, TopBecomes(f)
  PROVE  FramesInv' /\ Top' = f /\ Here' = f.it /\ Len(frames') = Len(frames)
  <1> DEFINE n == Len(frames)
  <1>1. n \in Nat \ {0} /\ Top = frames[n]
    BY TopIs
  <1>2. /\ frames' \in Seq(Frames) /\ Len(frames') = n /\ frames'[n] = f
        /\ \A k \in 1 .. n - 1 :
             /\ frames'[k].container = frames[k].container
             /\ frames'[k].left = frames[k].left
             /\ frames'[k].it.remaining = frames[k].it.remaining
    BY DEF TopBecomes, SameBelow, SameFrame, SameItem, SameCount
  <1>3. Frames' = Frames /\ buf' \in Seq(Byte) /\ reader' \in BOOLEAN
    BY FramesStay DEF FramesInv
  <1> HIDE DEF n
  <1>4. frames' # << >>
    BY <1>1, <1>2, EmptySeq
  <1>5. /\ \A k \in 1 .. n : /\ frames[k].container = "none" <=> k = 1
                             /\ frames[k].left <= MAX_RECURSIONS - k + 1
        /\ \A k \in 1 .. n - 1 : frames[k].it.remaining # 0
    BY DEF FramesInv, n
  <1>6. \A k \in 1 .. n : /\ frames'[k].container = "none" <=> k = 1
                          /\ frames'[k].left <= MAX_RECURSIONS - k + 1
    <2> SUFFICES ASSUME NEW k \in 1 .. n
                 PROVE  /\ frames'[k].container = "none" <=> k = 1
                        /\ frames'[k].left <= MAX_RECURSIONS - k + 1
      OBVIOUS
    <2>1. CASE k = n
      BY <1>1, <1>2, <1>5, <2>1
    <2>2. CASE k # n
      <3>1. k \in 1 .. n - 1
        BY <1>1, <2>2
      <3> QED
        BY <1>2, <1>5, <3>1
    <2> QED
      BY <2>1, <2>2
  <1>7. \A k \in 1 .. n - 1 : frames'[k].it.remaining # 0
    BY <1>2, <1>5
  <1>8. FramesInv'
    BY <1>2, <1>3, <1>4, <1>6, <1>7 DEF FramesInv
  <1>9. Top' = f /\ Here' = f.it
    BY <1>2 DEF Top, Here, Last
  <1> QED
    BY <1>2, <1>8, <1>9 DEF n

LEMMA StaysBehind ==
  ASSUME FramesInv, NEW f \in Frames, TopBecomes(f), ~reader, Behind(frames),
         Remembered(f), f.it.ptr >= Here.ptr
  PROVE  Behind(frames')
  <1> DEFINE n == Len(frames)
  <1>1. n \in Nat \ {0} /\ Here = frames[n].it /\ Here.ptr \in Nat
    BY TopIs DEF Cursors
  <1>2. /\ Len(frames') = n /\ frames'[n] = f
        /\ \A k \in 1 .. n - 1 : frames'[k] = frames[k]
    BY DEF TopBecomes, SameBelow
  <1>3. f.it.ptr \in Nat
    BY FrameFields DEF Placed, Cursors
  <1>4. \A k \in 1 .. n : frames[k].it.ptr \in Nat
    <2> SUFFICES ASSUME NEW k \in 1 .. n PROVE frames[k].it.ptr \in Nat
      OBVIOUS
    <2>1. frames[k] \in Frames
      BY ElementOfSeq DEF FramesInv
    <2> QED
      BY <2>1, FrameFields DEF Placed, Cursors
  <1> HIDE DEF n
  <1>5. /\ \A k \in 1 .. n : Remembered(frames[k])
        /\ \A k \in 1 .. n - 1 : Underway(frames[k]) /\ frames[k].it.ptr < frames[k + 1].it.ptr
    BY DEF Behind, n
  <1>6. \A k \in 1 .. n : Remembered(frames'[k])
    <2> SUFFICES ASSUME NEW k \in 1 .. n PROVE Remembered(frames'[k])
      OBVIOUS
    <2>1. k = n \/ k \in 1 .. n - 1
      BY <1>1
    <2> QED
      BY <1>2, <1>5, <2>1
  <1>7. \A k \in 1 .. n - 1 : Underway(frames'[k]) /\ frames'[k].it.ptr < frames'[k + 1].it.ptr
    <2> SUFFICES ASSUME NEW k \in 1 .. n - 1
                 PROVE  Underway(frames'[k]) /\ frames'[k].it.ptr < frames'[k + 1].it.ptr
      OBVIOUS
    <2>1. frames'[k] = frames[k] /\ Underway(frames[k]) /\ frames[k].it.ptr < frames[k + 1].it.ptr
      BY <1>2, <1>5
    <2>2. CASE k + 1 = n
      <3>1. frames[k].it.ptr < Here.ptr /\ frames[k].it.ptr \in Nat
        BY <1>1, <1>4, <2>1, <2>2
      <3>2. frames'[k + 1].it.ptr = f.it.ptr
        BY <1>2, <2>2
      <3> QED
        BY <1>1, <1>3, <2>1, <3>1, <3>2
    <2>3. CASE k + 1 # n
      <3>1. k + 1 \in 1 .. n - 1
        BY <1>1, <2>3
      <3> QED
        BY <1>2, <2>1, <3>1
    <2> QED
      BY <2>2, <2>3
  <1> QED
    BY <1>2, <1>6, <1>7 DEF Behind

(* Most steps move the innermost cursor on. *)
LEMMA MovingTop ==
  ASSUME FramesInv, NEW c \in Placed, frames' = Moved(c)
  PROVE  TopBecomes([Top EXCEPT !.it = c])
  <1> DEFINE f == [Top EXCEPT !.it = c]
  <1>1. /\ Top \in Frames /\ Top = frames[Len(frames)] /\ buf \in Seq(Byte)
        /\ c.ptr \in 1 .. Limit
    BY TopIs DEF FramesInv, Placed, Within
  <1>2. f \in Frames /\ f.it = c
    BY <1>1, WithCursor
  <1>3. frames' = AllAt([frames EXCEPT ![Len(frames)] = f], c.ptr)
    BY <1>1 DEF Moved
  <1> HIDE DEF f
  <1>4. TopBecomes(IF reader THEN At(f, c.ptr) ELSE f)
    BY <1>1, <1>2, <1>3, Replacing
  <1>5. At(f, c.ptr) = f
    BY <1>1, <1>2, AtIs
  <1> QED
    BY <1>4, <1>5 DEF f

LEMMA Moving ==
  ASSUME ValidationInv, UNCHANGED << buf, reader >>, left' \in 1 .. MAX_RECURSIONS,
         NEW c \in Placed, frames' = Moved(c), ~reader => c.ptr >= Here.ptr
  PROVE  /\ FramesInv' /\ Here' = c /\ SameFrame(Top', Top) /\ Len(frames') = Len(frames)
         /\ ~reader => /\ Behind(frames)' /\ (Underway(Top) => Underway(Top)')
                       /\ c.ptr > Here.ptr \/ Passed(Top) => Passed(Top)'
  <1> DEFINE f == [Top EXCEPT !.it = c]
  <1>1. /\ FramesInv /\ Top \in Frames /\ Top = frames[Len(frames)] /\ Here = Top.it
        /\ Here.ptr \in 1 .. Limit
    BY TopIs DEF ValidationInv
  <1>2. f \in Frames /\ f.it = c /\ SameFrame(f, Top)
    BY <1>1, WithCursor
  <1>3. c.ptr \in 1 .. Limit /\ c.ptr \in Nat
    BY DEF Placed, Within, Cursors
  <1>8. TopBecomes(f)
    BY <1>1, MovingTop
  <1> HIDE DEF f
  <1>9. f.container = Top.container /\ f.left = Top.left
    BY <1>2 DEF SameFrame
  <1>10. FramesInv' /\ Top' = f /\ Here' = c /\ Len(frames') = Len(frames)
    BY <1>1, <1>2, <1>8, <1>9, Becoming
  <1>11. ASSUME ~reader
         PROVE  /\ Behind(frames)' /\ (Underway(Top) => Underway(Top)')
                /\ c.ptr > Here.ptr \/ Passed(Top) => Passed(Top)'
    <2>1. Behind(frames) /\ c.ptr >= Here.ptr
      BY <1>11 DEF ValidationInv, KeysInv
    <2>2. Remembered(Top)
      BY <1>1, <2>1, TopIs DEF Behind
    <2>3. /\ Top.current \in Nat /\ (Top.previous = << >> \/ Top.previous \in Nat \X Nat)
          /\ Here.ptr \in Nat
      BY <1>1, FrameFields, TopIs DEF Cursors
    <2>4. /\ f.current = Top.current /\ f.previous = Top.previous /\ f.onKey = Top.onKey
          /\ f.it.ptr = c.ptr
      BY <1>2 DEF SameFrame
    <2>5. Remembered(f) /\ (c.ptr > Here.ptr \/ Passed(Top) => Passed(f))
      <3>1. CASE Top.previous = << >>
        BY <1>1, <1>3, <2>1, <2>2, <2>3, <2>4, <3>1 DEF Remembered, Passed
      <3>2. CASE Top.previous # << >>
        <4>1. Top.previous[1] \in Nat /\ Top.previous[2] \in Nat
          BY <2>3, <3>2
        <4>2. /\ Top.current <= Here.ptr /\ 1 <= Top.previous[1]
              /\ Top.previous[1] < Top.previous[2] /\ Top.previous[2] <= Here.ptr
          BY <1>1, <2>2, <3>2 DEF Remembered
        <4>3. /\ Top.current <= c.ptr /\ Top.previous[2] <= c.ptr
              /\ c.ptr > Here.ptr => Top.current < c.ptr /\ Top.previous[2] < c.ptr
          BY <1>3, <2>1, <2>3, <4>1, <4>2
        <4>4. Passed(Top) => Top.current < c.ptr /\ Top.previous[2] < c.ptr
          BY <1>1, <1>3, <2>1, <2>3, <3>2, <4>1 DEF Passed
        <4> QED
          BY <2>4, <4>2, <4>3, <4>4 DEF Remembered, Passed
      <3> QED
        BY <3>1, <3>2
    <2>6. Behind(frames')
      BY <1>1, <1>2, <1>8, <1>11, <2>1, <2>5, StaysBehind
    <2>7. Underway(Top) => Underway(f)
      BY <2>4 DEF Underway
    <2>8. Underway(Top)' = Underway(f) /\ Passed(Top)' = Passed(f)
      BY <1>10 DEF Underway, Passed
    <2>9. Behind(frames)'
      BY <2>6 DEF Behind, Remembered, Underway
    <2> QED
      BY <2>5, <2>7, <2>8, <2>9
  <1> QED
    BY <1>2, <1>10, <1>11

-----------------------------------------------------------------------------
(* One lemma per action. *)
Unchanging == UNCHANGED << buf, reader, flags, value >>

LEMMA FramesRest ==
  ASSUME FramesInv, UNCHANGED << buf, reader, frames >>, left' \in 1 .. MAX_RECURSIONS
  PROVE  FramesInv' /\ Top' = Top /\ Here' = Here
  BY FramesStay DEF FramesInv, Top, Here, Last

LEMMA FailStep ==
  ASSUME ValidationInv, Unchanging, NEW err, Fail(err)
  PROVE  ValidationInv'
  <1>1. FramesInv' /\ phase' = "done" /\ frames' = frames /\ reader' = reader
    BY FramesRest DEF ValidationInv, FramesInv, Fail, Unchanging
  <1>2. PhaseInv'
    BY <1>1 DEF PhaseInv
  <1>3. KeysInv'
    <2>1. ~reader => Behind(frames')
      BY <1>1 DEF ValidationInv, KeysInv
    <2>2. ~reader' => Behind(frames)'
      BY <1>1, <2>1 DEF Behind, Remembered, Underway
    <2> QED
      BY <1>1, <2>2 DEF KeysInv
  <1> QED
    BY <1>1, <1>2, <1>3 DEF ValidationInv

LEMMA ValidatedStep ==
  ASSUME ValidationInv, Unchanging, phase \in {"item", "chunks"}, NEW r, Validated(r),
         r.err = "ok" => r.it \in Stood /\ r.it.ptr >= Here.ptr,
         r.err = "ok" /\ ~reader => r.it.ptr > Here.ptr \/ Passed(Top)
  PROVE  ValidationInv'
  <1>1. CASE r.err # "ok"
    BY <1>1, FailStep DEF Validated
  <1>2. CASE r.err = "ok"
    <2> DEFINE c == r.it
    <2>1. c \in Placed /\ c \in Stood /\ c.ptr >= Here.ptr
      BY <1>2 DEF Stood
    <2>2. /\ phase' = "after" /\ frames' = Moved(c) /\ left' = left
          /\ buf' = buf /\ reader' = reader
      BY <1>2 DEF Validated, Unchanging
    <2>3. left' \in 1 .. MAX_RECURSIONS
      BY <2>2 DEF ValidationInv, FramesInv
    <2>4. ~reader => c.ptr > Here.ptr \/ Passed(Top)
      BY <1>2
    <2> HIDE DEF c
    <2>5. /\ FramesInv' /\ Here' = c
          /\ ~reader => /\ Behind(frames)' /\ (Underway(Top) => Underway(Top)')
                        /\ c.ptr > Here.ptr \/ Passed(Top) => Passed(Top)'
      BY <2>1, <2>2, <2>3, Moving
    <2>6. PhaseInv'
      <3>1. Stood' = Stood
        BY <2>2, PlacesStay
      <3> QED
        BY <2>1, <2>2, <2>5, <3>1 DEF PhaseInv
    <2>7. KeysInv'
      <3>1. ~reader => Underway(Top)
        BY DEF ValidationInv, KeysInv
      <3> QED
        BY <2>2, <2>4, <2>5, <3>1 DEF KeysInv
    <2> QED
      BY <2>5, <2>6, <2>7 DEF ValidationInv
  <1> QED
    BY <1>1, <1>2

(* What stands on an item, and is not a stray tag. *)
LEMMA OnItem ==
  ASSUME ValidationInv, phase = "item", Here.type # "tag", Here.type # "invalid"
  PROVE  /\ Here \in Stood /\ HeadHere(Here) /\ Here.remaining # 0
         /\ buf \in Seq(Byte) /\ Here \in Cursors /\ Here.ptr \in 1 .. Limit
  <1>1. Here \in Stood /\ buf \in Seq(Byte) /\ Here \in Cursors /\ Here.ptr \in 1 .. Limit
    BY TopIs DEF ValidationInv, PhaseInv, FramesInv, Adrift
  <1> QED
    BY <1>1 DEF Stood, Standing

LEMMA FixedStep ==
  ASSUME ValidationInv, ValidateFixed, Unchanging PROVE ValidationInv'
  <1>1. phase = "item" /\ Here.type \in {"uint", "negative", "simple"}
    BY DEF ValidateFixed, AtItem
  <1>2. /\ HeadHere(Here) /\ Here.remaining # 0 /\ buf \in Seq(Byte) /\ Here \in Cursors
        /\ ~IsString(Here) /\ ~IsContainer(Here) /\ Here.ptr \in 1 .. Limit
    BY <1>1, OnItem DEF IsString, IsContainer, StringMajors, ContainerMajors
  <1>3. LET r == AdvanceInternal(Here)
        IN  /\ r.it \in Cursors /\ Within(r.it) /\ r.it.ptr > Here.ptr
            /\ r.err = "ok" => Standing(r.it)
    BY <1>2, AdvanceInternalProperties
  <1>4. CASE Here.type = "simple" /\ SimpleVerdict(Here) # "ok"
    BY <1>4, FailStep DEF ValidateFixed
  <1>5. CASE ~(Here.type = "simple" /\ SimpleVerdict(Here) # "ok")
    <2> DEFINE r == AdvanceInternal(Here)
    <2>1. Validated(r)
      BY <1>5 DEF ValidateFixed
    <2>2. r.it \in Cursors /\ Within(r.it) /\ r.it.ptr > Here.ptr
          /\ (r.err = "ok" => Standing(r.it))
      BY <1>3
    <2> HIDE DEF r
    <2>3. r.err = "ok" => r.it \in Stood
      BY <2>2 DEF Stood, Placed
    <2>4. r.it.ptr >= Here.ptr
      BY <1>2, <2>2, BufferType DEF Within
    <2> QED
      BY <1>1, <2>1, <2>2, <2>3, <2>4, ValidatedStep
  <1> QED
    BY <1>4, <1>5

(* A tag, also one that was left behind by the cursor. *)
LEMMA TagAdvances ==
  ASSUME ValidationInv, phase = "item", Here.type = "tag", AdvanceInternal(Here).err = "ok"
  PROVE  LET r == AdvanceInternal(Here)
         IN  r.it \in Stood /\ r.it.ptr >= Here.ptr
  <1>1. buf \in Seq(Byte) /\ Here \in Cursors /\ Here.ptr \in 1 .. Limit
    BY TopIs DEF ValidationInv, FramesInv
  <1>2. ~IsString(Here) /\ ~IsContainer(Here)
    BY DEF IsString, IsContainer, StringMajors, ContainerMajors
  <1>3. Here.ptr \in 1 .. Len(buf) /\ Here.remaining # 0
    <2>1. CASE Here \in Stood
      <3>1. Here.remaining # 0 /\ HeadHere(Here)
        BY <2>1 DEF Stood, Standing
      <3> QED
        BY <3>1 DEF HeadHere
    <2>2. CASE Adrift(Here)
      BY <1>1, <2>2, BufferType DEF Adrift
    <2> QED
      BY <2>1, <2>2 DEF ValidationInv, PhaseInv
  <1> DEFINE need == BytesNeeded(Descriptor(HeadByte(Here)))
             past == Advanced(Here, need + 1)
  <1>4. need \in Nat
    BY <1>1, <1>3, BufferType, HeadType, ReservedType DEF HeadByte
  <1>5. AdvanceInternal(Here) = PreparseNext(past)
    BY <1>2 DEF AdvanceInternal, PastHead
  <1> HIDE DEF need
  <1>6. need + 1 \in Nat
    BY <1>4
  <1>7. past \in Cursors /\ past.ptr = Here.ptr + (need + 1)
        /\ past.remaining = Here.remaining /\ past.type = "tag"
    BY <1>1, <1>6, AdvancedIs
  <1> HIDE DEF past
  <1>8. PreparseNext(past) = PreparseNoDecrement(past)
    BY <1>7 DEF PreparseNext, CountsAsItem
  <1>9. PreparseNoDecrement(past).err = "ok"
    BY <1>5, <1>8
  <1>10. CanRead(past, 1)
    <2>1. CASE past.remaining = U32Max /\ AtBreak(past)
      BY <2>1 DEF AtBreak
    <2>2. CASE ~(past.remaining = U32Max /\ AtBreak(past))
      BY <1>9, <2>2 DEF PreparseNoDecrement, PreparseValue, Result
    <2> QED
      BY <2>1, <2>2
  <1>11. Within(past)
    <2>1. past.ptr + 1 <= Limit
      BY <1>1, <1>7, <1>10, CanReadIs
    <2>2. Limit \in Nat /\ Here.ptr \in Nat /\ Here.ptr >= 1
      BY <1>1, BufferType
    <2> QED
      BY <1>4, <1>7, <2>1, <2>2 DEF Within
  <1>12. LET r == PreparseNext(past)
         IN  r.it \in Cursors /\ r.it.ptr = past.ptr /\ (r.err = "ok" => Standing(r.it))
    BY <1>1, <1>3, <1>7, <1>11, NextProperties
  <1>13. PreparseNext(past).it \in Stood
    BY <1>5, <1>11, <1>12 DEF Stood, Placed, Within
  <1>14. past.ptr >= Here.ptr
    BY <1>1, <1>4, <1>7, BufferType
  <1> QED
    BY <1>5, <1>12, <1>13, <1>14

LEMMA TagStep ==
  ASSUME ValidationInv, ValidateTag, Unchanging PROVE ValidationInv'
  <1> DEFINE r == AdvanceInternal(Here)
             verdict == TagVerdict(Int64(Here), r.it, left - 1)
  <1>1. phase = "item" /\ Here.type = "tag" /\ left \in 1 .. MAX_RECURSIONS
    BY DEF ValidateTag, AtItem, ValidationInv, FramesInv
  <1>2. CASE r.err # "ok"
    BY <1>2, FailStep DEF ValidateTag
  <1>3. CASE r.err = "ok" /\ verdict # "ok"
    BY <1>3, FailStep DEF ValidateTag
  <1>4. CASE r.err = "ok" /\ verdict = "ok"
    <2>1. frames' = Moved(r.it) /\ left' = left - 1 /\ phase' = phase
      BY <1>4 DEF ValidateTag
    <2>2. left - 1 # 0
      BY <1>4 DEF TagVerdict, TooDeep
    <2>3. r.it \in Stood /\ r.it.ptr >= Here.ptr
      BY <1>1, <1>4, TagAdvances
    <2> DEFINE c == r.it
    <2>4. c \in Placed /\ c \in Stood /\ c.ptr >= Here.ptr /\ frames' = Moved(c)
      BY <2>1, <2>3 DEF Stood
    <2> HIDE DEF r, verdict, c
    <2>5. left' \in 1 .. MAX_RECURSIONS /\ left' <= left /\ left \in Nat
      BY <1>1, <2>1, <2>2, ValidationAssumption
    <2>6. UNCHANGED << buf, reader >>
      BY DEF Unchanging
    <2>7. /\ FramesInv' /\ Here' = c /\ SameFrame(Top', Top)
          /\ ~reader => Behind(frames)' /\ (Underway(Top) => Underway(Top)')
      BY <2>4, <2>5, <2>6, Moving
    <2>8. PhaseInv'
      <3>1. Stood' = Stood
        BY <2>6, PlacesStay
      <3>2. left <= Top.left /\ Top.left \in Nat /\ Top'.left = Top.left
        BY <1>1, <2>7, TopIs DEF ValidationInv, PhaseInv, SameFrame
      <3>3. left' <= Top'.left
        BY <2>5, <3>2
      <3> QED
        BY <1>1, <2>1, <2>4, <2>7, <3>1, <3>3 DEF PhaseInv
    <2>9. KeysInv'
      BY <1>1, <2>1, <2>6, <2>7 DEF ValidationInv, KeysInv
    <2> QED
      BY <2>7, <2>8, <2>9 DEF ValidationInv
  <1> QED
    BY <1>2, <1>3, <1>4

LEMMA StringStep ==
  ASSUME ValidationInv, ValidateString, Unchanging PROVE ValidationInv'
  <1> DEFINE c == BeginStringIteration(Here)
  <1>1. phase = "item" /\ Here.type \in StringMajors /\ left \in 1 .. MAX_RECURSIONS
    BY DEF ValidateString, AtItem, ValidationInv, FramesInv, IsString
  <1>2. /\ HeadHere(Here) /\ Here.remaining # 0 /\ buf \in Seq(Byte) /\ Here \in Cursors
        /\ Here.ptr \in 1 .. Limit
    BY <1>1, OnItem DEF StringMajors
  <1>3. /\ c \in Cursors /\ c.ptr = IF Here.unknown THEN Here.ptr + 1 ELSE Here.ptr
        /\ c.type = Here.type /\ c.remaining = Here.remaining /\ c.unknown = Here.unknown
        /\ c.first = TRUE
    BY <1>2, BeginProperties
  <1>4. frames' = Moved(c) /\ phase' = "chunks" /\ left' = left
    BY DEF ValidateString
  <1> HIDE DEF c
  <1>5. Here.ptr < Limit /\ Limit \in Nat /\ Here.ptr \in Nat /\ HeadByte(Here) \in Byte
    BY <1>2, HeadProperties, BufferType
  <1>6. c \in Placed /\ c.ptr >= Here.ptr /\ (c.unknown => c.ptr > Here.ptr)
    BY <1>2, <1>3, <1>5 DEF Placed, Within
  <1>7. ~c.unknown => ~AtBreak(c)
    <2> SUFFICES ASSUME ~c.unknown PROVE HeadByte(c) # BreakByte
      BY DEF AtBreak
    <2>1. HeadByte(c) = HeadByte(Here)
      BY <1>3 DEF HeadByte
    <2>2. Descriptor(HeadByte(Here)) <= Value64Bit
      BY <1>2, <1>3 DEF HeadHere
    <2>3. Descriptor(BreakByte) = IndefiniteLength
      BY DescriptorsAssumption DEF Descriptor, BreakByte, IndefiniteLength
    <2> QED
      BY <2>1, <2>2, <2>3, DescriptorsAssumption DEF IndefiniteLength
  <1>8. left' \in 1 .. MAX_RECURSIONS /\ UNCHANGED << buf, reader >>
    BY <1>1, <1>4 DEF Unchanging
  <1>9. /\ FramesInv' /\ Here' = c
        /\ ~reader => /\ Behind(frames)' /\ (Underway(Top) => Underway(Top)')
                      /\ c.ptr > Here.ptr \/ Passed(Top) => Passed(Top)'
    BY <1>4, <1>6, <1>8, Moving
  <1>10. PhaseInv'
    <2>1. AtBreak(Here)' = AtBreak(c)
      BY <1>8, <1>9 DEF AtBreak, CanRead, HeadByte, Limit
    <2> QED
      BY <1>2, <1>3, <1>4, <1>7, <1>9, <2>1 DEF PhaseInv
  <1>11. KeysInv'
    BY <1>1, <1>3, <1>4, <1>6, <1>8, <1>9 DEF ValidationInv, KeysInv
  <1> QED
    BY <1>9, <1>10, <1>11 DEF ValidationInv

LEMMA ChunkStep ==
  ASSUME ValidationInv, ValidateChunk, Unchanging PROVE ValidationInv'
  <1> DEFINE chunk == GetChunk(Here)
             c == chunk.it
             r == FinishStringIteration(Here)
  <1>1. /\ phase = "chunks" /\ Here.remaining # 0 /\ buf \in Seq(Byte)
        /\ ~Here.unknown /\ Here.first => ~AtBreak(Here)
        /\ Here \in Cursors /\ Here \in Placed /\ Here.ptr \in 1 .. Limit
        /\ left \in 1 .. MAX_RECURSIONS
    BY TopIs DEF ValidateChunk, ValidationInv, PhaseInv, FramesInv
  <1>2. /\ c \in Cursors /\ c.remaining = Here.remaining /\ c.unknown = Here.unknown
        /\ chunk.err = "ok" => c.ptr > Here.ptr /\ Within(c) /\ ~c.first
        /\ chunk.err = "no_more_chunks" => AtBreak(Here) \/ (~Here.unknown /\ ~Here.first)
    BY <1>1, ChunkProperties
  <1>3. CASE chunk.err = "no_more_chunks"
    <2>1. Validated(r)
      BY <1>3 DEF ValidateChunk
    <2>2. /\ r.it \in Cursors /\ Within(r.it)
          /\ r.it.ptr = IF Here.unknown THEN Here.ptr + 1 ELSE Here.ptr
          /\ r.err = "ok" => Standing(r.it)
      <3>1. Here.unknown => AtBreak(Here)
        BY <1>2, <1>3
      <3>2. Within(Here)
        BY <1>1 DEF Within
      <3> QED
        BY <1>1, <3>1, <3>2, FinishProperties
    <2>3. ~Here.unknown => ~Here.first
      BY <1>1, <1>2, <1>3
    <2>4. ~reader => Here.unknown \/ Passed(Top)
      BY <1>1, <2>3 DEF ValidationInv, KeysInv
    <2> HIDE DEF r
    <2>5. r.err = "ok" => r.it \in Stood
      BY <2>2 DEF Stood, Placed
    <2>6. Here.ptr \in Nat
      BY <1>1, BufferType
    <2>7. r.it.ptr >= Here.ptr /\ (Here.unknown => r.it.ptr > Here.ptr)
      BY <2>2, <2>6
    <2> QED
      BY <1>1, <2>1, <2>4, <2>5, <2>7, ValidatedStep
  <1>4. CASE chunk.err = "ok" /\ ChunkVerdict(Here, chunk.it) # "ok"
    BY <1>4, FailStep DEF ValidateChunk
  <1>5. CASE chunk.err = "ok" /\ ChunkVerdict(Here, chunk.it) = "ok"
    <2>1. frames' = Moved(c) /\ left' = left /\ phase' = phase
      BY <1>5 DEF ValidateChunk
    <2>2. c.ptr > Here.ptr /\ Within(c) /\ ~c.first
      BY <1>2, <1>5
    <2> HIDE DEF c, chunk
    <2>3. c \in Placed
      BY <1>2, <2>2 DEF Placed
    <2>4. c.ptr >= Here.ptr
      BY <1>1, <1>2, <2>2, BufferType DEF Cursors
    <2>5. left' \in 1 .. MAX_RECURSIONS /\ UNCHANGED << buf, reader >>
      BY <1>1, <2>1 DEF Unchanging
    <2>6. /\ FramesInv' /\ Here' = c
          /\ ~reader => /\ Behind(frames)' /\ (Underway(Top) => Underway(Top)')
                        /\ c.ptr > Here.ptr \/ Passed(Top) => Passed(Top)'
      BY <2>1, <2>3, <2>4, <2>5, Moving
    <2>7. PhaseInv'
      BY <1>1, <1>2, <2>1, <2>2, <2>6 DEF PhaseInv
    <2>8. KeysInv'
      BY <1>1, <2>1, <2>2, <2>5, <2>6 DEF ValidationInv, KeysInv
    <2> QED
      BY <2>6, <2>7, <2>8 DEF ValidationInv
  <1>6. CASE chunk.err \notin {"ok", "no_more_chunks"}
    BY <1>6, FailStep DEF ValidateChunk
  <1> QED
    BY <1>3, <1>4, <1>5, <1>6

LEMMA RefuseStep ==
  ASSUME ValidationInv, RefuseHead \/ ValidateInvalid, Unchanging PROVE ValidationInv'
  BY FailStep DEF RefuseHead, ValidateInvalid

LEMMA AnswerStep ==
  ASSUME ValidationInv, Answer, Unchanging PROVE ValidationInv'
  <1>1. phase' = "done" /\ frames' = frames /\ left' = left /\ UNCHANGED << buf, reader >>
    BY DEF Answer, Unchanging
  <1>2. FramesInv'
    BY <1>1, FramesRest DEF ValidationInv, FramesInv
  <1>3. PhaseInv'
    BY <1>1 DEF PhaseInv
  <1>4. ~reader' => Behind(frames)'
    BY <1>1 DEF ValidationInv, KeysInv, Behind, Remembered, Underway
  <1> QED
    BY <1>1, <1>2, <1>3, <1>4 DEF ValidationInv, KeysInv

(* A frame is put on top of the stack, its cursor beyond the others. *)
LEMMA Pushing ==
  ASSUME FramesInv, NEW g \in Frames
  PROVE  LET t == AllAt(Append(frames, g), g.it.ptr)
             n == Len(frames)
         IN  /\ t \in Seq(Frames) /\ Len(t) = n + 1 /\ t[n + 1] = g
             /\ SameBelow(t, frames, n)
  <1> DEFINE n == Len(frames)
             s == Append(frames, g)
             p == g.it.ptr
             t == AllAt(s, p)
  <1>1. frames \in Seq(Frames) /\ buf \in Seq(Byte) /\ n \in Nat \ {0}
    BY TopIs DEF FramesInv
  <1>2. p \in 1 .. Limit
    BY FrameFields DEF Placed, Within
  <1>3. /\ s \in Seq(Frames) /\ Len(s) = n + 1 /\ s[n + 1] = g
        /\ \A i \in 1 .. n : s[i] = frames[i]
    BY <1>1, LastAppended
  <1> HIDE DEF n, s
  <1>4. /\ t \in Seq(Frames) /\ Len(t) = n + 1
        /\ \A k \in 1 .. n + 1 : t[k] = IF reader THEN At(s[k], p) ELSE s[k]
    BY <1>1, <1>2, <1>3, AllAtIs
  <1>5. At(g, p) = g
    BY <1>1, <1>2, AtIs
  <1>6. t[n + 1] = g
    BY <1>1, <1>3, <1>4, <1>5
  <1>7. \A k \in 1 .. n : t[k] = IF reader THEN At(frames[k], p) ELSE frames[k]
    BY <1>1, <1>3, <1>4
  <1> HIDE DEF t, p
  <1>8. n <= Len(frames) /\ n \in Nat
    BY <1>1 DEF n
  <1>9. SameBelow(t, frames, n)
    BY <1>1, <1>2, <1>7, <1>8, AtBelow
  <1> QED
    BY <1>4, <1>6, <1>9 DEF n, s, t, p

(* A container is one level more, and its cursor begins beyond the outer. *)
LEMMA ContainerStep ==
  ASSUME ValidationInv, ValidateContainer, Unchanging PROVE ValidationInv'
  <1> DEFINE r == EnterContainer(Here)
             n == Len(frames)
             g == Frame(r.it, Here.type, left - 1)
             p == r.it.ptr
             t == AllAt(Append(frames, g), p)
  <1>1. /\ phase = "item" /\ Here.type \in ContainerMajors /\ left \in 1 .. MAX_RECURSIONS
        /\ IsContainer(Here) /\ FramesInv
    BY DEF ValidateContainer, AtItem, ValidationInv, FramesInv, IsContainer
  <1>2. /\ HeadHere(Here) /\ Here.remaining # 0 /\ buf \in Seq(Byte) /\ Here \in Cursors
        /\ Here.ptr \in 1 .. Limit /\ Here \in Stood
    BY <1>1, OnItem DEF ContainerMajors
  <1>3. CASE r.err # "ok"
    BY <1>3, FailStep DEF ValidateContainer
  <1>4. CASE r.err = "ok" /\ TooDeep(left - 1)
    BY <1>4, FailStep DEF ValidateContainer
  <1>5. CASE r.err = "ok" /\ ~TooDeep(left - 1)
    <2>1. frames' = t /\ phase' = "loop" /\ left' = left /\ UNCHANGED << buf, reader >>
      BY <1>5 DEF ValidateContainer, Unchanging
    <2>2. r.it \in Stood /\ r.it \in Placed /\ p > Here.ptr /\ p \in 1 .. Limit
      BY <1>1, <1>2, <1>5, EnterProperties DEF Stood, Placed, Within
    <2>3. left - 1 \in 1 .. MAX_RECURSIONS /\ left - 1 <= Top.left - 1 /\ left \in Nat
      BY <1>1, <1>5, ValidationAssumption, TopIs DEF TooDeep, ValidationInv, PhaseInv
    <2>4. /\ g \in Frames /\ g.it = r.it /\ g.container = Here.type /\ g.left = left - 1
          /\ g.previous = << >> /\ g.current = 0 /\ g.onKey = (Here.type = "map")
      BY <1>1, <2>2, <2>3 DEF Frame, Frames, Containers, ContainerMajors
    <2>5. /\ n \in Nat \ {0} /\ Top = frames[n] /\ Here = Top.it /\ frames \in Seq(Frames)
      BY <1>1, TopIs DEF FramesInv
    <2>6. g.container # "none"
      BY <1>1, <2>4 DEF ContainerMajors
    <2> HIDE DEF g, r, n
    <2>7. /\ t \in Seq(Frames) /\ Len(t) = n + 1 /\ t[n + 1] = g
          /\ SameBelow(t, frames, n)
      BY <1>1, <2>2, <2>4, Pushing DEF n, t
    <2> HIDE DEF t
    <2>13. FramesInv'
      <3>1. Frames' = Frames /\ buf' \in Seq(Byte) /\ reader' \in BOOLEAN
        BY <1>1, <2>1, FramesStay DEF FramesInv
      <3>2. frames' # << >>
        BY <2>1, <2>5, <2>7, EmptySeq
      <3>3. /\ \A k \in 1 .. n : /\ frames[k].container = "none" <=> k = 1
                                 /\ frames[k].left <= MAX_RECURSIONS - k + 1
            /\ \A k \in 1 .. n - 1 : frames[k].it.remaining # 0
        BY <1>1 DEF FramesInv, n
      <3>4. \A k \in 1 .. n : /\ t[k].container = frames[k].container
                              /\ t[k].left = frames[k].left
                              /\ t[k].it.remaining = frames[k].it.remaining
        BY <2>7 DEF SameBelow, SameFrame, SameItem, SameCount
      <3>5. \A k \in 1 .. n + 1 : /\ t[k].container = "none" <=> k = 1
                                  /\ t[k].left <= MAX_RECURSIONS - k + 1
        <4> SUFFICES ASSUME NEW k \in 1 .. n + 1
                     PROVE  /\ t[k].container = "none" <=> k = 1
                            /\ t[k].left <= MAX_RECURSIONS - k + 1
          OBVIOUS
        <4>1. CASE k \in 1 .. n
          BY <3>3, <3>4, <4>1
        <4>2. CASE k \notin 1 .. n
          <5>1. k = n + 1 /\ k # 1
            BY <2>5, <4>2
          <5>2. Top.left <= MAX_RECURSIONS - n + 1 /\ Top.left \in Nat
            BY <1>1, <2>5, <3>3, TopIs
          <5>3. t[k].container # "none" /\ t[k].left = left - 1
            BY <2>4, <2>6, <2>7, <5>1
          <5>4. MAX_RECURSIONS \in Nat
            BY ValidationAssumption
          <5>5. left - 1 <= MAX_RECURSIONS - k + 1
            BY <2>3, <2>5, <5>1, <5>2, <5>4
          <5> QED
            BY <5>1, <5>3, <5>5
        <4> QED
          BY <4>1, <4>2
      <3>6. \A k \in 1 .. (n + 1) - 1 : t[k].it.remaining # 0
        <4> SUFFICES ASSUME NEW k \in 1 .. n PROVE t[k].it.remaining # 0
          BY <2>5
        <4>1. k = n \/ k \in 1 .. n - 1
          BY <2>5
        <4> QED
          BY <1>2, <2>5, <3>3, <3>4, <4>1
      <3> QED
        BY <1>1, <2>1, <2>7, <3>1, <3>2, <3>5, <3>6 DEF FramesInv
    <2>14. Top' = g /\ Here' = r.it /\ Len(frames') = n + 1
      BY <2>1, <2>4, <2>7 DEF Top, Here, Last
    <2>15. PhaseInv'
      <3>1. Stood' = Stood
        BY <2>1, PlacesStay
      <3> QED
        BY <2>1, <2>2, <2>5, <2>14, <3>1 DEF PhaseInv
    <2>16. KeysInv'
      <3> SUFFICES ASSUME ~reader PROVE Behind(frames)' /\ Passed(Top)'
        BY <2>1 DEF KeysInv
      <3>1. Behind(frames) /\ Underway(frames[n])
        BY <1>1, <2>5 DEF ValidationInv, KeysInv
      <3>2. \A k \in 1 .. n : t[k] = frames[k]
        BY <2>7 DEF SameBelow
      <3>3. Remembered(g) /\ Passed(g) /\ g.it.ptr = p /\ p \in Nat
        BY <1>2, <2>2, <2>4, BufferType DEF Remembered, Passed
      <3>4. \A k \in 1 .. n + 1 : Remembered(t[k])
        <4> SUFFICES ASSUME NEW k \in 1 .. n + 1 PROVE Remembered(t[k])
          OBVIOUS
        <4>1. k = n + 1 \/ k \in 1 .. n
          BY <2>5
        <4> QED
          BY <2>7, <3>1, <3>2, <3>3, <4>1 DEF Behind, n
      <3>5. \A k \in 1 .. n : Underway(t[k]) /\ t[k].it.ptr < t[k + 1].it.ptr
        <4> SUFFICES ASSUME NEW k \in 1 .. n
                     PROVE  Underway(t[k]) /\ t[k].it.ptr < t[k + 1].it.ptr
          OBVIOUS
        <4>1. CASE k = n
          BY <1>2, <2>2, <2>5, <2>7, <3>1, <3>2, <3>3, <4>1, BufferType
        <4>2. CASE k # n
          <5>1. k \in 1 .. n - 1 /\ k + 1 \in 1 .. n
            BY <2>5, <4>2
          <5>2. Underway(frames[k]) /\ frames[k].it.ptr < frames[k + 1].it.ptr
            BY <3>1, <5>1 DEF Behind, n
          <5> QED
            BY <3>2, <5>1, <5>2
        <4> QED
          BY <4>1, <4>2
      <3>6. Behind(t)
        BY <2>5, <2>7, <3>4, <3>5 DEF Behind
      <3> QED
        BY <2>1, <2>14, <3>3, <3>6 DEF Behind, Remembered, Underway, Passed
    <2> QED
      BY <2>13, <2>15, <2>16 DEF ValidationInv
  <1> QED
    BY <1>3, <1>4, <1>5

(* The top of the stack is taken away, and the cursor below moved on. *)
LEMMA Popping ==
  ASSUME FramesInv, Len(frames) > 1, NEW c \in Placed
  PROVE  LET n == Len(frames)
             g == [frames[n - 1] EXCEPT !.it = c]
             t == Topped(Front(frames), g, c.ptr)
         IN  /\ t \in Seq(Frames) /\ Len(t) = n - 1 /\ t[n - 1] = g
             /\ SameBelow(t, frames, n - 2)
             /\ g \in Frames /\ g.it = c /\ SameFrame(g, frames[n - 1])
  <1> DEFINE n == Len(frames)
             s == Front(frames)
             g == [frames[n - 1] EXCEPT !.it = c]
             p == c.ptr
             t == Topped(s, g, p)
             m == n - 1
             j == n - 2
  <1>1. /\ frames \in Seq(Frames) /\ buf \in Seq(Byte) /\ frames # << >>
        /\ n \in Nat /\ n > 1 /\ p \in 1 .. Limit
    BY TopIs DEF FramesInv, Placed, Within
  <1>2. s \in Seq(Frames) /\ Len(s) = m /\ \A i \in 1 .. m : s[i] = frames[i]
    BY <1>1, AllButLast DEF Front
  <1>3. m \in Nat \ {0} /\ m \in 1 .. n /\ j \in Nat /\ m - 1 = j /\ j <= n /\ j <= m
    <2> HIDE DEF n
    <2> QED
      BY <1>1
  <1>4. frames[m] \in Frames
    BY <1>1, <1>3, ElementOfSeq
  <1>5. g \in Frames /\ g.it = c /\ SameFrame(g, frames[m])
    BY <1>4, WithCursor
  <1> HIDE DEF s, g, m, n
  <1>6. s # << >>
    BY <1>2, <1>3, EmptySeq
  <1> HIDE DEF p
  <1>7. /\ t \in Seq(Frames) /\ Len(t) = m /\ t[m] = IF reader THEN At(g, p) ELSE g
        /\ \A k \in 1 .. j : t[k] = IF reader THEN At(s[k], p) ELSE s[k]
    <2> HIDE DEF j
    <2>1. /\ t \in Seq(Frames) /\ Len(t) = Len(s)
          /\ t[Len(s)] = IF reader THEN At(g, p) ELSE g
          /\ \A k \in 1 .. Len(s) - 1 : t[k] = IF reader THEN At(s[k], p) ELSE s[k]
      BY <1>1, <1>2, <1>5, <1>6, Stacked
    <2> QED
      BY <1>2, <1>3, <2>1
  <1>8. At(g, p) = g
    BY <1>1, <1>5, AtIs DEF p
  <1>9. \A k \in 1 .. j : t[k] = IF reader THEN At(frames[k], p) ELSE frames[k]
    <2>1. \A k \in 1 .. j : k \in 1 .. m
      BY <1>3
    <2> QED
      BY <1>2, <1>7, <2>1
  <1> HIDE DEF t, j
  <1>10. SameBelow(t, frames, j)
    BY <1>1, <1>3, <1>9, AtBelow DEF n
  <1> QED
    BY <1>5, <1>7, <1>8, <1>10 DEF n, m, j, s, g, t, p

(* The cursor outside goes on where the container ended, beyond the        *)
(* beginning of the item inside it.                                        *)
LEMMA LeaveStep ==
  ASSUME ValidationInv, LeaveFrame, Unchanging PROVE ValidationInv'
  <1> DEFINE n == Len(frames)
             s == Front(frames)
             outer == frames[n - 1]
             r == LeaveContainer(outer.it, Here)
             c == r.it
             g == [outer EXCEPT !.it = c]
             t == Topped(s, g, c.ptr)
  <1>1. /\ phase = "loop" /\ Here.type = "invalid" /\ left \in 1 .. MAX_RECURSIONS
        /\ FramesInv /\ buf \in Seq(Byte) /\ frames \in Seq(Frames) /\ frames # << >>
        /\ Here \in Stood /\ n > 1
    BY DEF LeaveFrame, ValidationInv, FramesInv, PhaseInv
  <1>2. /\ n \in Nat \ {0} /\ Top = frames[n] /\ Here = Top.it
        /\ Here.ptr \in 1 .. Limit /\ Here \in Cursors
    BY <1>1, TopIs
  <1>3. /\ s \in Seq(Frames) /\ Len(s) = n - 1 /\ \A i \in 1 .. n - 1 : s[i] = frames[i]
    BY <1>1, AllButLast DEF Front
  <1>4. n - 1 \in 1 .. n - 1 /\ n - 1 \in Nat \ {0} /\ s # << >>
    BY <1>1, <1>2, <1>3, EmptySeq
  <1>5. Last(s) = outer /\ s[n - 1] = outer /\ outer \in Frames
    BY <1>1, <1>3, <1>4, ElementOfSeq DEF Last
  <1>6. outer.it \in Cursors /\ outer.it.remaining # 0 /\ outer.it \in Placed
    BY <1>1, <1>4, <1>5, FrameFields DEF FramesInv, Placed
  <1>7. Standing(Here) /\ Here.remaining = 0
    <2>1. Standing(Here)
      BY <1>1 DEF Stood
    <2>2. CASE Here.remaining # 0
      BY <1>1, <1>2, <2>1, <2>2, HeadProperties DEF Standing
    <2> QED
      BY <2>1, <2>2
  <1>8. CASE r.err # "ok"
    BY <1>5, <1>8, FailStep DEF LeaveFrame
  <1>9. CASE r.err = "ok"
    <2>1. frames' = AllAt([s EXCEPT ![Len(s)].it = c], c.ptr) /\ phase' = "after"
          /\ left' = left /\ UNCHANGED << buf, reader >>
      BY <1>5, <1>9 DEF LeaveFrame, Unchanging
    <2>2. frames' = t
      BY <1>3, <1>5, <2>1 DEF Topped
    <2>3. /\ c \in Cursors /\ Within(c) /\ c.ptr >= Here.ptr /\ Standing(c)
      BY <1>1, <1>6, <1>7, <1>9, LeaveProperties
    <2> HIDE DEF r, c
    <2>4. c \in Placed /\ c \in Stood /\ c.ptr \in 1 .. Limit
      BY <2>3 DEF Placed, Stood, Within
    <2>5. /\ t \in Seq(Frames) /\ Len(t) = n - 1 /\ t[n - 1] = g
          /\ SameBelow(t, frames, n - 2) /\ g \in Frames /\ g.it = c /\ SameFrame(g, outer)
      BY <1>1, <2>4, Popping
    <2> DEFINE m == n - 1
    <2>6. m \in Nat \ {0} /\ n = m + 1 /\ m - 1 = n - 2 /\ n \in Nat
      <3> HIDE DEF n
      <3> QED
        BY <1>2, <1>4
    <2> HIDE DEF outer, g, s, t, n
    <2>7. outer = frames[m]
      BY DEF outer
    <2> HIDE DEF m
    <2>8. Len(t) = m /\ t[m] = g
      BY <2>5 DEF m
    <2>9. SameBelow(t, frames, m - 1)
      BY <2>5, <2>6
    <2>10. FramesInv'
      <3>1. Frames' = Frames /\ buf' \in Seq(Byte) /\ reader' \in BOOLEAN
        BY <1>1, <2>1, FramesStay DEF FramesInv
      <3>2. frames' # << >>
        BY <2>2, <2>6, <2>8, EmptySeq
      <3>3. /\ \A k \in 1 .. m : /\ frames[k].container = "none" <=> k = 1
                                 /\ frames[k].left <= MAX_RECURSIONS - k + 1
            /\ \A k \in 1 .. m - 1 : frames[k].it.remaining # 0
        BY <1>1, <2>6, <2>7 DEF FramesInv, n
      <3>4. \A k \in 1 .. m - 1 : /\ t[k].container = frames[k].container
                                  /\ t[k].left = frames[k].left
                                  /\ t[k].it.remaining = frames[k].it.remaining
        BY <2>9 DEF SameBelow, SameFrame, SameItem, SameCount
      <3>5. t[m].container = frames[m].container /\ t[m].left = frames[m].left
        BY <2>5, <2>8, <2>7 DEF SameFrame
      <3>6. \A k \in 1 .. m : /\ t[k].container = "none" <=> k = 1
                              /\ t[k].left <= MAX_RECURSIONS - k + 1
        <4> SUFFICES ASSUME NEW k \in 1 .. m
                     PROVE  /\ t[k].container = "none" <=> k = 1
                            /\ t[k].left <= MAX_RECURSIONS - k + 1
          OBVIOUS
        <4>1. k = m \/ k \in 1 .. m - 1
          BY <2>6
        <4>2. t[k].container = frames[k].container /\ t[k].left = frames[k].left
          BY <3>4, <3>5, <4>1
        <4> QED
          BY <3>3, <4>2
      <3>7. \A k \in 1 .. m - 1 : t[k].it.remaining # 0
        BY <3>3, <3>4
      <3> QED
        BY <1>1, <2>1, <2>2, <2>5, <2>8, <3>1, <3>2, <3>6, <3>7 DEF FramesInv
    <2>11. Top' = g /\ Here' = c
      BY <2>2, <2>5, <2>8 DEF Top, Here, Last
    <2>12. PhaseInv'
      <3>1. Stood' = Stood
        BY <2>1, PlacesStay
      <3> QED
        BY <2>1, <2>4, <2>11, <3>1 DEF PhaseInv
    <2>13. KeysInv'
      <3> SUFFICES ASSUME ~reader PROVE Behind(frames)' /\ Passed(Top)' /\ Underway(Top)'
        BY <2>1 DEF KeysInv
      <3>1. /\ \A k \in 1 .. m + 1 : Remembered(frames[k])
            /\ \A k \in 1 .. m : Underway(frames[k]) /\ frames[k].it.ptr < frames[k + 1].it.ptr
        BY <2>6 DEF ValidationInv, KeysInv, Behind, n
      <3>2. \A k \in 1 .. m - 1 : t[k] = frames[k]
        BY <2>9 DEF SameBelow
      <3>3. /\ Remembered(outer) /\ Underway(outer) /\ outer = frames[m]
            /\ outer.it.ptr < Here.ptr
        <4>1. m \in 1 .. m /\ m \in 1 .. m + 1 /\ frames[m + 1].it = Here
          BY <1>2, <2>6
        <4> QED
          BY <2>7, <3>1, <4>1
      <3>4. outer.it.ptr < c.ptr /\ outer.it.ptr \in Nat /\ c.ptr \in Nat
        BY <1>2, <1>6, <2>3, <3>3 DEF Cursors
      <3>5. /\ g.current = outer.current /\ g.previous = outer.previous
            /\ g.onKey = outer.onKey /\ g.it.ptr = c.ptr
        BY <2>5 DEF SameFrame
      <3>6. /\ outer.current \in Nat
            /\ outer.previous = << >> \/ outer.previous \in Nat \X Nat
        BY <1>5, FrameFields
      <3>7. Remembered(g) /\ Passed(g) /\ Underway(g)
        BY <3>3, <3>4, <3>5, <3>6 DEF Remembered, Passed, Underway
      <3>8. \A k \in 1 .. m : Remembered(t[k])
        <4> SUFFICES ASSUME NEW k \in 1 .. m PROVE Remembered(t[k])
          OBVIOUS
        <4>1. k = m \/ k \in 1 .. m - 1
          BY <2>6
        <4> QED
          BY <2>6, <2>8, <3>1, <3>2, <3>7, <4>1
      <3>9. \A k \in 1 .. m - 1 : Underway(t[k]) /\ t[k].it.ptr < t[k + 1].it.ptr
        <4> SUFFICES ASSUME NEW k \in 1 .. m - 1
                     PROVE  Underway(t[k]) /\ t[k].it.ptr < t[k + 1].it.ptr
          OBVIOUS
        <4>1. /\ t[k] = frames[k] /\ Underway(frames[k])
              /\ frames[k].it.ptr < frames[k + 1].it.ptr
          BY <2>6, <3>1, <3>2
        <4>2. CASE k + 1 = m
          <5>1. frames[k].it.ptr < outer.it.ptr /\ t[k + 1].it.ptr = c.ptr
            BY <2>8, <3>3, <3>5, <4>1, <4>2
          <5>2. frames[k] \in Frames
            BY <1>1, <2>6, ElementOfSeq DEF n
          <5>3. frames[k].it.ptr \in Nat
            BY <5>2, FrameFields DEF Placed, Cursors
          <5> QED
            BY <3>4, <4>1, <5>1, <5>3
        <4>3. CASE k + 1 # m
          <5>1. k + 1 \in 1 .. m - 1
            BY <2>6, <4>3
          <5> QED
            BY <3>2, <4>1, <5>1
        <4> QED
          BY <4>2, <4>3
      <3>10. Behind(t)
        BY <2>8, <3>8, <3>9 DEF Behind
      <3> QED
        BY <2>2, <2>11, <3>7, <3>10 DEF Behind, Remembered, Underway, Passed
    <2> QED
      BY <2>10, <2>12, <2>13 DEF ValidationInv
  <1> QED
    BY <1>8, <1>9

-----------------------------------------------------------------------------
(* skip_tag, as often as there are tags.  Induction over the number of     *)
(* steps is a least counterexample.                                        *)
SkipTag(r) == IF r.err = "ok" /\ r.it.type = "tag" THEN AdvanceInternal(r.it) ELSE r
Skips(f, m, it) ==
  /\ f = [k \in 0 .. m |-> f[k]]
  /\ \A k \in 0 .. m : f[k] = SkipTag(IF k = 0 THEN Result("ok", it) ELSE f[k - 1])

LEMMA SkipsExist ==
  ASSUME NEW it, NEW m \in Nat PROVE \E f : Skips(f, m, it)
  <1> DEFINE Without == {k \in Nat : ~ \E f : Skips(f, k, it)}
  <1> SUFFICES ASSUME Without # {} PROVE FALSE
    OBVIOUS
  <1>1. PICK n \in Without : \A k \in Without : ~(k < n)
    <2>1. Without \in SUBSET Nat
      OBVIOUS
    <2> HIDE DEF Without
    <2> QED
      BY <2>1, Least
  <1>2. n \in Nat /\ ~ \E f : Skips(f, n, it)
    OBVIOUS
  <1>3. n # 0
    <2> DEFINE g == [k \in 0 .. 0 |-> SkipTag(Result("ok", it))]
    <2>1. Skips(g, 0, it)
      BY DEF Skips
    <2> QED
      BY <1>2, <2>1
  <1>4. n - 1 \in Nat /\ n - 1 < n
    BY <1>2, <1>3
  <1>5. PICK f : Skips(f, n - 1, it)
    BY <1>1, <1>4
  <1> DEFINE g == [k \in 0 .. n |-> IF k = n THEN SkipTag(f[n - 1]) ELSE f[k]]
  <1>6. \A k \in 0 .. n : g[k] = SkipTag(IF k = 0 THEN Result("ok", it) ELSE g[k - 1])
    <2> SUFFICES ASSUME NEW k \in 0 .. n
                 PROVE  g[k] = SkipTag(IF k = 0 THEN Result("ok", it) ELSE g[k - 1])
      OBVIOUS
    <2>1. CASE k = n
      <3>1. g[k] = SkipTag(f[n - 1])
        BY <2>1
      <3>2. k - 1 \in 0 .. n /\ k - 1 # n /\ k # 0 /\ k - 1 = n - 1
        BY <1>2, <1>3, <2>1
      <3>3. g[k - 1] = f[n - 1]
        BY <3>2
      <3> QED
        BY <3>1, <3>2, <3>3
    <2>2. CASE k # n
      <3>1. k \in 0 .. n - 1 /\ g[k] = f[k]
        BY <1>2, <2>2
      <3>2. f[k] = SkipTag(IF k = 0 THEN Result("ok", it) ELSE f[k - 1])
        BY <1>5, <3>1 DEF Skips
      <3>3. k # 0 => k - 1 \in 0 .. n /\ k - 1 # n
        BY <1>2, <3>1
      <3>4. k # 0 => g[k - 1] = f[k - 1]
        BY <3>3
      <3> HIDE DEF g
      <3> QED
        BY <3>1, <3>2, <3>4
    <2> QED
      BY <2>1, <2>2
  <1>7. g = [k \in 0 .. n |-> g[k]]
    OBVIOUS
  <1> HIDE DEF g
  <1> QED
    BY <1>2, <1>6, <1>7 DEF Skips

LEMMA UntaggedIs ==
  ASSUME NEW it, buf \in Seq(Byte)
  PROVE  \E f : Skips(f, Len(buf), it) /\ Untagged(it) = f[Len(buf)]
  <1> DEFINE N == Len(buf)
             Turn(h, n) == LET r == IF n = 0 THEN Result("ok", it) ELSE h[n - 1]
                           IN  IF r.err = "ok" /\ r.it.type = "tag"
                               THEN AdvanceInternal(r.it) ELSE r
             skip == CHOOSE h : h = [n \in 0 .. N |-> Turn(h, n)]
  <1>1. Untagged(it) = skip[N]
    BY DEF Untagged
  <1>2. \A h, n : Turn(h, n) = SkipTag(IF n = 0 THEN Result("ok", it) ELSE h[n - 1])
    BY DEF SkipTag
  <1>3. N \in Nat
    BY BufferType
  <1> HIDE DEF Turn, N
  <1>4. PICK f : Skips(f, N, it)
    BY <1>3, SkipsExist
  <1>5. f = [n \in 0 .. N |-> Turn(f, n)]
    BY <1>2, <1>4 DEF Skips
  <1>6. skip = [n \in 0 .. N |-> Turn(skip, n)]
    BY <1>5
  <1> HIDE DEF skip
  <1>7. \A k \in 0 .. N : skip[k] = Turn(skip, k)
    BY <1>6
  <1>8. skip = [k \in 0 .. N |-> skip[k]]
    BY <1>6
  <1>9. Skips(skip, N, it)
    BY <1>2, <1>7, <1>8 DEF Skips
  <1> QED
    BY <1>1, <1>9 DEF N

(* What it ends on is an item or an end; a value without tags is itself. *)
LEMMA UntaggedProperties ==
  ASSUME buf \in Seq(Byte), NEW it \in Stood
  PROVE  LET r == Untagged(it)
         IN  (r.err = "ok" => r.it \in Stood) /\ (it.type # "tag" => r.it = it)
  <1> DEFINE Fine(r) == (r.err = "ok" => r.it \in Stood) /\ (it.type # "tag" => r = Result("ok", it))
  <1>1. Fine(Result("ok", it))
    BY DEF Result
  <1>2. ASSUME NEW r, Fine(r) PROVE Fine(SkipTag(r))
    <2>1. CASE r.err = "ok" /\ r.it.type = "tag"
      <3> DEFINE c == r.it
      <3>1. c \in Cursors /\ Standing(c) /\ c.type = "tag"
        BY <1>2, <2>1 DEF Stood, Placed
      <3>2. SkipTag(r) = AdvanceInternal(c)
        BY <2>1 DEF SkipTag
      <3>3. it.type = "tag"
        BY <1>2, <2>1 DEF Result
      <3> HIDE DEF c
      <3>4. HeadHere(c) /\ c.remaining # 0 /\ ~IsString(c) /\ ~IsContainer(c)
        BY <3>1 DEF Standing, IsString, IsContainer, StringMajors, ContainerMajors
      <3>5. LET a == AdvanceInternal(c)
            IN  a.it \in Cursors /\ Within(a.it) /\ (a.err = "ok" => Standing(a.it))
        BY <3>1, <3>4, AdvanceInternalProperties
      <3> QED
        BY <3>2, <3>3, <3>5 DEF Stood, Placed
    <2>2. CASE ~(r.err = "ok" /\ r.it.type = "tag")
      BY <1>2, <2>2 DEF SkipTag
    <2> QED
      BY <2>1, <2>2
  <1>3. PICK f : Skips(f, Len(buf), it) /\ Untagged(it) = f[Len(buf)]
    BY UntaggedIs
  <1>4. Len(buf) \in Nat
    BY BufferType
  <1> HIDE DEF Fine
  <1> DEFINE Wrong == {k \in 0 .. Len(buf) : ~Fine(f[k])}
  <1>5. Wrong = {}
    <2> SUFFICES ASSUME Wrong # {} PROVE FALSE
      OBVIOUS
    <2>1. Wrong \in SUBSET Nat
      BY <1>4
    <2>2. PICK k \in Wrong : \A y \in Wrong : ~(y < k)
      <3> HIDE DEF Wrong
      <3> QED
        BY <2>1, Least
    <2>3. k \in 0 .. Len(buf) /\ ~Fine(f[k])
      OBVIOUS
    <2>4. f[k] = SkipTag(IF k = 0 THEN Result("ok", it) ELSE f[k - 1])
      BY <1>3, <2>3 DEF Skips
    <2>5. CASE k = 0
      BY <1>1, <1>2, <2>3, <2>4, <2>5
    <2>6. CASE k # 0
      <3>1. k - 1 \in 0 .. Len(buf) /\ k - 1 < k
        BY <1>4, <2>3, <2>6
      <3>2. Fine(f[k - 1])
        BY <2>2, <3>1
      <3> QED
        BY <1>2, <2>3, <2>4, <2>6, <3>2
    <2> QED
      BY <2>5, <2>6
  <1>6. Fine(Untagged(it))
    <2>1. Len(buf) \in 0 .. Len(buf)
      BY <1>4
    <2> QED
      BY <1>3, <1>5, <2>1
  <1> QED
    BY <1>6 DEF Fine, Result

-----------------------------------------------------------------------------
LEMMA Editing ==
  ASSUME FramesInv, NEW f \in Frames, frames' = [frames EXCEPT ![Len(frames)] = f]
  PROVE  TopBecomes(f)
  <1>1. frames \in Seq(Frames) /\ frames # << >> /\ Len(frames) \in Nat \ {0}
    BY TopIs DEF FramesInv
  <1> DEFINE t == [frames EXCEPT ![Len(frames)] = f]
  <1>2. /\ t \in Seq(Frames) /\ Len(t) = Len(frames) /\ t[Len(t)] = f
        /\ \A i \in 1 .. Len(frames) - 1 : t[i] = frames[i]
    BY <1>1, LastReplaced
  <1>3. frames' = t
    OBVIOUS
  <1> HIDE DEF t
  <1> QED
    BY <1>2, <1>3 DEF TopBecomes, SameBelow, SameFrame, SameItem, SameCount

LEMMA AfterKeyStep ==
  ASSUME ValidationInv, AfterKey, Unchanging PROVE ValidationInv'
  <1> DEFINE verdict == OrderVerdict(Top.previous, Key)
             previous == IF SomeBit(MAP_IS_SORTED) THEN Key ELSE Top.previous
             f == [Top EXCEPT !.previous = previous, !.onKey = FALSE]
  <1>1. /\ phase = "after" /\ FramesInv /\ Here \in Stood /\ Top.onKey
        /\ buf \in Seq(Byte) /\ frames \in Seq(Frames)
    BY DEF AfterKey, ValidationInv, PhaseInv, FramesInv
  <1>2. /\ Top = frames[Len(frames)] /\ Top \in Frames /\ Here = Top.it
        /\ Here.ptr \in 1 .. Limit /\ Top.left \in 1 .. MAX_RECURSIONS
        /\ Len(frames) \in Nat \ {0}
    BY <1>1, TopIs
  <1>3. CASE verdict # "ok"
    BY <1>3, FailStep DEF AfterKey
  <1>4. CASE verdict = "ok"
    <2>1. /\ frames' = [frames EXCEPT ![Len(frames)].previous = previous,
                                      ![Len(frames)].onKey = FALSE]
          /\ left' = Top.left /\ phase' = "item" /\ UNCHANGED << buf, reader >>
      BY <1>2, <1>4 DEF AfterKey, Unchanging
    <2>2. Len(frames) \in DOMAIN frames
      BY <1>1, <1>2, LenProperties
    <2>3. /\ Top.current \in Nat
          /\ Top.previous = << >> \/ Top.previous \in Nat \X Nat
      BY <1>2, FrameFields
    <2>4. Source(Here) \in Nat /\ (~reader => Source(Here) = Here.ptr) /\ Here.ptr \in Nat
      BY <1>1, <1>2, BufferType DEF Source
    <2>5. previous = << >> \/ previous \in Nat \X Nat
      BY <2>3, <2>4 DEF Key
    <2>6. ~reader =>
            \/ previous = Top.previous
            \/ previous[1] = Top.current /\ previous[2] = Here.ptr
      BY <2>4 DEF Key
    <2> HIDE DEF previous
    <2>7. frames' = [frames EXCEPT ![Len(frames)] = f]
      BY <1>2, <2>1, <2>2
    <2>8. /\ f \in Frames /\ f.it = Here /\ f.container = Top.container /\ f.left = Top.left
          /\ f.current = Top.current /\ f.previous = previous /\ f.onKey = FALSE
      BY <1>2, <2>5 DEF Frames
    <2> HIDE DEF f
    <2>9. TopBecomes(f)
      BY <1>1, <2>7, <2>8, Editing
    <2>10. FramesInv' /\ Top' = f /\ Here' = Here
      BY <1>1, <1>2, <2>1, <2>8, <2>9, Becoming
    <2>11. PhaseInv'
      <3>1. Stood' = Stood
        BY <2>1, PlacesStay
      <3> QED
        BY <1>1, <1>2, <2>1, <2>8, <2>10, <3>1 DEF PhaseInv
    <2>12. KeysInv'
      <3> SUFFICES ASSUME ~reader PROVE Behind(frames)' /\ Underway(Top)'
        BY <2>1 DEF KeysInv
      <3>1. Behind(frames) /\ Underway(Top) /\ Passed(Top)
        BY <1>1 DEF ValidationInv, KeysInv
      <3>2. Remembered(Top)
        BY <1>2, <3>1 DEF Behind
      <3>3. Remembered(f)
        BY <1>1, <1>2, <2>3, <2>4, <2>6, <2>8, <3>1, <3>2 DEF Remembered, Underway, Passed
      <3>4. f.it.ptr >= Here.ptr
        BY <2>4, <2>8
      <3>5. Behind(frames')
        BY <1>1, <2>8, <2>9, <3>1, <3>3, <3>4, StaysBehind
      <3>6. Underway(f)
        BY <2>8 DEF Underway
      <3> QED
        BY <2>10, <3>5, <3>6 DEF Behind, Remembered, Underway
    <2> QED
      BY <2>10, <2>11, <2>12 DEF ValidationInv
  <1> QED
    BY <1>3, <1>4

LEMMA AfterValueStep ==
  ASSUME ValidationInv, AfterValue, Unchanging PROVE ValidationInv'
  <1> DEFINE onKey == Top.container = "map"
             f == [Top EXCEPT !.onKey = onKey]
  <1>1. /\ phase = "after" /\ FramesInv /\ Here \in Stood /\ Top.container # "none"
        /\ frames \in Seq(Frames) /\ buf \in Seq(Byte) /\ left \in 1 .. MAX_RECURSIONS
    BY DEF AfterValue, ValidationInv, PhaseInv, FramesInv
  <1>2. /\ Top = frames[Len(frames)] /\ Top \in Frames /\ Here = Top.it
        /\ Here.ptr \in 1 .. Limit /\ Len(frames) \in Nat \ {0}
    BY <1>1, TopIs
  <1>3. /\ frames' = [frames EXCEPT ![Len(frames)].onKey = onKey]
        /\ phase' = "loop" /\ left' = left /\ UNCHANGED << buf, reader >>
    BY DEF AfterValue, Unchanging
  <1>4. Len(frames) \in DOMAIN frames
    BY <1>1, <1>2, LenProperties
  <1>5. frames' = [frames EXCEPT ![Len(frames)] = f]
    BY <1>2, <1>3, <1>4
  <1>6. /\ f \in Frames /\ f.it = Here /\ f.container = Top.container /\ f.left = Top.left
        /\ f.current = Top.current /\ f.previous = Top.previous
    BY <1>2 DEF Frames
  <1> HIDE DEF f
  <1>7. TopBecomes(f)
    BY <1>1, <1>5, <1>6, Editing
  <1>8. FramesInv' /\ Top' = f /\ Here' = Here /\ Len(frames') = Len(frames)
    BY <1>1, <1>3, <1>6, <1>7, Becoming
  <1>9. Len(frames) > 1
    <2> DEFINE n == Len(frames)
    <2>1. n # 1
      BY <1>1, <1>2 DEF FramesInv
    <2>2. n \in Nat \ {0}
      BY <1>2
    <2> HIDE DEF n
    <2>3. n > 1
      BY <2>1, <2>2
    <2> QED
      BY <2>3 DEF n
  <1>10. PhaseInv'
    <2>1. Stood' = Stood
      BY <1>3, PlacesStay
    <2> QED
      BY <1>1, <1>3, <1>8, <1>9, <2>1 DEF PhaseInv
  <1>11. KeysInv'
    <2> SUFFICES ASSUME ~reader PROVE Behind(frames)' /\ Passed(Top)'
      BY <1>3 DEF KeysInv
    <2>1. Behind(frames) /\ Passed(Top)
      BY <1>1 DEF ValidationInv, KeysInv
    <2>2. Remembered(Top)
      BY <1>2, <2>1 DEF Behind
    <2>3. Remembered(f) /\ Passed(f)
      BY <1>2, <1>6, <2>1, <2>2 DEF Remembered, Passed
    <2>4. f.it.ptr >= Here.ptr
      BY <1>1, <1>2, <1>6, BufferType
    <2>5. Behind(frames')
      BY <1>1, <1>6, <1>7, <2>1, <2>3, <2>4, StaysBehind
    <2> QED
      BY <1>8, <2>3, <2>5 DEF Behind, Remembered, Underway, Passed
  <1> QED
    BY <1>8, <1>10, <1>11 DEF ValidationInv

(* Over callbacks the look at a key leaves the cursor where it ended. *)
LEMMA NextItemStep ==
  ASSUME ValidationInv, NextItem, Unchanging PROVE ValidationInv'
  <1> DEFINE checked == Top.container = "map" /\ HasBit("keys_string")
             r == IF checked THEN Untagged(Here) ELSE Result("ok", Here)
             g == [Top EXCEPT !.current = Source(Here)]
             p == r.it.ptr
             f == IF reader THEN At(g, p) ELSE g
  <1>1. /\ phase = "loop" /\ Here.type # "invalid" /\ FramesInv /\ Here \in Stood
        /\ frames \in Seq(Frames) /\ buf \in Seq(Byte)
    BY DEF NextItem, AtLoop, ValidationInv, PhaseInv, FramesInv
  <1>2. /\ Top = frames[Len(frames)] /\ Top \in Frames /\ Here = Top.it
        /\ Here.ptr \in 1 .. Limit /\ Top.left \in 1 .. MAX_RECURSIONS
        /\ Len(frames) \in Nat \ {0}
    BY <1>1, TopIs
  <1>3. CASE checked /\ KeyVerdict(r) # "ok"
    BY <1>3, FailStep DEF NextItem
  <1>4. CASE ~(checked /\ KeyVerdict(r) # "ok")
    <2>1. /\ frames' = AllAt([frames EXCEPT ![Len(frames)].current = Source(Here)], p)
          /\ left' = Top.left /\ phase' = "item" /\ UNCHANGED << buf, reader >>
      BY <1>4 DEF NextItem, Unchanging
    <2>2. /\ r.it \in Stood /\ (Here.type # "tag" => r.it = Here)
          /\ checked => r.it.type = "text"
      <3>1. CASE checked
        <4>1. Untagged(Here).err = "ok" /\ Untagged(Here).it.type = "text"
          BY <1>4, <3>1 DEF KeyVerdict
        <4> QED
          BY <1>1, <3>1, <4>1, UntaggedProperties
      <3>2. CASE ~checked
        BY <1>1, <3>2 DEF Result
      <3> QED
        BY <3>1, <3>2
    <2>3. ~checked => r.it = Here
      BY DEF Result
    <2> HIDE DEF checked, r
    <2>4. p \in 1 .. Limit /\ (Here.type = "tag" => p < Limit)
      <3>1. p \in 1 .. Limit /\ r.it \in Cursors /\ Standing(r.it)
        BY <2>2 DEF Stood, Placed, Within
      <3>2. CASE r.it.type = "invalid"
        <4>1. r.it # Here /\ checked
          BY <1>1, <2>3, <3>2
        <4> QED
          BY <2>2, <3>2, <4>1
      <3>3. CASE r.it.type # "invalid"
        <4>1. HeadHere(r.it)
          BY <3>1, <3>3 DEF Standing
        <4> QED
          BY <1>1, <3>1, <4>1, HeadProperties
      <3> QED
        BY <3>2, <3>3
    <2> HIDE DEF p
    <2>5. Source(Here) \in Nat /\ (~reader => Source(Here) = Here.ptr) /\ Here.ptr \in Nat
      BY <1>1, <1>2, BufferType DEF Source
    <2>6. /\ g \in Frames /\ g.it = Here /\ g.container = Top.container /\ g.left = Top.left
          /\ g.current = Source(Here) /\ g.previous = Top.previous /\ g.onKey = Top.onKey
      BY <1>2, <2>5 DEF Frames
    <2>7. frames' = AllAt([frames EXCEPT ![Len(frames)] = g], p)
      BY <1>1, <1>2, <2>1
    <2> HIDE DEF g
    <2>8. TopBecomes(f)
      BY <1>1, <2>4, <2>6, <2>7, Replacing
    <2>9. /\ f \in Frames /\ f.container = Top.container /\ f.left = Top.left
          /\ f.it = IF reader THEN PlacedAt(Here, p) ELSE Here
      BY <1>1, <2>4, <2>6, AtIs DEF SameFrame
    <2>10. ~reader => f = g
      OBVIOUS
    <2> HIDE DEF f
    <2>11. FramesInv' /\ Top' = f /\ Here' = f.it
      BY <1>1, <1>2, <2>1, <2>8, <2>9, Becoming
    <2>12. f.it \in Stood \/ Adrift(f.it)
      <3>1. CASE ~reader
        BY <1>1, <2>9, <3>1
      <3>2. CASE reader /\ Here.type # "tag"
        <4>1. p = Here.ptr
          BY <2>2, <3>2 DEF p
        <4>2. PlacedAt(Here, p) = Here
          BY <1>1, <2>4, <4>1, PlacedAtIs DEF Stood
        <4> QED
          BY <1>1, <2>9, <3>2, <4>2
      <3>3. CASE reader /\ Here.type = "tag"
        <4>1. Here \in Placed /\ Here.remaining # 0
          BY <3>3, <1>1 DEF Stood, Standing
        <4>2. LET d == PlacedAt(Here, p)
              IN  d \in Placed /\ d.ptr = p /\ d.remaining = Here.remaining /\ d.type = Here.type
          BY <1>1, <2>4, <4>1, PlacedAtIs
        <4> QED
          BY <2>4, <2>9, <3>3, <4>1, <4>2 DEF Adrift
      <3> QED
        BY <3>1, <3>2, <3>3
    <2>13. PhaseInv'
      <3>1. Stood' = Stood /\ Placed' = Placed /\ Limit' = Limit /\ reader' = reader
        BY <2>1, PlacesStay DEF Limit
      <3>2. ASSUME NEW c, Here' = c, c \in Stood \/ Adrift(c)
            PROVE  Here' \in Stood' \/ Adrift(Here)'
        BY <3>1, <3>2 DEF Adrift
      <3>3. Here' \in Stood' \/ Adrift(Here)'
        BY <2>11, <2>12, <3>2
      <3>4. left' <= Top'.left
        BY <1>2, <2>1, <2>9, <2>11
      <3> QED
        BY <2>1, <3>3, <3>4 DEF PhaseInv
    <2>14. KeysInv'
      <3> SUFFICES ASSUME ~reader PROVE Behind(frames)' /\ Underway(Top)'
        BY <2>1 DEF KeysInv
      <3>1. Behind(frames) /\ Passed(Top)
        BY <1>1 DEF ValidationInv, KeysInv
      <3>2. Remembered(Top)
        BY <1>2, <3>1 DEF Behind
      <3>3. f = g /\ f.it = Here /\ f.current = Here.ptr
        BY <2>5, <2>6, <2>9, <2>10
      <3>4. Remembered(f) /\ Underway(f)
        BY <1>2, <2>5, <2>6, <3>1, <3>2, <3>3 DEF Remembered, Underway, Passed
      <3>5. f.it.ptr >= Here.ptr
        BY <2>5, <3>3
      <3>6. Behind(frames')
        BY <1>1, <2>8, <2>9, <3>1, <3>4, <3>5, StaysBehind
      <3> QED
        BY <2>11, <3>4, <3>6 DEF Behind, Remembered, Underway
    <2> QED
      BY <2>11, <2>13, <2>14 DEF ValidationInv
  <1> QED
    BY <1>3, <1>4

-----------------------------------------------------------------------------
LEMMA ClientStands ==
  ASSUME buf \in Seq(Byte), NEW c \in ClientCursors PROVE c \in Stood
  <1> DEFINE first == ParserInit.it
             entered == EnterContainer(first)
  <1>1. /\ ParserInit.err = "ok"
        /\ c = first \/ (IsContainer(first) /\ entered.err = "ok" /\ c = entered.it)
    BY DEF ClientCursors
  <1>2. first \in Cursors /\ Within(first) /\ first.remaining = 1 /\ Standing(first)
    BY <1>1, ParserInitProperties
  <1> HIDE DEF first
  <1>3. CASE c = first
    BY <1>2, <1>3 DEF Stood, Placed
  <1>4. CASE IsContainer(first) /\ entered.err = "ok" /\ c = entered.it
    <2>1. HeadHere(first) /\ first.remaining # 0
      BY <1>2 DEF Standing
    <2>2. entered.it \in Cursors /\ Within(entered.it) /\ Standing(entered.it)
      BY <1>2, <1>4, <2>1, EnterProperties
    <2> QED
      BY <1>4, <2>2 DEF Stood, Placed
  <1> QED
    BY <1>1, <1>3, <1>4

LEMMA ValidationInitInv == Init => ValidationInv
  <1> SUFFICES ASSUME Init PROVE ValidationInv
    OBVIOUS
  <1> DEFINE g == Frame(value, "none", MAX_RECURSIONS)
  <1>1. /\ buf \in Seq(Byte) /\ reader \in BOOLEAN /\ frames = << g >>
        /\ left = MAX_RECURSIONS /\ phase = "item" /\ value \in ClientCursors
    BY CursorAssumption DEF Init
  <1>2. value \in Stood /\ value \in Placed /\ value.ptr \in Nat
    BY <1>1, ClientStands DEF Stood, Placed, Cursors
  <1>3. MAX_RECURSIONS \in Nat \ {0}
    BY ValidationAssumption
  <1>4. /\ g \in Frames /\ g.it = value /\ g.container = "none" /\ g.left = MAX_RECURSIONS
        /\ ~g.onKey /\ g.current = 0 /\ g.previous = << >>
    <2>1. MAX_RECURSIONS \in 1 .. MAX_RECURSIONS
      BY <1>3
    <2> QED
      BY <1>2, <2>1 DEF Frame, Frames, Containers
  <1> HIDE DEF g
  <1>5. frames \in Seq(Frames) /\ Len(frames) = 1 /\ frames[1] = g /\ frames # << >>
    BY <1>1, <1>4
  <1>6. Top = g /\ Here = value
    BY <1>4, <1>5 DEF Top, Here, Last
  <1>7. FramesInv
    BY <1>1, <1>3, <1>4, <1>5 DEF FramesInv
  <1>8. PhaseInv
    BY <1>1, <1>2, <1>3, <1>4, <1>6 DEF PhaseInv
  <1>9. KeysInv
    <2>1. Behind(frames)
      BY <1>2, <1>4, <1>5 DEF Behind, Remembered
    <2> QED
      BY <1>1, <1>4, <1>6, <2>1 DEF KeysInv, Underway
  <1> QED
    BY <1>7, <1>8, <1>9 DEF ValidationInv

LEMMA ValidationStutter ==
  ASSUME ValidationInv, UNCHANGED vars PROVE ValidationInv'
  <1>1. UNCHANGED << buf, reader, frames, left, phase >>
    BY DEF vars
  <1>2. FramesInv' /\ Top' = Top /\ Here' = Here
    BY <1>1, FramesRest DEF ValidationInv, FramesInv
  <1>3. PhaseInv'
    <2>1. Stood' = Stood /\ Placed' = Placed /\ Limit' = Limit
      BY <1>1, PlacesStay DEF Limit
    <2>2. ASSUME NEW c, Here' = c, Here = c
          PROVE  (Here \in Stood \/ Adrift(Here))' <=> (Here \in Stood \/ Adrift(Here))
      BY <1>1, <2>1, <2>2 DEF Adrift
    <2>3. (Here \in Stood \/ Adrift(Here))' <=> (Here \in Stood \/ Adrift(Here))
      BY <1>2, <2>2
    <2>4. AtBreak(Here)' = AtBreak(Here)
      BY <1>1, <1>2 DEF AtBreak, CanRead, HeadByte, Limit
    <2> QED
      BY <1>1, <1>2, <2>1, <2>3, <2>4 DEF ValidationInv, PhaseInv
  <1>4. KeysInv'
    BY <1>1, <1>2 DEF ValidationInv, KeysInv, Behind, Remembered, Underway, Passed
  <1> QED
    BY <1>2, <1>3, <1>4 DEF ValidationInv

LEMMA ValidationNextInv == ValidationInv /\ [Next]_vars => ValidationInv'
  <1> SUFFICES ASSUME ValidationInv, [Next]_vars PROVE ValidationInv'
    OBVIOUS
  <1>1. CASE UNCHANGED vars
    BY <1>1, ValidationStutter
  <1>2. CASE Next
    <2>1. Unchanging
      BY <1>2 DEF Next, Unchanging
    <2>2. CASE RefuseHead \/ ValidateInvalid
      BY <2>1, <2>2, RefuseStep
    <2>3. CASE ValidateFixed
      BY <2>1, <2>3, FixedStep
    <2>4. CASE ValidateTag
      BY <2>1, <2>4, TagStep
    <2>5. CASE ValidateContainer
      BY <2>1, <2>5, ContainerStep
    <2>6. CASE ValidateString
      BY <2>1, <2>6, StringStep
    <2>7. CASE ValidateChunk
      BY <2>1, <2>7, ChunkStep
    <2>8. CASE NextItem
      BY <2>1, <2>8, NextItemStep
    <2>9. CASE LeaveFrame
      BY <2>1, <2>9, LeaveStep
    <2>10. CASE AfterKey
      BY <2>1, <2>10, AfterKeyStep
    <2>11. CASE AfterValue
      BY <2>1, <2>11, AfterValueStep
    <2>12. CASE Answer
      BY <2>1, <2>12, AnswerStep
    <2> QED
      BY <1>2, <2>2, <2>3, <2>4, <2>5, <2>6, <2>7, <2>8, <2>9, <2>10, <2>11, <2>12 DEF Next
  <1> QED
    BY <1>1, <1>2

LEMMA ValidationInvariant == Spec => []ValidationInv
  BY ValidationInitInv, ValidationNextInv, PTL DEF Spec

(* validate_value and validate_container: on every document, over a buffer *)
(* or callbacks and under every flag word, no cursor leaves the buffer and *)
(* the recursion ends within MAX_RECURSIONS levels, as recursion_left is   *)
(* never used up unnoticed.                                                *)
THEOREM ValidationTypeCorrect == Spec => []TypeOK
  <1>1. ValidationInv => TypeOK
    <2> SUFFICES ASSUME ValidationInv PROVE TypeOK
      OBVIOUS
    <2>1. /\ FramesInv /\ frames \in Seq(Frames) /\ left \in 1 .. MAX_RECURSIONS
          /\ phase \in {"item", "chunks", "after", "loop", "done"}
      BY DEF ValidationInv, FramesInv, PhaseInv
    <2>2. DOMAIN frames = 1 .. Len(frames) /\ Len(frames) \in Nat \ {0}
      BY <2>1, TopIs, LenProperties
    <2>3. ASSUME NEW k \in 1 .. Len(frames)
          PROVE  frames[k].it.ptr \in 1 .. Limit /\ frames[k].left >= 1 /\ frames[k].left \in Nat
      <3>1. frames[k] \in Frames
        BY <2>1, ElementOfSeq
      <3>2. frames[k].it \in Placed /\ frames[k].left \in 1 .. MAX_RECURSIONS
        BY <3>1, FrameFields
      <3> QED
        BY <3>2, ValidationAssumption DEF Placed, Within
    <2>4. Len(frames) \in 1 .. MAX_RECURSIONS
      <3> DEFINE n == Len(frames)
                 l == frames[n].left
      <3>1. n \in 1 .. n /\ n \in Nat \ {0}
        BY <2>2
      <3>2. l >= 1 /\ l \in Nat /\ l <= MAX_RECURSIONS - n + 1
        BY <2>1, <2>3, <3>1 DEF FramesInv
      <3>3. MAX_RECURSIONS \in Nat
        BY ValidationAssumption
      <3> HIDE DEF n, l
      <3>4. n \in 1 .. MAX_RECURSIONS
        BY <3>1, <3>2, <3>3
      <3> QED
        BY <3>4 DEF n
    <2> QED
      BY <2>1, <2>2, <2>3, <2>4 DEF TypeOK
  <1> QED
    BY <1>1, ValidationInvariant, PTL

(* The SAFETY comment of the key comparison in validate_container: over a  *)
(* buffer, both ranges it reads lie inside it, one before the other.       *)
THEOREM ValidationKeysInside == Spec => []KeyRangesInside
  <1>1. ValidationInv => KeyRangesInside
    <2> SUFFICES ASSUME ValidationInv, ~reader, NEW k \in DOMAIN frames,
                        frames[k].previous # << >>
                 PROVE  /\ 1 <= frames[k].previous[1]
                        /\ frames[k].previous[1] < frames[k].previous[2]
                        /\ frames[k].previous[2] <= frames[k].it.ptr
                        /\ frames[k].onKey /\ k = Len(frames) /\ phase \in {"item", "after"} =>
                             frames[k].previous[2] < frames[k].current
      BY DEF KeyRangesInside
    <2>1. k \in 1 .. Len(frames) /\ Top = frames[Len(frames)]
      BY TopIs, LenProperties DEF ValidationInv, FramesInv
    <2>2. Remembered(frames[k])
      BY <2>1 DEF ValidationInv, KeysInv, Behind
    <2>3. k = Len(frames) /\ phase \in {"item", "after"} => Underway(frames[k])
      BY <2>1 DEF ValidationInv, KeysInv
    <2> QED
      BY <2>2, <2>3 DEF Remembered, Underway
  <1> QED
    BY <1>1, ValidationInvariant, PTL

-----------------------------------------------------------------------------
(* The parser's part: what it fails with, and what a step over an item     *)
(* makes of the cursor's count.                                            *)
ParseErrors ==
  {"ok", "unexpected_eof", "unexpected_break", "illegal_number", "unknown_type",
   "illegal_simple_type", "data_too_large", "illegal_type", "no_more_chunks"}

LEMMA ValueErrors == \A c : PreparseValue(c).err \in ParseErrors
  <1> SUFFICES ASSUME NEW c PROVE PreparseValue(c).err \in ParseErrors
    OBVIOUS
  <1>1. \A t : IndefiniteHead(c, t).err \in ParseErrors /\ ReservedHead(t).err \in ParseErrors
    BY DEF IndefiniteHead, ReservedHead, Result, ParseErrors
  <1>2. \A t : /\ Result("unexpected_eof", t).err \in ParseErrors
               /\ Result("ok", t).err \in ParseErrors
               /\ Result("illegal_simple_type", t).err \in ParseErrors
    BY DEF Result, ParseErrors
  <1> QED
    BY <1>1, <1>2 DEF PreparseValue

LEMMA NoDecrementErrors == \A c : PreparseNoDecrement(c).err \in ParseErrors
  BY ValueErrors DEF PreparseNoDecrement, Result, ParseErrors

LEMMA NextErrors == \A c : PreparseNext(c).err \in ParseErrors
  BY NoDecrementErrors DEF PreparseNext, Result, ParseErrors

LEMMA EnterErrors == \A c : EnterContainer(c).err \in ParseErrors
  BY NoDecrementErrors DEF EnterContainer, Result, ParseErrors

LEMMA ChunkErrors == \A c : GetChunk(c).err \in ParseErrors
  <1>1. \A c : ChunkSize(c).err \in ParseErrors
    BY DEF ChunkSize, ParseErrors
  <1> QED
    BY <1>1 DEF GetChunk, Result, ParseErrors

(* Cursors at one place and with one count go on alike. *)
Alike(x, y) ==
  /\ x.ptr = y.ptr /\ x.remaining = y.remaining /\ x.map = y.map /\ x.key = y.key
  /\ x.type = y.type

LEMMA NoDecrementAlike ==
  ASSUME buf \in Seq(Byte), NEW x \in Cursors, NEW y \in Cursors, Alike(x, y),
         Within(x), x.remaining # 0
  PROVE  LET r == PreparseNoDecrement(x)
             s == PreparseNoDecrement(y)
         IN  r.it.ptr = s.it.ptr /\ r.it.remaining = s.it.remaining
  <1> DEFINE ended(c) == [c EXCEPT !.type = "invalid", !.remaining = 0, !.unknown = TRUE]
  <1>1. /\ x.remaining = y.remaining /\ (AtBreak(x) <=> AtBreak(y))
        /\ (BreakForbidden(x) <=> BreakForbidden(y)) /\ Within(y)
    BY DEF Alike, AtBreak, CanRead, HeadByte, BreakForbidden, MidPair, Within
  <1>2. ended(x).ptr = ended(y).ptr /\ ended(x).remaining = ended(y).remaining
    BY DEF Cursors, Alike
  <1> HIDE DEF ended
  <1>3. SameSlot(PreparseValue(x).it, x) /\ SameSlot(PreparseValue(y).it, y)
    BY <1>1, PreparseValueProperties
  <1>4. ASSUME NEW c
        PROVE  PreparseNoDecrement(c) =
                 IF c.remaining = U32Max /\ AtBreak(c)
                 THEN IF BreakForbidden(c) THEN Result("unexpected_break", c)
                      ELSE Result("ok", ended(c))
                 ELSE PreparseValue(c)
    BY DEF PreparseNoDecrement, ended
  <1>5. CASE x.remaining = U32Max /\ AtBreak(x)
    BY <1>1, <1>2, <1>4, <1>5 DEF Result, Alike
  <1>6. CASE ~(x.remaining = U32Max /\ AtBreak(x))
    <2>1. /\ PreparseNoDecrement(x) = PreparseValue(x)
          /\ PreparseNoDecrement(y) = PreparseValue(y)
      BY <1>1, <1>4, <1>6
    <2> QED
      BY <1>3, <2>1 DEF SameSlot, Alike
  <1> QED
    BY <1>5, <1>6

(* An item is counted. *)
Counted(c) ==
  [c EXCEPT !.remaining = IF @ = U32Max THEN @ ELSE @ - 1, !.key = ~@]

LEMMA CountedIs ==
  ASSUME NEW c \in Cursors, c.remaining \notin {0, 1}
  PROVE  LET d == Counted(c)
         IN  /\ d \in Cursors /\ d.ptr = c.ptr /\ d.type = c.type /\ d.map = c.map
             /\ d.key = ~c.key /\ d.remaining # 0
             /\ d.remaining = IF c.remaining = U32Max THEN U32Max ELSE c.remaining - 1
  <1> DEFINE rest == IF c.remaining = U32Max THEN c.remaining ELSE c.remaining - 1
             flipped == ~c.key
             d == [c EXCEPT !.remaining = rest, !.key = flipped]
  <1>1. rest \in 0 .. U32Max /\ flipped \in BOOLEAN /\ rest # 0
    BY CursorAssumption DEF Cursors
  <1>2. Counted(c) = d
    BY DEF Counted
  <1>3. rest = IF c.remaining = U32Max THEN U32Max ELSE c.remaining - 1
    OBVIOUS
  <1>4. flipped = ~c.key
    OBVIOUS
  <1> HIDE DEF rest, flipped
  <1>5. d \in Cursors /\ d.ptr = c.ptr /\ d.type = c.type /\ d.map = c.map
        /\ d.key = flipped /\ d.remaining = rest
    BY <1>1 DEF Cursors
  <1> QED
    BY <1>1, <1>2, <1>3, <1>4, <1>5

LEMMA NextCounts ==
  ASSUME NEW c \in Cursors, c.type # "tag", c.remaining # 0
  PROVE  PreparseNext(c) =
           IF c.remaining = 1
           THEN Result("ok", [c EXCEPT !.type = "invalid", !.remaining = 0, !.unknown = FALSE])
           ELSE PreparseNoDecrement(Counted(c))
  BY DEF PreparseNext, CountsAsItem, Counted

LEMMA NextAlike ==
  ASSUME buf \in Seq(Byte), NEW x \in Cursors, NEW y \in Cursors, Alike(x, y),
         Within(x), x.remaining # 0, x.type # "tag"
  PROVE  LET r == PreparseNext(x)
             s == PreparseNext(y)
         IN  r.err = s.err /\ r.it.ptr = s.it.ptr /\ r.it.remaining = s.it.remaining
  <1>1. PreparseNext(x).err = PreparseNext(y).err
    BY NextError DEF Alike
  <1>2. y.type # "tag" /\ y.remaining = x.remaining
    BY DEF Alike
  <1>3. CASE x.remaining = 1
    <2> DEFINE ended(c) == [c EXCEPT !.type = "invalid", !.remaining = 0, !.unknown = FALSE]
    <2>1. /\ PreparseNext(x) = Result("ok", ended(x))
          /\ PreparseNext(y) = Result("ok", ended(y))
      BY <1>2, <1>3, NextCounts
    <2>2. ended(x).ptr = ended(y).ptr /\ ended(x).remaining = ended(y).remaining
      BY DEF Cursors, Alike
    <2> HIDE DEF ended
    <2> QED
      BY <1>1, <2>1, <2>2 DEF Result
  <1>4. CASE x.remaining # 1
    <2>1. /\ PreparseNext(x) = PreparseNoDecrement(Counted(x))
          /\ PreparseNext(y) = PreparseNoDecrement(Counted(y))
      BY <1>2, <1>4, NextCounts
    <2>2. /\ Counted(x) \in Cursors /\ Counted(y) \in Cursors /\ Alike(Counted(x), Counted(y))
          /\ Within(Counted(x)) /\ Counted(x).remaining # 0
      BY <1>2, <1>4, CountedIs DEF Alike, Within
    <2> QED
      BY <1>1, <2>1, <2>2, NoDecrementAlike
  <1> QED
    BY <1>3, <1>4

(* It leaves a cursor on a head that was read, or at the end. *)
Read(c) == c \in Stood /\ (c.remaining # 0 => HeadRead(c))

LEMMA StandingRead ==
  ASSUME buf \in Seq(Byte), NEW c \in Cursors, Standing(c), c.type # "invalid" => HeadRead(c)
  PROVE  Read(c)
  <1>1. c \in Stood
    BY DEF Stood, Placed, Standing
  <1>2. c.remaining # 0 => c.type # "invalid"
    BY HeadProperties DEF Standing
  <1> QED
    BY <1>1, <1>2 DEF Read

LEMMA NextRead ==
  ASSUME buf \in Seq(Byte), NEW c \in Cursors, Within(c), c.remaining # 0, c.type # "tag",
         PreparseNext(c).err = "ok"
  PROVE  Read(PreparseNext(c).it)
  <1> DEFINE r == PreparseNext(c)
             ended == [c EXCEPT !.type = "invalid", !.remaining = 0, !.unknown = FALSE]
  <1>1. r.it \in Cursors /\ Standing(r.it)
    BY NextProperties
  <1>2. r.it.type # "invalid" => HeadRead(r.it)
    <2>1. CASE c.remaining = 1
      <3>1. r = Result("ok", ended)
        BY <2>1, NextCounts
      <3>2. ended.type = "invalid"
        BY DEF Cursors
      <3> HIDE DEF ended, r
      <3> QED
        BY <3>1, <3>2 DEF Result
    <2>2. CASE c.remaining # 1
      <3>1. r = PreparseNoDecrement(Counted(c))
        BY <2>2, NextCounts
      <3>2. Counted(c) \in Cursors /\ Within(Counted(c)) /\ Counted(c).remaining # 0
        BY <2>2, CountedIs DEF Within
      <3>3. r.err = "ok"
        OBVIOUS
      <3> HIDE DEF r
      <3> QED
        BY <3>1, <3>2, <3>3, NoDecrementRead
    <2> QED
      BY <2>1, <2>2
  <1> HIDE DEF r
  <1> QED
    BY <1>1, <1>2, StandingRead DEF r

(* In a map, a cursor that owes something is before a key or a value, as   *)
(* the number of items that it owes says if there is one.                  *)
Balanced(c) == c.map /\ (c.remaining = U32Max \/ (c.remaining % 2 = 1 <=> c.key))

LEMMA NextBalanced ==
  ASSUME buf \in Seq(Byte), NEW c \in Cursors, Within(c), c.remaining # 0, c.type # "tag",
         Balanced(c), PreparseNext(c).err = "ok"
  PROVE  LET r == PreparseNext(c)
         IN  /\ ~c.key => r.it.remaining # 0
             /\ r.it.remaining # 0 => Balanced(r.it) /\ r.it.key = ~c.key
  <1> DEFINE r == PreparseNext(c)
             ended == [c EXCEPT !.type = "invalid", !.remaining = 0, !.unknown = FALSE]
             d == Counted(c)
             closed == [d EXCEPT !.type = "invalid", !.remaining = 0, !.unknown = TRUE]
  <1>1. CASE c.remaining = 1
    <2>1. r = Result("ok", ended)
      BY <1>1, NextCounts
    <2>2. ended.remaining = 0
      BY DEF Cursors
    <2>3. c.key
      BY <1>1, CursorAssumption DEF Balanced
    <2> HIDE DEF ended, r
    <2> QED
      BY <2>1, <2>2, <2>3 DEF Result, r
  <1>2. CASE c.remaining # 1
    <2>1. r = PreparseNoDecrement(d)
      BY <1>2, NextCounts
    <2>2. /\ d \in Cursors /\ d.ptr = c.ptr /\ d.type = c.type /\ d.map = c.map
          /\ d.key = ~c.key /\ d.remaining # 0
          /\ d.remaining = IF c.remaining = U32Max THEN U32Max ELSE c.remaining - 1
      BY <1>2, CountedIs
    <2>3. c.remaining \in 0 .. U32Max /\ c.key \in BOOLEAN /\ c.map
      BY DEF Cursors, Balanced
    <2>4. d.remaining = U32Max \/ (d.remaining % 2 = 1 <=> d.key)
      <3>1. CASE c.remaining = U32Max
        BY <2>2, <3>1
      <3>2. CASE c.remaining # U32Max
        <4>1. c.remaining \in Nat /\ c.remaining # 0 /\ d.remaining = c.remaining - 1
          BY <2>2, <2>3, <3>2, CursorAssumption
        <4>2. d.remaining % 2 = 1 <=> ~(c.remaining % 2 = 1)
          BY <4>1
        <4> QED
          BY <2>2, <2>3, <3>2, <4>2 DEF Balanced
      <3> QED
        BY <3>1, <3>2
    <2>5. Within(d)
      BY <2>2 DEF Within
    <2>6. /\ PreparseNoDecrement(d).it.map = d.map /\ PreparseNoDecrement(d).it.key = d.key
          /\ PreparseNoDecrement(d).it.remaining \in {0, d.remaining}
      BY <2>2, <2>5, NoDecrementProperties
    <2>7. ~c.key => PreparseNoDecrement(d).it.remaining # 0
      <3> SUFFICES ASSUME ~c.key PROVE PreparseNoDecrement(d).it.remaining # 0
        OBVIOUS
      <3>1. BreakForbidden(d)
        BY <2>2, <2>3 DEF BreakForbidden, MidPair
      <3>2. SameSlot(PreparseValue(d).it, d)
        BY <2>2, <2>5, PreparseValueProperties
      <3> HIDE DEF d
      <3> QED
        BY <2>2, <3>1, <3>2 DEF PreparseNoDecrement, SameSlot, Result
    <2> HIDE DEF d, r
    <2>8. r.it.remaining # 0 => Balanced(r.it) /\ r.it.key = ~c.key
      BY <2>1, <2>2, <2>3, <2>4, <2>6 DEF Balanced
    <2> QED
      BY <2>1, <2>7, <2>8 DEF r
  <1> QED
    BY <1>1, <1>2

(* A map is entered between pairs. *)
LEMMA EnterBalanced ==
  ASSUME buf \in Seq(Byte), NEW c \in Cursors, HeadRead(c), c.type = "map",
         NEW r, r = EnterContainer(c), r.err = "ok", r.it.remaining # 0
  PROVE  Balanced(r.it) /\ ~r.it.key
  <1>1. c.ptr \in 1 .. Limit /\ HeadHere(c) /\ IsContainer(c)
    BY HeadReadIs DEF HeadRead, IsContainer, ContainerMajors
  <1>2. ASSUME NEW x \in Cursors, Within(x), x.type = "map", NEW k \in 0 .. U32Max, k # 0,
               k = U32Max \/ k % 2 = 0, r = PreparseNoDecrement([Inside(x) EXCEPT !.remaining = k])
        PROVE  Balanced(r.it) /\ ~r.it.key
    <2> DEFINE y == [Inside(x) EXCEPT !.remaining = k]
    <2>1. y \in Cursors /\ y.ptr = x.ptr /\ y.remaining = k
      BY InsideIs
    <2>2. y.map /\ ~y.key
      BY <1>2 DEF Inside, Cursors
    <2> HIDE DEF y
    <2>3. /\ r.it.map = y.map /\ r.it.key = y.key /\ r.it.remaining \in {0, y.remaining}
      <3>1. Within(y) /\ y.remaining # 0
        BY <1>2, <2>1 DEF Within
      <3>2. r = PreparseNoDecrement(y)
        BY <1>2 DEF y
      <3> QED
        BY <2>1, <3>1, <3>2, NoDecrementProperties
    <2>4. r.it.remaining = k
      BY <2>1, <2>3
    <2>5. k # U32Max => ~(k % 2 = 1)
      BY <1>2, CursorAssumption
    <2> QED
      BY <2>2, <2>3, <2>4, <2>5 DEF Balanced
  <1>3. CASE c.unknown
    <2>1. Advanced(c, 1) \in Cursors /\ Within(Advanced(c, 1)) /\ Advanced(c, 1).type = "map"
      BY <1>1, HeadProperties, AdvancedIs
    <2>2. r = PreparseNoDecrement([Inside(Advanced(c, 1)) EXCEPT !.remaining = U32Max])
      BY <1>3 DEF EnterContainer
    <2>3. U32Max \in 0 .. U32Max /\ U32Max # 0
      BY CursorAssumption
    <2> QED
      BY <1>2, <2>1, <2>2, <2>3
  <1>4. CASE ~c.unknown
    <2> DEFINE items == 2 * Int64(c)
    <2>1. PastHead(c) \in Cursors /\ Within(PastHead(c)) /\ PastHead(c).type = "map"
      BY <1>4, HeadReadIs
    <2>2. ~TooLarge(c)
      BY <1>4 DEF EnterContainer, Result
    <2>3. items \in 0 .. U32Max /\ Int64(c) \in Nat
      BY <1>1, <1>4, <2>2, ItemsFit, HeadProperties
    <2>4. items # 0
      <3> SUFFICES ASSUME items = 0 PROVE FALSE
        OBVIOUS
      <3> DEFINE none == [PastHead(c) EXCEPT !.remaining = 0, !.type = "invalid"]
      <3>1. r = Result("ok", none)
        BY <1>4, <2>2 DEF EnterContainer
      <3>2. none.remaining = 0
        BY <2>1 DEF Cursors
      <3> HIDE DEF none
      <3> QED
        BY <3>1, <3>2 DEF Result
    <2>5. r = PreparseNoDecrement([Inside(PastHead(c)) EXCEPT !.remaining = items])
      BY <1>4, <2>2, <2>4 DEF EnterContainer
    <2>6. items % 2 = 0
      BY <2>3
    <2> HIDE DEF items
    <2> QED
      BY <1>2, <2>1, <2>3, <2>4, <2>5, <2>6
  <1> QED
    BY <1>3, <1>4

-----------------------------------------------------------------------------
(* The course of the walk: wherever it is, what is left of the items it is *)
(* inside ends, from the innermost outwards, where the client's item does. *)
(* Each is in its frame's container, and has as many levels to spare as    *)
(* are left of `m`; a walk that goes on is within the limit of the code,   *)
(* and one that fails would have, too, with more (BrokenItem).             *)
Levels == {m \in Nat : m >= MAX_RECURSIONS}
Climb(s, k, m, x) ==
  \E i : /\ i[1] = ItemEnd(value.ptr, m - 1) /\ i[k] = x
         /\ \A j \in 2 .. k : i[j - 1] = AfterThis(i[j], s[j].it, m - j)

(* The count of a cursor inside an item of frame k is that of the client's *)
(* cursor, or in a map in step with the frame.                             *)
CountsOn(s, k, c) ==
  IF k = 1 THEN SameCount(c, value)
  ELSE s[k].container = "map" => Balanced(c) /\ c.key = ~s[k].onKey

Opened(s, k) ==
  /\ s[k].it.type \in ContainerMajors /\ CountsOn(s, k, s[k].it)
  /\ k = 1 => s[k].it.type = Kind

EndsThere(c) ==
  /\ Whole /\ ItemEnd(value.ptr, MAX_RECURSIONS - 1) # Malformed
  /\ c.ptr = End.it.ptr /\ c.remaining = End.it.remaining

Begun(s, k, c) ==
  /\ Read(c) /\ CountsOn(s, k, c)
  /\ IF k = 1 THEN TagsEnd[c.ptr] = TagsEnd[value.ptr] ELSE c.remaining # 0
  /\ \A m \in Levels : Climb(s, k, m, ItemEnd(c.ptr, m - k))
Chunked(s, k, c) ==
  /\ Iterated(c) /\ CountsOn(s, k, c)
  /\ k = 1 => c.type = Kind
  /\ \A m \in Levels : Climb(s, k, m, ThisEnd(c, TRUE, m - k))
Over(s, k, c) ==
  /\ Read(c)
  /\ IF k = 1 THEN EndsThere(c)
     ELSE \A m \in Levels : Climb(s, k - 1, m, ContainerEnd(c, FALSE, m - k))
Turned(s, k, c) ==
  k > 1 /\ s[k].container = "map" =>
    /\ s[k].onKey => c.remaining # 0
    /\ c.remaining # 0 => Balanced(c) /\ c.key = s[k].onKey
Due(s, k, c) == k > 1 /\ (c.remaining # 0 => CountsOn(s, k, c))

Course(s, p) ==
  LET n == Len(s)
      c == s[n].it
  IN  /\ \A k \in 1 .. n - 1 : Opened(s, k)
      /\ p = "item" => Begun(s, n, c)
      /\ p = "chunks" => Chunked(s, n, c)
      /\ p = "after" => Over(s, n, c) /\ Turned(s, n, c)
      /\ p = "loop" => Over(s, n, c) /\ Due(s, n, c)

CourseInv ==
  value \in Stood /\ BlamesTruly /\ (KeepsPlace /\ phase # "done" => Course(frames, phase))

LEMMA ClimbDown ==
  ASSUME NEW s, NEW k \in Nat, k > 1, NEW m, NEW x, Climb(s, k, m, x)
  PROVE  Climb(s, k - 1, m, AfterThis(x, s[k].it, m - k))
  <1>1. PICK i : /\ i[1] = ItemEnd(value.ptr, m - 1) /\ i[k] = x
                 /\ \A j \in 2 .. k : i[j - 1] = AfterThis(i[j], s[j].it, m - j)
    BY DEF Climb
  <1>2. k \in 2 .. k /\ \A j \in 2 .. k - 1 : j \in 2 .. k
    OBVIOUS
  <1>3. i[k - 1] = AfterThis(x, s[k].it, m - k)
    BY <1>1, <1>2
  <1> QED
    BY <1>1, <1>2, <1>3 DEF Climb

LEMMA ClimbUp ==
  ASSUME NEW s, NEW k \in Nat, k > 1, NEW m, NEW x, NEW y,
         Climb(s, k - 1, m, y), y = AfterThis(x, s[k].it, m - k)
  PROVE  Climb(s, k, m, x)
  <1>1. PICK h : /\ h[1] = ItemEnd(value.ptr, m - 1) /\ h[k - 1] = y
                 /\ \A j \in 2 .. k - 1 : h[j - 1] = AfterThis(h[j], s[j].it, m - j)
    BY DEF Climb
  <1> DEFINE i == [j \in 1 .. k |-> IF j = k THEN x ELSE h[j]]
  <1>2. i[k] = x /\ \A j \in 1 .. k - 1 : i[j] = h[j]
    OBVIOUS
  <1> HIDE DEF i
  <1>3. i[1] = ItemEnd(value.ptr, m - 1)
    BY <1>1, <1>2
  <1>4. ASSUME NEW j \in 2 .. k PROVE i[j - 1] = AfterThis(i[j], s[j].it, m - j)
    <2>1. i[j - 1] = h[j - 1]
      BY <1>2
    <2>2. CASE j = k
      BY <1>1, <1>2, <2>1, <2>2
    <2>3. CASE j # k
      <3>1. j \in 2 .. k - 1 /\ i[j] = h[j]
        BY <1>2, <2>3
      <3> QED
        BY <1>1, <2>1, <3>1
    <2> QED
      BY <2>2, <2>3
  <1> QED
    BY <1>2, <1>3, <1>4 DEF Climb

LEMMA ClimbAlike ==
  ASSUME NEW s, NEW t, NEW k \in Nat, NEW m, NEW x, Climb(s, k, m, x),
         \A j \in 2 .. k : SameCount(t[j].it, s[j].it)
  PROVE  Climb(t, k, m, x)
  <1>1. PICK i : /\ i[1] = ItemEnd(value.ptr, m - 1) /\ i[k] = x
                 /\ \A j \in 2 .. k : i[j - 1] = AfterThis(i[j], s[j].it, m - j)
    BY DEF Climb
  <1>2. ASSUME NEW j \in 2 .. k PROVE i[j - 1] = AfterThis(i[j], t[j].it, m - j)
    BY <1>1, SameContainer DEF SameCount
  <1> QED
    BY <1>1, <1>2 DEF Climb

LEMMA ClimbFirst ==
  ASSUME NEW s, NEW m, NEW x
  PROVE  Climb(s, 1, m, x) <=> x = ItemEnd(value.ptr, m - 1)
  <1>1. ASSUME x = ItemEnd(value.ptr, m - 1) PROVE Climb(s, 1, m, x)
    <2> DEFINE i == [j \in {1} |-> x]
    <2>1. i[1] = x /\ \A j \in 2 .. 1 : FALSE
      OBVIOUS
    <2> HIDE DEF i
    <2> QED
      BY <1>1, <2>1 DEF Climb
  <1> QED
    BY <1>1 DEF Climb

LEMMA ClimbNowhere ==
  ASSUME NEW s, NEW k \in Nat \ {0}, NEW m, Climb(s, k, m, Malformed)
  PROVE  ItemEnd(value.ptr, m - 1) = Malformed
  <1>1. PICK i : /\ i[1] = ItemEnd(value.ptr, m - 1) /\ i[k] = Malformed
                 /\ \A j \in 2 .. k : i[j - 1] = AfterThis(i[j], s[j].it, m - j)
    BY DEF Climb
  <1> DEFINE T == {j \in 1 .. k : i[j] = Malformed}
  <1>2. T \in SUBSET Nat /\ k \in T
    BY <1>1
  <1>3. PICK l \in T : \A j \in T : ~(j < l)
    BY <1>2, Least
  <1>4. CASE l = 1
    BY <1>1, <1>4
  <1>5. CASE l # 1
    <2>1. l \in 2 .. k /\ i[l] = Malformed
      BY <1>5
    <2>2. i[l - 1] = Malformed
      BY <1>1, <2>1, AfterNothing
    <2>3. l - 1 \in T /\ l - 1 < l
      BY <2>1, <2>2
    <2> QED
      BY <1>3, <2>3
  <1> QED
    BY <1>4, <1>5

LEMMA DeepEnough ==
  ASSUME buf \in Seq(Byte), value \in Stood
  PROVE  \E m \in Levels : /\ m > MAX_RECURSIONS
                           /\ ItemEnd(value.ptr, m - 1) = ItemEnd(value.ptr, Unlimited)
  <1> DEFINE m == MAX_RECURSIONS + Unlimited
  <1>1. Unlimited \in Nat /\ Limit \in Nat /\ Limit = Unlimited /\ Unlimited > 0
    BY BufferType DEF Unlimited
  <1>2. m \in Levels /\ m > MAX_RECURSIONS /\ m - 1 \in Nat /\ m - 1 >= Unlimited
    BY <1>1, ValidationAssumption DEF Levels
  <1> HIDE DEF m
  <1>3. value.ptr \in 1 .. Limit
    BY DEF Stood, Placed, Within
  <1>4. Goal("item", value.ptr, 0, m - 1) \in Goals /\ "item" \in Pieces
    BY <1>2, <1>3, GoalIs DEF Pieces
  <1>5. ItemEnd(value.ptr, Unlimited) = ItemEnd(value.ptr, m - 1)
    BY <1>1, <1>2, <1>3, <1>4, NestGrows DEF ItemEnd
  <1> QED
    BY <1>2, <1>5

(* With levels to spare, an item is malformed for want of bytes alone. *)
LEMMA BrokenItem ==
  ASSUME buf \in Seq(Byte), value \in Stood, NEW s, NEW k \in Nat \ {0},
         \A m \in Levels : m > MAX_RECURSIONS => Climb(s, k, m, Malformed)
  PROVE  ~Whole
  <1>1. PICK m \in Levels : /\ m > MAX_RECURSIONS
                            /\ ItemEnd(value.ptr, m - 1) = ItemEnd(value.ptr, Unlimited)
    BY DeepEnough
  <1>2. ItemEnd(value.ptr, m - 1) = Malformed
    BY <1>1, ClimbNowhere
  <1> QED
    BY <1>1, <1>2 DEF Whole

(* A step leaves the bytes and the client's cursor alone, hence what is    *)
(* said of any stack.                                                      *)
LEMMA EndsStay ==
  ASSUME buf \in Seq(Byte), buf' = buf, NEW c, NEW nest, NEW q, NEW e
  PROVE  /\ ItemEnd(q, nest)' = ItemEnd(q, nest)
         /\ AfterThis(e, c, nest)' = AfterThis(e, c, nest)
         /\ ThisEnd(c, TRUE, nest)' = ThisEnd(c, TRUE, nest)
         /\ ContainerEnd(c, FALSE, nest)' = ContainerEnd(c, FALSE, nest)
  <1>1. EndOf' = EndOf
    BY EndOfStays
  <1>2. ItemEnd(q, nest)' = ItemEnd(q, nest) /\ ItemEnd(c.ptr, nest)' = ItemEnd(c.ptr, nest)
    BY <1>1 DEF ItemEnd
  <1>3. \A x : AfterThis(x, c, nest)' = AfterThis(x, c, nest)
    BY <1>1 DEF AfterThis, ItemsEnd, BreakEnd
  <1>4. ChunksEnd(c.ptr, c.type)' = ChunksEnd(c.ptr, c.type)
    BY <1>1 DEF ChunksEnd
  <1>5. ThisEnd(c, TRUE, nest)' = ThisEnd(c, TRUE, nest)
    BY <1>2, <1>4 DEF ThisEnd
  <1>6. ContainerEnd(c, FALSE, nest)' = ContainerEnd(c, FALSE, nest)
    <2>1. ContainerEnd(c, FALSE, nest)' =
            (IF c.remaining = 0 THEN ResumeAt(c) ELSE AfterThis(ItemEnd(c.ptr, nest), c, nest)')
      BY DEF ContainerEnd, ThisEnd
    <2>2. AfterThis(ItemEnd(c.ptr, nest), c, nest)' = AfterThis(ItemEnd(c.ptr, nest), c, nest)
      BY <1>1, <1>2 DEF AfterThis, ItemsEnd, BreakEnd
    <2> QED
      BY <2>1, <2>2 DEF ContainerEnd, ThisEnd
  <1> QED
    BY <1>2, <1>3, <1>5, <1>6

LEMMA ClimbStays ==
  ASSUME buf \in Seq(Byte), buf' = buf, value' = value, NEW s, NEW k, NEW m, NEW x
  PROVE  Climb(s, k, m, x)' <=> Climb(s, k, m, x)
  <1>1. ItemEnd(value.ptr, m - 1)' = ItemEnd(value.ptr, m - 1)
    <2>1. EndOf' = EndOf
      BY EndOfStays
    <2> QED
      BY <2>1 DEF ItemEnd
  <1>2. \A e, j : AfterThis(e, s[j].it, m - j)' = AfterThis(e, s[j].it, m - j)
    BY EndOfStays DEF AfterThis, ItemsEnd, BreakEnd
  <1> DEFINE Chain(i) == /\ i[1] = ItemEnd(value.ptr, m - 1) /\ i[k] = x
                         /\ \A j \in 2 .. k : i[j - 1] = AfterThis(i[j], s[j].it, m - j)
  <1>3. \A i : Chain(i)' <=> Chain(i)
    <2> TAKE i
    <2>1. \A j : AfterThis(i[j], s[j].it, m - j)' = AfterThis(i[j], s[j].it, m - j)
      BY <1>2
    <2> QED
      BY <1>1, <2>1
  <1>4. Climb(s, k, m, x) <=> \E i : Chain(i)
    BY DEF Climb
  <1>5. Climb(s, k, m, x)' <=> \E i : Chain(i)'
    BY DEF Climb
  <1> QED
    BY <1>3, <1>4, <1>5

LEMMA GoalStays ==
  ASSUME buf \in Seq(Byte), buf' = buf, value' = value
  PROVE  /\ Kind' = Kind /\ End' = End /\ (Whole' <=> Whole)
         /\ ItemEnd(value.ptr, MAX_RECURSIONS - 1)' = ItemEnd(value.ptr, MAX_RECURSIONS - 1)
         /\ TagsEnd' = TagsEnd
  <1>1. EndOf' = EndOf /\ TagsEnd' = TagsEnd
    BY EndOfStays, TagsEndStays
  <1>2. Kind' = Kind
    BY <1>1 DEF Kind
  <1>3. \A n : ItemEnd(value.ptr, n)' = ItemEnd(value.ptr, n)
    BY <1>1 DEF ItemEnd
  <1>4. Unlimited' = Unlimited
    BY DEF Unlimited
  <1>5. ItemEnd(value.ptr, Unlimited)' = ItemEnd(value.ptr, Unlimited)
    BY <1>3, <1>4
  <1>6. PICK c : c = [value EXCEPT !.type = Kind, !.ptr = ItemEnd(value.ptr, Unlimited)]
    OBVIOUS
  <1>7. [value EXCEPT !.type = Kind, !.ptr = ItemEnd(value.ptr, Unlimited)]' = c
    BY <1>2, <1>5, <1>6
  <1>8. PreparseNext(c)' = PreparseNext(c)
    BY NextStays
  <1>9. End = PreparseNext(c)
    BY <1>6 DEF End
  <1>10. End' = PreparseNext(c)'
    BY <1>7 DEF End
  <1>11. End' = End
    BY <1>8, <1>9, <1>10
  <1> QED
    BY <1>1, <1>2, <1>3, <1>5, <1>11 DEF Whole

LEMMA ReadStays ==
  ASSUME buf' = buf, NEW c
  PROVE  (Read(c)' <=> Read(c)) /\ (Iterated(c)' <=> Iterated(c))
  <1>1. Stood' = Stood
    BY PlacesStay
  <1>2. \A q : (PlainHead(q)' <=> PlainHead(q)) /\ (StreamedHead(q, StringMajors)' <=> StreamedHead(q, StringMajors))
    BY DEF PlainHead, StreamedHead, HeadLength, Limit
  <1>3. HeadHere(c)' <=> HeadHere(c)
    BY DEF HeadHere, HeadByte, Limit
  <1>4. Int64(c)' = Int64(c)
    BY DEF Int64
  <1>5. Within(c)' <=> Within(c)
    BY DEF Within, Limit
  <1>6. HeadRead(c)' <=> HeadRead(c)
    BY <1>2, <1>3, <1>4 DEF HeadRead
  <1>7. Iterated(c)' <=> Iterated(c)
    BY <1>2, <1>5 DEF Iterated
  <1> QED
    BY <1>1, <1>6, <1>7 DEF Read

LEMMA CourseStays ==
  ASSUME buf \in Seq(Byte), buf' = buf, value' = value, NEW s, NEW p
  PROVE  Course(s, p)' <=> Course(s, p)
  <1>1. \A k, m, x : Climb(s, k, m, x)' <=> Climb(s, k, m, x)
    BY ClimbStays
  <1>2. \A k, c : CountsOn(s, k, c)' <=> CountsOn(s, k, c)
    BY DEF CountsOn
  <1>3. \A k : Opened(s, k)' <=> Opened(s, k)
    BY <1>2, GoalStays DEF Opened
  <1>4. \A c : EndsThere(c)' <=> EndsThere(c)
    BY GoalStays DEF EndsThere
  <1>5. \A k, c : Begun(s, k, c)' <=> Begun(s, k, c)
    <2> TAKE k, c
    <2>1. \A m : Climb(s, k, m, ItemEnd(c.ptr, m - k))' <=> Climb(s, k, m, ItemEnd(c.ptr, m - k))
      <3> TAKE m
      <3>1. PICK x : x = ItemEnd(c.ptr, m - k)
        OBVIOUS
      <3>2. ItemEnd(c.ptr, m - k)' = x
        BY <3>1, EndsStay
      <3>3. Climb(s, k, m, x)' <=> Climb(s, k, m, x)
        BY <1>1
      <3> QED
        BY <3>1, <3>2, <3>3 DEF Climb
    <2>2. TagsEnd[c.ptr]' = TagsEnd[c.ptr] /\ TagsEnd[value.ptr]' = TagsEnd[value.ptr]
      BY GoalStays
    <2> QED
      BY <1>2, <2>1, <2>2, ReadStays DEF Begun
  <1>6. \A k, c : Chunked(s, k, c)' <=> Chunked(s, k, c)
    <2> TAKE k, c
    <2>1. \A m : Climb(s, k, m, ThisEnd(c, TRUE, m - k))' <=> Climb(s, k, m, ThisEnd(c, TRUE, m - k))
      <3> TAKE m
      <3>1. PICK x : x = ThisEnd(c, TRUE, m - k)
        OBVIOUS
      <3>2. ThisEnd(c, TRUE, m - k)' = x
        BY <3>1, EndsStay
      <3>3. Climb(s, k, m, x)' <=> Climb(s, k, m, x)
        BY <1>1
      <3> QED
        BY <3>1, <3>2, <3>3 DEF Climb
    <2> QED
      BY <1>2, <2>1, ReadStays, GoalStays DEF Chunked
  <1>7. \A k, c : Over(s, k, c)' <=> Over(s, k, c)
    <2> TAKE k, c
    <2>1. \A m : Climb(s, k - 1, m, ContainerEnd(c, FALSE, m - k))'
                   <=> Climb(s, k - 1, m, ContainerEnd(c, FALSE, m - k))
      <3> TAKE m
      <3>1. PICK x : x = ContainerEnd(c, FALSE, m - k)
        OBVIOUS
      <3>2. ContainerEnd(c, FALSE, m - k)' = x
        BY <3>1, EndsStay
      <3>3. Climb(s, k - 1, m, x)' <=> Climb(s, k - 1, m, x)
        BY <1>1
      <3> QED
        BY <3>1, <3>2, <3>3 DEF Climb
    <2> QED
      BY <1>4, <2>1, ReadStays DEF Over
  <1>8. \A k, c : (Due(s, k, c)' <=> Due(s, k, c)) /\ (Turned(s, k, c)' <=> Turned(s, k, c))
    BY <1>2 DEF Due, Turned
  <1> QED
    BY <1>3, <1>5, <1>6, <1>7, <1>8 DEF Course

(* The item in frame k ends where x stands: the cursor is moved on. *)
Ends(s, k, x) ==
  /\ x \in Cursors /\ Within(x) /\ x.remaining # 0 /\ x.type # "tag" /\ CountsOn(s, k, x)
  /\ IF k = 1 THEN x.type = Kind ELSE SameCount(x, s[k].it) /\ s[k].onKey \in BOOLEAN
  /\ \A m \in Levels : Climb(s, k, m, x.ptr)

LEMMA ClientItemOver ==
  ASSUME buf \in Seq(Byte), value \in Stood, NEW s, NEW x, Ends(s, 1, x)
  PROVE  IF PreparseNext(x).err = "ok" THEN EndsThere(PreparseNext(x).it) ELSE ~Whole
  <1> DEFINE y == [value EXCEPT !.type = Kind, !.ptr = ItemEnd(value.ptr, Unlimited)]
  <1>1. x \in Cursors /\ x.ptr \in 1 .. Limit /\ x.remaining # 0 /\ x.type # "tag"
        /\ SameCount(x, value) /\ x.type = Kind
    BY DEF Ends, Within, CountsOn
  <1>2. \A m \in Levels : ItemEnd(value.ptr, m - 1) = x.ptr
    BY ClimbFirst DEF Ends
  <1>3. PICK m \in Levels : ItemEnd(value.ptr, m - 1) = ItemEnd(value.ptr, Unlimited)
    BY DeepEnough
  <1>4. ItemEnd(value.ptr, Unlimited) = x.ptr
    BY <1>2, <1>3
  <1>5. MAX_RECURSIONS \in Levels
    BY ValidationAssumption DEF Levels
  <1>6. ItemEnd(value.ptr, MAX_RECURSIONS - 1) = x.ptr /\ x.ptr # Malformed
    BY <1>1, <1>2, <1>5 DEF Malformed
  <1>7. value \in Cursors /\ value.type # "invalid"
    <2>1. value \in Cursors /\ Standing(value) /\ value.remaining # 0
      BY <1>1 DEF Stood, Placed, SameCount
    <2>2. HeadHere(value)
      BY <2>1 DEF Standing
    <2> QED
      BY <2>1, <2>2, HeadProperties
  <1>8. y \in Cursors /\ Alike(x, y)
    <2>1. x.ptr \in Nat /\ x.type \in Types
      BY <1>1 DEF Cursors
    <2>2. y = [value EXCEPT !.type = x.type, !.ptr = x.ptr]
      BY <1>1, <1>4
    <2>3. ASSUME NEW type \in Types, NEW q \in Nat
          PROVE  LET d == [value EXCEPT !.type = type, !.ptr = q]
                 IN  d \in Cursors /\ SameCount(d, value) /\ d.type = type /\ d.ptr = q
      BY <1>7 DEF Cursors, SameCount
    <2> HIDE DEF y
    <2>4. y \in Cursors /\ SameCount(y, value) /\ y.type = x.type /\ y.ptr = x.ptr
      BY <2>1, <2>2, <2>3
    <2> QED
      BY <1>1, <2>4 DEF Alike, SameCount
  <1>9. End = PreparseNext(y)
    BY DEF End
  <1> HIDE DEF y
  <1>10. /\ PreparseNext(x).err = End.err /\ PreparseNext(x).it.ptr = End.it.ptr
         /\ PreparseNext(x).it.remaining = End.it.remaining
    BY <1>1, <1>8, <1>9, NextAlike DEF Within
  <1> QED
    BY <1>4, <1>6, <1>7, <1>10 DEF EndsThere, Whole

LEMMA ItemOver ==
  ASSUME buf \in Seq(Byte), value \in Stood, NEW s, NEW k \in 1 .. MAX_RECURSIONS, NEW x,
         Ends(s, k, x), NEW r, r = PreparseNext(x)
  PROVE  IF r.err = "ok" THEN Over(s, k, r.it) /\ Turned(s, k, r.it) ELSE ~Whole
  <1>1. x \in Cursors /\ Within(x) /\ x.remaining # 0 /\ x.type # "tag"
        /\ \A m \in Levels : Climb(s, k, m, x.ptr)
    BY DEF Ends
  <1>2. r.err = "ok" => Read(r.it)
    BY <1>1, NextRead
  <1>3. CASE k = 1
    BY <1>2, <1>3, ClientItemOver DEF Over, Turned
  <1>4. CASE k # 1
    <2>1. SameCount(x, s[k].it) /\ s[k].onKey \in BOOLEAN /\ CountsOn(s, k, x) /\ k > 1
      BY <1>4 DEF Ends
    <2>2. ASSUME NEW m \in Levels
          PROVE  \E e : Owes(r, e, m - k) /\ Climb(s, k - 1, m, e)
      <3>1. m - k \in Nat /\ k \in Nat
        BY ValidationAssumption DEF Levels
      <3>2. Owes(r, AfterThis(x.ptr, x, m - k), m - k)
        BY <1>1, <3>1, NextOwes
      <3>3. Climb(s, k - 1, m, AfterThis(x.ptr, s[k].it, m - k))
        BY <1>1, <2>1, <3>1, ClimbDown
      <3>4. AfterThis(x.ptr, s[k].it, m - k) = AfterThis(x.ptr, x, m - k)
        BY <2>1, SameContainer DEF SameCount
      <3> QED
        BY <3>2, <3>3, <3>4
    <2>3. CASE r.err = "ok"
      <3>1. \A m \in Levels : Climb(s, k - 1, m, ContainerEnd(r.it, FALSE, m - k))
        BY <2>2, <2>3 DEF Owes
      <3>2. Turned(s, k, r.it)
        <4> SUFFICES ASSUME s[k].container = "map" PROVE Turned(s, k, r.it)
          BY DEF Turned
        <4>1. Balanced(x) /\ x.key = ~s[k].onKey
          BY <1>4, <2>1 DEF CountsOn
        <4>2. /\ ~x.key => r.it.remaining # 0
              /\ r.it.remaining # 0 => Balanced(r.it) /\ r.it.key = ~x.key
          BY <1>1, <2>3, <4>1, NextBalanced
        <4> QED
          BY <2>1, <4>1, <4>2 DEF Turned
      <3> QED
        BY <1>2, <1>4, <2>3, <3>1, <3>2 DEF Over
    <2>4. CASE r.err # "ok"
      <3>1. \A m \in Levels : Climb(s, k - 1, m, Malformed)
        BY <2>2, <2>4 DEF Owes
      <3>2. k - 1 \in Nat \ {0}
        BY <2>1
      <3> QED
        BY <2>4, <3>1, <3>2, BrokenItem
    <2> QED
      BY <2>3, <2>4
  <1> QED
    BY <1>3, <1>4

(* How the walk goes on, and how it stops. *)
LEMMA GoesOn ==
  ASSUME buf \in Seq(Byte), CourseInv, Unchanging, NEW t, frames' = t, NEW p, phase' = p,
         p # "done", KeepsPlace => Course(t, p)
  PROVE  CourseInv'
  <1>1. buf' = buf /\ value' = value /\ reader' = reader /\ flags' = flags
    BY DEF Unchanging
  <1>2. (value \in Stood)'
    BY <1>1, PlacesStay DEF CourseInv
  <1>3. BlamesTruly'
    BY DEF BlamesTruly
  <1>4. KeepsPlace' <=> KeepsPlace
    BY <1>1 DEF KeepsPlace, HasBit
  <1>5. KeepsPlace => Course(frames, phase)'
    <2> SUFFICES ASSUME KeepsPlace PROVE Course(frames, phase)'
      OBVIOUS
    <2>1. Course(t, p)'
      BY <1>1, CourseStays
    <2> QED
      BY <2>1 DEF Course
  <1> QED
    BY <1>2, <1>3, <1>4, <1>5 DEF CourseInv

LEMMA Fails ==
  ASSUME buf \in Seq(Byte), CourseInv, Unchanging, NEW err, Fail(err),
         KeepsPlace => err \in RuleErrors \cup LateErrors \/ (err \in ParseErrors \ {"ok"} /\ ~Whole)
  PROVE  CourseInv'
  <1>1. buf' = buf /\ value' = value /\ reader' = reader /\ flags' = flags
    BY DEF Unchanging
  <1>2. phase' = "done" /\ answer' = err
    BY DEF Fail
  <1>3. (value \in Stood)'
    BY <1>1, PlacesStay DEF CourseInv
  <1>4. KeepsPlace' <=> KeepsPlace
    BY <1>1 DEF KeepsPlace, HasBit
  <1>5. Whole' <=> Whole
    BY <1>1, GoalStays
  <1>6. KeepsPlace => err \notin {"ok", "garbage_at_end"}
    BY DEF RuleErrors, LateErrors, ParseErrors
  <1>7. LateErrors' = LateErrors
    BY <1>1 DEF LateErrors, SomeBit, SHORTEST_INTEGRALS
  <1>8. BlamesTruly'
    BY <1>2, <1>4, <1>5, <1>6, <1>7 DEF BlamesTruly
  <1> QED
    BY <1>2, <1>3, <1>8 DEF CourseInv

(* A rule is broken, or nothing is. *)
Verdicts == RuleErrors \cup {"ok"}

LEMMA NumberVerdictIs ==
  ASSUME buf \in Seq(Byte), NEW c \in Cursors, Within(c), PlainHead(c.ptr)
  PROVE  NumberVerdict(c) \in Verdicts
  <1> DEFINE d == Descriptor(HeadByte(c))
  <1>1. d <= Value64Bit /\ c.ptr + (1 + BytesNeeded(d)) <= Limit /\ c.ptr + 1 <= Limit
    BY BufferType DEF PlainHead, HeadLength, HeadByte, Within
  <1>2. c.ptr \in 1 .. Len(buf) /\ d \in Nat
    <2>1. c.ptr \in 1 .. Len(buf) /\ buf[c.ptr] \in Byte
      BY WholeHead DEF Within
    <2> QED
      BY <2>1, HeadType DEF HeadByte
  <1>3. 1 + BytesNeeded(d) \in Nat \ {0}
    BY <1>1, <1>2, NeededType
  <1>4. CanRead(c, 1) /\ CanRead(c, 1 + BytesNeeded(d))
    BY <1>1, <1>3, CanReadIs
  <1>5. ~(d > Value64Bit)
    BY <1>1, <1>2, DescriptorsAssumption
  <1> HIDE DEF d
  <1>6. NumberVerdict(c) \in {"ok", "overlong_encoding"}
    BY <1>4, <1>5 DEF NumberVerdict, d
  <1> QED
    BY <1>6 DEF Verdicts, RuleErrors

LEMMA HeadVerdictIs ==
  ASSUME buf \in Seq(Byte), NEW c \in Cursors, HeadRead(c)
  PROVE  HeadVerdict(c) \in Verdicts
  <1>1. CASE c.unknown
    BY <1>1 DEF HeadVerdict, Verdicts, RuleErrors
  <1>2. CASE ~c.unknown
    <2>1. PlainHead(c.ptr) /\ Within(c)
      BY <1>2, HeadReadIs DEF HeadRead, Within
    <2> QED
      BY <1>2, <2>1, NumberVerdictIs DEF HeadVerdict
  <1> QED
    BY <1>1, <1>2

LEMMA SimpleVerdictIs == \A c : SimpleVerdict(c) \in Verdicts
  <1>1. \A c : FloatVerdict(c) \in Verdicts
    BY DEF FloatVerdict, Verdicts, RuleErrors
  <1>2. \A c : SimpleVerdict(c) \in Verdicts
    BY <1>1 DEF SimpleVerdict, Verdicts, RuleErrors
  <1> QED
    BY <1>2

LEMMA TagVerdictIs == \A tag, c, n : TagVerdict(tag, c, n) \in Verdicts
  BY DEF TagVerdict, Verdicts, RuleErrors

LEMMA OrderVerdictIs == \A a, b : OrderVerdict(a, b) \in Verdicts
  BY DEF OrderVerdict, Verdicts, RuleErrors

LEMMA ChunkVerdictIs ==
  ASSUME buf \in Seq(Byte), NEW c, Iterated(c), GetChunk(c).err = "ok"
  PROVE  ChunkVerdict(c, GetChunk(c).it) \in Verdicts \cup LateErrors
  <1> DEFINE next == GetChunk(c).it
  <1>1. ChunkSize(c).err = "ok"
    BY DEF GetChunk, Result
  <1>2. PlainHead(c.ptr) /\ c \in Cursors /\ Within(c)
    BY <1>1, ChunkSizeIs DEF Iterated
  <1>3. NumberVerdict(Judged(c, next)) \in Verdicts \cup LateErrors
    <2>1. CASE reader
      BY <2>1 DEF NumberVerdict, LateErrors, Verdicts, RuleErrors
    <2>2. CASE ~reader
      BY <1>2, <2>2, NumberVerdictIs DEF Judged
    <2> QED
      BY <2>1, <2>2
  <1> HIDE DEF next
  <1>4. ChunkVerdict(c, next) \in Verdicts \cup LateErrors
    BY <1>3 DEF ChunkVerdict, Verdicts, RuleErrors
  <1> QED
    BY <1>4 DEF next

-----------------------------------------------------------------------------
(* Where the walk is, and what it carries over when the top changes. *)
LEMMA Site ==
  ASSUME ValidationInv
  PROVE  LET n == Len(frames)
         IN  /\ n \in Nat \ {0} /\ n \in 1 .. MAX_RECURSIONS /\ buf \in Seq(Byte)
             /\ FramesInv /\ frames \in Seq(Frames)
             /\ Top = frames[n] /\ Top \in Frames /\ Top.onKey \in BOOLEAN
             /\ Here = frames[n].it /\ Here \in Placed /\ Here \in Cursors /\ Within(Here)
             /\ Top.container = "none" <=> n = 1
             /\ Top.left <= MAX_RECURSIONS - n + 1
  <1> DEFINE n == Len(frames)
  <1>1. /\ FramesInv /\ buf \in Seq(Byte) /\ frames \in Seq(Frames)
        /\ \A k \in 1 .. n : /\ frames[k].container = "none" <=> k = 1
                             /\ frames[k].left <= MAX_RECURSIONS - k + 1
    BY DEF ValidationInv, FramesInv
  <1>2. /\ n \in Nat \ {0} /\ Top = frames[n] /\ Top \in Frames /\ Here = Top.it
        /\ Here \in Placed /\ Here \in Cursors /\ Here.ptr \in 1 .. Limit
        /\ Top.left \in 1 .. MAX_RECURSIONS
    BY <1>1, TopIs
  <1>3. Top.onKey \in BOOLEAN
    BY <1>2, FrameFields
  <1> HIDE DEF n
  <1>4. n \in 1 .. n
    BY <1>2
  <1>5. (Top.container = "none" <=> n = 1) /\ Top.left <= MAX_RECURSIONS - n + 1
    BY <1>1, <1>2, <1>4
  <1>6. n \in 1 .. MAX_RECURSIONS
    BY <1>2, <1>5, ValidationAssumption
  <1> QED
    BY <1>1, <1>2, <1>3, <1>5, <1>6 DEF n, Within

LEMMA CountsAlike ==
  ASSUME NEW s, NEW t, NEW k, NEW c, NEW d, SameCount(d, c), CountsOn(s, k, c),
         t[k].container = s[k].container, t[k].onKey = s[k].onKey
  PROVE  CountsOn(t, k, d)
  BY DEF CountsOn, SameCount, Balanced

LEMMA Carried ==
  ASSUME NEW s, NEW t, NEW k \in Nat, SameBelow(t, s, k)
  PROVE  /\ \A j \in 1 .. k : Opened(s, j) => Opened(t, j)
         /\ \A m, x : Climb(s, k, m, x) => Climb(t, k, m, x)
  <1>1. \A j \in 1 .. k : SameFrame(t[j], s[j]) /\ SameCount(t[j].it, s[j].it)
                          /\ t[j].it.type = s[j].it.type
    BY DEF SameBelow, SameItem
  <1>2. ASSUME NEW j \in 1 .. k, Opened(s, j) PROVE Opened(t, j)
    <2>1. CountsOn(t, j, t[j].it)
      BY <1>1, <1>2, CountsAlike DEF Opened, SameFrame
    <2> QED
      BY <1>1, <1>2, <2>1 DEF Opened
  <1>3. \A j \in 2 .. k : SameCount(t[j].it, s[j].it)
    BY <1>1
  <1>4. ASSUME NEW m, NEW x, Climb(s, k, m, x) PROVE Climb(t, k, m, x)
    BY <1>3, <1>4, ClimbAlike
  <1> QED
    BY <1>2, <1>4

LEMMA Reframed ==
  ASSUME NEW s, NEW t, NEW n \in Nat \ {0}, Len(t) = n, SameBelow(t, s, n - 1),
         SameFrame(t[n], s[n]), \A k \in 1 .. n - 1 : Opened(s, k), NEW c, c = t[n].it
  PROVE  /\ Begun(s, n, c) /\ SameCount(c, s[n].it) => Course(t, "item")
         /\ Chunked(s, n, c) /\ SameCount(c, s[n].it) => Course(t, "chunks")
         /\ Over(s, n, c) /\ Turned(s, n, c) => Course(t, "after")
  <1>1. /\ \A k \in 1 .. n - 1 : Opened(t, k)
        /\ \A m, x : Climb(s, n - 1, m, x) => Climb(t, n - 1, m, x)
    BY Carried
  <1>2. t[n].container = s[n].container /\ t[n].onKey = s[n].onKey
    BY DEF SameFrame
  <1>3. CountsOn(s, n, c) => CountsOn(t, n, c)
    BY <1>2, CountsAlike DEF SameCount
  <1>4. ASSUME SameCount(c, s[n].it), NEW m, NEW x, Climb(s, n, m, x)
        PROVE  Climb(t, n, m, x)
    <2>1. ASSUME NEW j \in 2 .. n PROVE SameCount(t[j].it, s[j].it)
      <3>1. j = n \/ j \in 1 .. n - 1
        OBVIOUS
      <3> QED
        BY <1>4, <3>1 DEF SameBelow, SameItem
    <2> QED
      BY <1>4, <2>1, ClimbAlike
  <1>5. ASSUME Begun(s, n, c), SameCount(c, s[n].it) PROVE Course(t, "item")
    <2>1. Begun(t, n, c)
      BY <1>3, <1>4, <1>5 DEF Begun
    <2> QED
      BY <1>1, <2>1 DEF Course
  <1>6. ASSUME Chunked(s, n, c), SameCount(c, s[n].it) PROVE Course(t, "chunks")
    <2>1. Chunked(t, n, c)
      BY <1>3, <1>4, <1>6 DEF Chunked
    <2> QED
      BY <1>1, <2>1 DEF Course
  <1>7. ASSUME Over(s, n, c), Turned(s, n, c) PROVE Course(t, "after")
    <2>1. Over(t, n, c) /\ Turned(t, n, c)
      BY <1>1, <1>2, <1>7 DEF Over, Turned
    <2> QED
      BY <1>1, <2>1 DEF Course
  <1> QED
    BY <1>5, <1>6, <1>7

LEMMA MovedOn ==
  ASSUME ValidationInv, NEW c \in Placed, frames' = Moved(c), NEW t, t = frames'
  PROVE  LET n == Len(frames)
         IN  /\ Len(t) = n /\ SameBelow(t, frames, n - 1)
             /\ SameFrame(t[n], frames[n]) /\ t[n].it = c
  <1>1. FramesInv /\ Top \in Frames /\ Top = frames[Len(frames)]
    BY Site
  <1> DEFINE g == [Top EXCEPT !.it = c]
  <1>2. g.it = c /\ SameFrame(g, Top)
    BY <1>1, WithCursor
  <1> HIDE DEF g
  <1>3. TopBecomes(g)
    BY <1>1, MovingTop DEF g
  <1> QED
    BY <1>1, <1>2, <1>3 DEF TopBecomes

(* The item at hand is over: the cursor goes on from where it ends. *)
LEMMA ValidatedCourse ==
  ASSUME ValidationInv, CourseInv, Unchanging, phase \in {"item", "chunks"},
         NEW r, Validated(r),
         KeepsPlace => \E x : Ends(frames, Len(frames), x) /\ r = PreparseNext(x)
  PROVE  CourseInv'
  <1> DEFINE n == Len(frames)
  <1>1. n \in Nat \ {0} /\ n \in 1 .. MAX_RECURSIONS /\ buf \in Seq(Byte)
    BY Site
  <1>2. value \in Stood
    BY DEF CourseInv
  <1>3. KeepsPlace => IF r.err = "ok" THEN Over(frames, n, r.it) /\ Turned(frames, n, r.it)
                      ELSE ~Whole
    BY <1>1, <1>2, ItemOver
  <1>4. KeepsPlace => r.err \in ParseErrors
    BY NextErrors
  <1>5. CASE r.err # "ok"
    <2>1. Fail(r.err)
      BY <1>5 DEF Validated
    <2> QED
      BY <1>1, <1>3, <1>4, <1>5, <2>1, Fails
  <1>6. CASE r.err = "ok"
    <2>1. phase' = "after" /\ frames' = Moved(r.it)
      BY <1>6 DEF Validated
    <2>2. PICK t : t = frames'
      OBVIOUS
    <2>3. KeepsPlace => Course(t, "after")
      <3> SUFFICES ASSUME KeepsPlace PROVE Course(t, "after")
        OBVIOUS
      <3>1. Over(frames, n, r.it) /\ Turned(frames, n, r.it)
        BY <1>3, <1>6
      <3>2. r.it \in Placed
        BY <3>1 DEF Over, Read, Stood
      <3>3. /\ Len(t) = n /\ SameBelow(t, frames, n - 1)
            /\ SameFrame(t[n], frames[n]) /\ t[n].it = r.it
        BY <2>1, <2>2, <3>2, MovedOn
      <3>4. \A k \in 1 .. n - 1 : Opened(frames, k)
        BY DEF CourseInv, Course
      <3> HIDE DEF n
      <3> QED
        BY <1>1, <3>1, <3>3, <3>4, Reframed
    <2> QED
      BY <1>1, <2>1, <2>2, <2>3, GoesOn
  <1> QED
    BY <1>5, <1>6

(* What is under the cursor when an item is begun. *)
LEMMA ItemHere ==
  ASSUME ValidationInv, CourseInv, KeepsPlace, phase = "item"
  PROVE  LET n == Len(frames)
         IN  /\ Begun(frames, n, Here) /\ \A k \in 1 .. n - 1 : Opened(frames, k)
             /\ HeadRead(Here) \/ (Here.type = "invalid" /\ ~Whole)
  <1> DEFINE n == Len(frames)
  <1>1. Here = frames[n].it /\ buf \in Seq(Byte)
    BY Site
  <1>2. Begun(frames, n, Here) /\ \A k \in 1 .. n - 1 : Opened(frames, k)
    BY <1>1 DEF CourseInv, Course
  <1>3. CASE Here.remaining # 0
    BY <1>2, <1>3 DEF Begun, Read
  <1>4. CASE Here.remaining = 0
    <2>1. n = 1 /\ SameCount(Here, value) /\ Here \in Stood
      BY <1>2, <1>4 DEF Begun, CountsOn, Read
    <2>2. Standing(value) /\ Standing(Here) /\ value.remaining = 0
      BY <1>4, <2>1 DEF SameCount, CourseInv, Stood
    <2>3. value.type = "invalid" /\ Here.type = "invalid"
      BY <1>4, <2>2 DEF Standing
    <2> QED
      BY <1>2, <2>3 DEF Whole
  <1> QED
    BY <1>2, <1>3, <1>4

LEMMA KindHere ==
  ASSUME buf \in Seq(Byte), NEW s, NEW c \in Cursors, Begun(s, 1, c), HeadRead(c), c.type # "tag"
  PROVE  c.type = Kind
  <1>1. c.ptr \in 1 .. Limit /\ c.type = MajorOf(buf[c.ptr])
    BY HeadReadIs
  <1>2. TagsEnd[c.ptr] = c.ptr
    BY <1>1, TagsEndRule
  <1> QED
    BY <1>1, <1>2 DEF Begun, Kind

-----------------------------------------------------------------------------
(* The actions. *)
LEMMA RefuseCourse ==
  ASSUME ValidationInv, CourseInv, RefuseHead \/ ValidateInvalid, Unchanging PROVE CourseInv'
  <1>1. buf \in Seq(Byte) /\ Here \in Cursors
    BY Site
  <1>2. CASE RefuseHead
    <2>1. phase = "item" /\ HeadVerdict(Here) # "ok" /\ Fail(HeadVerdict(Here))
      BY <1>2 DEF RefuseHead
    <2>2. HeadVerdict(Here) \in RuleErrors \cup ParseErrors
      BY DEF HeadVerdict, NumberVerdict, RuleErrors, ParseErrors
    <2>3. KeepsPlace => HeadVerdict(Here) \in RuleErrors \/ ~Whole
      BY <1>1, <2>1, ItemHere, HeadVerdictIs DEF Verdicts
    <2>4. PICK err : err = HeadVerdict(Here)
      OBVIOUS
    <2> QED
      BY <1>1, <2>1, <2>2, <2>3, <2>4, Fails
  <1>3. CASE ValidateInvalid
    <2>1. phase = "item" /\ Here.type = "invalid" /\ Fail("unknown_type")
      BY <1>3 DEF ValidateInvalid, AtItem
    <2>2. KeepsPlace => ~Whole
      BY <1>1, <2>1, ItemHere, HeadProperties DEF HeadRead
    <2>3. "unknown_type" \in ParseErrors \ {"ok"}
      BY DEF ParseErrors
    <2> QED
      BY <1>1, <2>1, <2>2, <2>3, Fails
  <1> QED
    BY <1>2, <1>3

LEMMA FixedCourse ==
  ASSUME ValidationInv, CourseInv, ValidateFixed, Unchanging PROVE CourseInv'
  <1> DEFINE n == Len(frames)
             x == PastHead(Here)
  <1>1. buf \in Seq(Byte) /\ Here \in Cursors /\ n \in 1 .. MAX_RECURSIONS /\ n \in Nat \ {0}
        /\ Here = frames[n].it /\ Top = frames[n] /\ Top.onKey \in BOOLEAN
    BY Site
  <1>2. phase = "item" /\ Here.type \in {"uint", "negative", "simple"}
    BY DEF ValidateFixed, AtItem
  <1>3. CASE Here.type = "simple" /\ SimpleVerdict(Here) # "ok"
    <2>1. Fail(SimpleVerdict(Here))
      BY <1>3 DEF ValidateFixed
    <2>2. PICK err : err = SimpleVerdict(Here)
      OBVIOUS
    <2>3. err \in RuleErrors
      BY <1>3, <2>2, SimpleVerdictIs DEF Verdicts
    <2> QED
      BY <1>1, <2>1, <2>2, <2>3, Fails
  <1>4. CASE ~(Here.type = "simple" /\ SimpleVerdict(Here) # "ok")
    <2>1. Validated(AdvanceInternal(Here))
      BY <1>4 DEF ValidateFixed
    <2>2. ~IsString(Here) /\ ~IsContainer(Here) /\ Here.type # "tag" /\ Here.type # "invalid"
      BY <1>2 DEF IsString, IsContainer, StringMajors, ContainerMajors
    <2>3. AdvanceInternal(Here) = PreparseNext(x)
      BY <2>2 DEF AdvanceInternal
    <2>4. KeepsPlace => Ends(frames, n, x)
      <3> SUFFICES ASSUME KeepsPlace PROVE Ends(frames, n, x)
        OBVIOUS
      <3>1. Begun(frames, n, Here) /\ HeadRead(Here)
        BY <1>2, <2>2, ItemHere
      <3>2. ~Here.unknown
        BY <1>1, <2>2, <3>1, FixedEnd
      <3>3. /\ x \in Cursors /\ Within(x) /\ SameCount(x, Here) /\ x.type = Here.type
            /\ Here.remaining # 0
        BY <1>1, <3>1, <3>2, HeadReadIs DEF SameCount, HeadRead
      <3>4. CountsOn(frames, n, x)
        BY <3>1, <3>3, CountsAlike DEF Begun
      <3>5. n = 1 => x.type = Kind
        BY <1>1, <2>2, <3>1, <3>3, KindHere
      <3>6. ASSUME NEW m \in Levels PROVE Climb(frames, n, m, x.ptr)
        <4>1. m - n \in Nat
          BY <1>1, ValidationAssumption DEF Levels
        <4>2. ItemEnd(Here.ptr, m - n) = x.ptr
          BY <1>1, <2>2, <3>1, <4>1, FixedEnd
        <4>3. Climb(frames, n, m, ItemEnd(Here.ptr, m - n))
          BY <3>1 DEF Begun
        <4> QED
          BY <4>2, <4>3
      <3> HIDE DEF x, n
      <3> QED
        BY <1>1, <2>2, <3>3, <3>4, <3>5, <3>6 DEF Ends, SameCount
    <2> HIDE DEF x, n
    <2> QED
      BY <1>2, <2>1, <2>3, <2>4, ValidatedCourse DEF n
  <1> QED
    BY <1>3, <1>4

LEMMA TagCourse ==
  ASSUME ValidationInv, CourseInv, ValidateTag, Unchanging PROVE CourseInv'
  <1> DEFINE n == Len(frames)
             r == AdvanceInternal(Here)
             verdict == TagVerdict(Int64(Here), r.it, left - 1)
             q == Here.ptr + HeadLength(Here.ptr)
  <1>1. buf \in Seq(Byte) /\ Here \in Cursors /\ n \in 1 .. MAX_RECURSIONS /\ n \in Nat \ {0}
        /\ Here = frames[n].it
    BY Site
  <1>2. phase = "item" /\ Here.type = "tag"
    BY DEF ValidateTag, AtItem
  <1>3. ~IsString(Here) /\ ~IsContainer(Here) /\ Here.type # "invalid"
    BY <1>2 DEF IsString, IsContainer, StringMajors, ContainerMajors
  <1>4. KeepsPlace => Begun(frames, n, Here) /\ HeadRead(Here)
    BY <1>2, <1>3, ItemHere
  <1>5. ASSUME KeepsPlace
        PROVE  /\ q \in 1 .. Limit /\ PastHead(Here).ptr = q
               /\ \A nest \in Nat : ItemEnd(Here.ptr, nest) = ItemEnd(q, nest)
    <2>1. HeadRead(Here)
      BY <1>4, <1>5
    <2>2. ~Here.unknown
      BY <1>1, <1>3, <2>1, FixedEnd
    <2>3. PastHead(Here).ptr = q
      BY <1>1, <2>1, <2>2, HeadReadIs
    <2>4. \A nest \in Nat : ItemEnd(Here.ptr, nest) = ItemEnd(PastHead(Here).ptr, nest)
      BY <1>1, <1>2, <1>3, <2>1, FixedEnd
    <2>5. q \in 1 .. Limit
      BY <1>1, <1>2, <2>1, TagPassed
    <2> QED
      BY <2>3, <2>4, <2>5
  <1>6. ASSUME KeepsPlace, NEW m \in Levels
        PROVE  m - n \in Nat /\ Climb(frames, n, m, ItemEnd(q, m - n))
    <2>1. m - n \in Nat
      BY <1>1, ValidationAssumption DEF Levels
    <2>2. Climb(frames, n, m, ItemEnd(Here.ptr, m - n))
      BY <1>4, <1>6 DEF Begun
    <2> QED
      BY <1>5, <1>6, <2>1, <2>2
  <1>7. CASE r.err # "ok"
    <2>1. Fail(r.err)
      BY <1>7 DEF ValidateTag
    <2>2. r.err \in ParseErrors
      BY NextErrors DEF AdvanceInternal
    <2>3. KeepsPlace => ~Whole
      <3> SUFFICES ASSUME KeepsPlace PROVE ~Whole
        OBVIOUS
      <3>1. ~WholeAt(q)
        BY <1>1, <1>2, <1>4, <1>7, TagPassed
      <3>2. \A m \in Levels : Climb(frames, n, m, Malformed)
        BY <1>1, <1>5, <1>6, <3>1, NoHeadNoItem
      <3> QED
        BY <1>1, <3>2, BrokenItem DEF CourseInv
    <2> QED
      BY <1>1, <1>7, <2>1, <2>2, <2>3, Fails
  <1>8. CASE r.err = "ok" /\ verdict # "ok"
    <2>1. Fail(verdict)
      BY <1>8 DEF ValidateTag
    <2>2. PICK err : err = verdict
      OBVIOUS
    <2>3. err \in RuleErrors
      BY <1>8, <2>2, TagVerdictIs DEF Verdicts
    <2> QED
      BY <1>1, <2>1, <2>2, <2>3, Fails
  <1>9. CASE r.err = "ok" /\ verdict = "ok"
    <2>1. frames' = Moved(r.it) /\ phase' = "item"
      BY <1>2, <1>9 DEF ValidateTag
    <2>2. r.it \in Stood /\ r.it \in Placed
      BY <1>2, <1>9, TagAdvances DEF Stood
    <2>3. PICK t : t = frames'
      OBVIOUS
    <2>4. KeepsPlace => Course(t, "item")
      <3> SUFFICES ASSUME KeepsPlace PROVE Course(t, "item")
        OBVIOUS
      <3>1. /\ TagsEnd[Here.ptr] = TagsEnd[q]
            /\ HeadRead(r.it) /\ r.it.ptr = q /\ r.it.remaining = Here.remaining
            /\ r.it.map = Here.map /\ r.it.key = Here.key
        BY <1>1, <1>2, <1>4, <1>9, TagPassed
      <3>2. Begun(frames, n, Here) /\ SameCount(r.it, Here) /\ Here.remaining # 0
        BY <1>4, <3>1 DEF SameCount, HeadRead
      <3> HIDE DEF r, n, q
      <3>3. CountsOn(frames, n, r.it) /\ Read(r.it)
        BY <2>2, <3>1, <3>2, CountsAlike DEF Begun, Read
      <3>4. Begun(frames, n, r.it)
        BY <1>6, <3>1, <3>2, <3>3 DEF Begun
      <3>5. /\ Len(t) = n /\ SameBelow(t, frames, n - 1)
            /\ SameFrame(t[n], frames[n]) /\ t[n].it = r.it
        BY <2>1, <2>2, <2>3, MovedOn DEF n
      <3>6. \A k \in 1 .. n - 1 : Opened(frames, k)
        BY <1>2, ItemHere DEF n
      <3> QED
        BY <1>1, <3>2, <3>4, <3>5, <3>6, Reframed
    <2> QED
      BY <1>1, <2>1, <2>3, <2>4, GoesOn
  <1> QED
    BY <1>7, <1>8, <1>9

LEMMA StringCourse ==
  ASSUME ValidationInv, CourseInv, ValidateString, Unchanging PROVE CourseInv'
  <1> DEFINE n == Len(frames)
             c == BeginStringIteration(Here)
  <1>1. buf \in Seq(Byte) /\ Here \in Cursors /\ n \in 1 .. MAX_RECURSIONS /\ n \in Nat \ {0}
        /\ Here = frames[n].it
    BY Site
  <1>2. phase = "item" /\ IsString(Here) /\ frames' = Moved(c) /\ phase' = "chunks"
    BY DEF ValidateString, AtItem
  <1>3. Here.type # "tag" /\ Here.type # "invalid"
    BY <1>2 DEF IsString, StringMajors
  <1>4. PICK t : t = frames'
    OBVIOUS
  <1>5. KeepsPlace => Course(t, "chunks")
    <2> SUFFICES ASSUME KeepsPlace PROVE Course(t, "chunks")
      OBVIOUS
    <2>1. Begun(frames, n, Here) /\ HeadRead(Here) /\ \A k \in 1 .. n - 1 : Opened(frames, k)
      BY <1>2, <1>3, ItemHere
    <2>2. /\ Iterated(c) /\ SameSight(c, Here)
          /\ \A nest \in Nat : ThisEnd(c, TRUE, nest) = ItemEnd(Here.ptr, nest)
      BY <1>1, <1>2, <2>1, BeginEnds
    <2>3. SameCount(c, Here) /\ c.type = Here.type /\ c \in Placed
      BY <2>2 DEF SameSight, SameCount, Iterated, Placed
    <2> HIDE DEF c
    <2>4. n = 1 => c.type = Kind
      BY <1>1, <1>3, <2>1, <2>3, KindHere
    <2>5. ASSUME NEW m \in Levels PROVE Climb(frames, n, m, ThisEnd(c, TRUE, m - n))
      <3>1. m - n \in Nat
        BY <1>1, ValidationAssumption DEF Levels
      <3> QED
        BY <2>1, <2>2, <3>1 DEF Begun
    <2>6. CountsOn(frames, n, c)
      BY <2>1, <2>3, CountsAlike DEF Begun
    <2>7. Chunked(frames, n, c)
      BY <2>2, <2>4, <2>5, <2>6 DEF Chunked
    <2>8. /\ Len(t) = n /\ SameBelow(t, frames, n - 1)
          /\ SameFrame(t[n], frames[n]) /\ t[n].it = c
      BY <1>2, <1>4, <2>3, MovedOn
    <2> HIDE DEF n
    <2> QED
      BY <1>1, <2>1, <2>3, <2>7, <2>8, Reframed
  <1> QED
    BY <1>1, <1>2, <1>4, <1>5, GoesOn

LEMMA ChunkCourse ==
  ASSUME ValidationInv, CourseInv, ValidateChunk, Unchanging PROVE CourseInv'
  <1> DEFINE n == Len(frames)
             chunk == GetChunk(Here)
  <1>1. buf \in Seq(Byte) /\ Here \in Cursors /\ n \in 1 .. MAX_RECURSIONS /\ n \in Nat \ {0}
        /\ Here = frames[n].it /\ Top = frames[n] /\ Top.onKey \in BOOLEAN
    BY Site
  <1>2. phase = "chunks"
    BY DEF ValidateChunk
  <1>3. KeepsPlace => Chunked(frames, n, Here) /\ \A k \in 1 .. n - 1 : Opened(frames, k)
    BY <1>1, <1>2 DEF CourseInv, Course
  <1>4. KeepsPlace => Iterated(Here)
    BY <1>3 DEF Chunked
  <1>5. ASSUME KeepsPlace, NEW m \in Levels
        PROVE  m - n \in Nat /\ Climb(frames, n, m, ThisEnd(Here, TRUE, m - n))
    <2>1. m - n \in Nat
      BY <1>1, ValidationAssumption DEF Levels
    <2> QED
      BY <1>3, <1>5, <2>1 DEF Chunked
  <1>6. CASE chunk.err = "no_more_chunks"
    <2> DEFINE r == FinishStringIteration(Here)
    <2>1. Validated(r)
      BY <1>6 DEF ValidateChunk
    <2>2. KeepsPlace => \E x : Ends(frames, n, x) /\ r = PreparseNext(x)
      <3> SUFFICES ASSUME KeepsPlace PROVE \E x : Ends(frames, n, x) /\ r = PreparseNext(x)
        OBVIOUS
      <3>1. ChunksOver(Here)
        BY <1>1, <1>4, <1>6, ChunkEnds
      <3>2. PICK x \in Cursors :
              /\ r = PreparseNext(x) /\ SameSight(x, Here) /\ x.ptr \in 1 .. Limit
              /\ \A nest \in Nat : ThisEnd(Here, TRUE, nest) = x.ptr
        BY <1>1, <1>4, <3>1, FinishIs
      <3>3. SameCount(x, Here) /\ x.type = Here.type /\ x.remaining # 0 /\ x.type # "tag"
        BY <1>4, <3>2 DEF SameSight, SameCount, Iterated, IsString, StringMajors
      <3>4. CountsOn(frames, n, x) /\ (n = 1 => x.type = Kind)
        BY <1>3, <3>3, CountsAlike DEF Chunked
      <3>5. \A m \in Levels : Climb(frames, n, m, x.ptr)
        BY <1>5, <3>2
      <3> HIDE DEF n, r
      <3> QED
        BY <1>1, <3>2, <3>3, <3>4, <3>5 DEF Ends, Within
    <2> HIDE DEF r, n
    <2> QED
      BY <1>2, <2>1, <2>2, ValidatedCourse DEF n
  <1>7. CASE chunk.err = "ok" /\ ChunkVerdict(Here, chunk.it) # "ok"
    <2>1. Fail(ChunkVerdict(Here, chunk.it))
      BY <1>7 DEF ValidateChunk
    <2>2. PICK err : err = ChunkVerdict(Here, chunk.it)
      OBVIOUS
    <2>3. KeepsPlace => err \in RuleErrors \cup LateErrors
      BY <1>1, <1>4, <1>7, <2>2, ChunkVerdictIs DEF Verdicts
    <2> QED
      BY <1>1, <2>1, <2>2, <2>3, Fails
  <1>8. CASE chunk.err = "ok" /\ ChunkVerdict(Here, chunk.it) = "ok"
    <2>1. frames' = Moved(chunk.it) /\ phase' = "chunks"
      BY <1>2, <1>8 DEF ValidateChunk
    <2>2. PICK t : t = frames'
      OBVIOUS
    <2>3. KeepsPlace => Course(t, "chunks")
      <3> SUFFICES ASSUME KeepsPlace PROVE Course(t, "chunks")
        OBVIOUS
      <3>1. /\ Iterated(chunk.it) /\ SameSight(chunk.it, Here)
            /\ \A nest \in Nat : ThisEnd(chunk.it, TRUE, nest) = ThisEnd(Here, TRUE, nest)
        BY <1>1, <1>4, <1>8, ChunkEnds
      <3> HIDE DEF chunk
      <3>2. SameCount(chunk.it, Here) /\ chunk.it.type = Here.type /\ chunk.it \in Placed
        BY <3>1 DEF SameSight, SameCount, Iterated, Placed
      <3>3. CountsOn(frames, n, chunk.it) /\ (n = 1 => chunk.it.type = Kind)
        BY <1>3, <3>2, CountsAlike DEF Chunked
      <3>4. Chunked(frames, n, chunk.it)
        BY <1>5, <3>1, <3>3 DEF Chunked
      <3>5. /\ Len(t) = n /\ SameBelow(t, frames, n - 1)
            /\ SameFrame(t[n], frames[n]) /\ t[n].it = chunk.it
        BY <2>1, <2>2, <3>2, MovedOn
      <3> HIDE DEF n
      <3> QED
        BY <1>1, <1>3, <3>2, <3>4, <3>5, Reframed
    <2> QED
      BY <1>1, <2>1, <2>2, <2>3, GoesOn
  <1>9. CASE chunk.err \notin {"ok", "no_more_chunks"}
    <2>1. Fail(chunk.err)
      BY <1>9 DEF ValidateChunk
    <2>2. chunk.err \in ParseErrors
      BY ChunkErrors
    <2>3. KeepsPlace => ~Whole
      <3> SUFFICES ASSUME KeepsPlace PROVE ~Whole
        OBVIOUS
      <3>1. \A nest \in Nat : ThisEnd(Here, TRUE, nest) = Malformed
        BY <1>1, <1>4, <1>9, ChunkEnds
      <3>2. \A m \in Levels : Climb(frames, n, m, Malformed)
        BY <1>5, <3>1
      <3> QED
        BY <1>1, <3>2, BrokenItem DEF CourseInv
    <2> QED
      BY <1>1, <1>9, <2>1, <2>2, <2>3, Fails
  <1> QED
    BY <1>6, <1>7, <1>8, <1>9

LEMMA ContainerCourse ==
  ASSUME ValidationInv, CourseInv, ValidateContainer, Unchanging PROVE CourseInv'
  <1> DEFINE n == Len(frames)
             r == EnterContainer(Here)
             g == Frame(r.it, Here.type, left - 1)
  <1>1. buf \in Seq(Byte) /\ Here \in Cursors /\ n \in 1 .. MAX_RECURSIONS /\ n \in Nat \ {0}
        /\ Here = frames[n].it /\ FramesInv /\ Top.left <= MAX_RECURSIONS - n + 1
    BY Site
  <1>2. phase = "item" /\ IsContainer(Here)
    BY DEF ValidateContainer, AtItem
  <1>3. Here.type # "tag" /\ Here.type # "invalid" /\ Here.type \in ContainerMajors
    BY <1>2 DEF IsContainer, ContainerMajors
  <1>4. KeepsPlace => /\ Begun(frames, n, Here) /\ HeadRead(Here)
                      /\ \A k \in 1 .. n - 1 : Opened(frames, k)
    BY <1>2, <1>3, ItemHere
  <1>5. ASSUME KeepsPlace, NEW m \in Levels, m > n
        PROVE  /\ m - (n + 1) \in Nat
               /\ \E e : Climb(frames, n, m, e) /\ Owes(r, e, m - (n + 1))
    <2> HIDE DEF n, r
    <2>1. m - (n + 1) \in Nat /\ m - n = (m - (n + 1)) + 1
      BY <1>1, <1>5, ValidationAssumption DEF Levels
    <2>2. Climb(frames, n, m, ItemEnd(Here.ptr, m - n))
      BY <1>4, <1>5 DEF Begun
    <2>3. Owes(r, ItemEnd(Here.ptr, m - n), m - (n + 1))
      BY <1>1, <1>2, <1>4, <1>5, <2>1, EnterOwes DEF r
    <2> QED
      BY <2>1, <2>2, <2>3
  <1>6. CASE r.err # "ok"
    <2>1. Fail(r.err)
      BY <1>6 DEF ValidateContainer
    <2>2. r.err \in ParseErrors
      BY EnterErrors
    <2>3. KeepsPlace => ~Whole
      <3> SUFFICES ASSUME KeepsPlace PROVE ~Whole
        OBVIOUS
      <3>1. ASSUME NEW m \in Levels, m > MAX_RECURSIONS PROVE Climb(frames, n, m, Malformed)
        <4>1. m > n
          BY <1>1, <3>1, ValidationAssumption DEF Levels
        <4> QED
          BY <1>5, <1>6, <4>1 DEF Owes
      <3> QED
        BY <1>1, <3>1, BrokenItem DEF CourseInv
    <2> QED
      BY <1>1, <1>6, <2>1, <2>2, <2>3, Fails
  <1>7. CASE r.err = "ok" /\ TooDeep(left - 1)
    <2>1. Fail("nesting_too_deep")
      BY <1>7 DEF ValidateContainer
    <2>2. "nesting_too_deep" \in RuleErrors
      BY DEF RuleErrors
    <2> QED
      BY <1>1, <2>1, <2>2, Fails
  <1>8. CASE r.err = "ok" /\ ~TooDeep(left - 1)
    <2>1. frames' = AllAt(Append(frames, g), r.it.ptr) /\ phase' = "loop"
      BY <1>8 DEF ValidateContainer
    <2>2. PICK t : t = frames'
      OBVIOUS
    <2>3. left \in 1 .. MAX_RECURSIONS /\ left <= Top.left
      BY <1>2 DEF ValidationInv, FramesInv, PhaseInv
    <2>4. left - 1 \in 1 .. MAX_RECURSIONS /\ n < MAX_RECURSIONS
      <3>1. left # 1
        BY <1>8 DEF TooDeep
      <3>2. Top.left \in 1 .. MAX_RECURSIONS
        BY <1>1, TopIs
      <3> HIDE DEF n
      <3> QED
        BY <1>1, <2>3, <3>1, <3>2, ValidationAssumption
    <2>5. KeepsPlace => Course(t, "loop")
      <3> SUFFICES ASSUME KeepsPlace PROVE Course(t, "loop")
        OBVIOUS
      <3>1. Begun(frames, n, Here) /\ HeadRead(Here)
        BY <1>4
      <3>2. Standing(r.it) /\ r.it \in Cursors /\ r.it \in Placed
        BY <1>1, <1>2, <1>8, <3>1, EnterProperties DEF HeadRead, Placed
      <3>3. Read(r.it)
        BY <1>1, <1>2, <1>8, <3>1, <3>2, EnterRead, StandingRead
      <3>4. /\ g \in Frames /\ g.it = r.it /\ g.container = Here.type
            /\ g.onKey = (Here.type = "map")
        BY <1>3, <2>4, <3>2 DEF Frame, Frames, Containers, ContainerMajors
      <3>5. Here.type = "map" /\ r.it.remaining # 0 => Balanced(r.it) /\ ~r.it.key
        BY <1>1, <1>8, <3>1, EnterBalanced
      <3> HIDE DEF g, r
      <3>6. Len(t) = n + 1 /\ t[n + 1] = g /\ SameBelow(t, frames, n)
        BY <1>1, <2>1, <2>2, <3>4, Pushing
      <3> HIDE DEF n
      <3>7. ASSUME NEW k \in 1 .. n PROVE Opened(frames, k)
        <4>1. CASE k = n
          <5>1. n = 1 => Here.type = Kind
            BY <1>1, <1>3, <3>1, KindHere
          <5> QED
            BY <1>1, <1>3, <3>1, <4>1, <5>1 DEF Opened, Begun
        <4>2. CASE k # n
          <5>1. k \in 1 .. n - 1
            BY <1>1, <4>2
          <5> QED
            BY <1>4, <5>1
        <4> QED
          BY <4>1, <4>2
      <3>8. /\ \A k \in 1 .. n : Opened(t, k)
            /\ \A m, x : Climb(frames, n, m, x) => Climb(t, n, m, x)
        BY <1>1, <3>6, <3>7, Carried
      <3>9. ASSUME NEW m \in Levels
            PROVE  Climb(t, n, m, ContainerEnd(r.it, FALSE, m - (n + 1)))
        <4>1. m > n
          BY <1>1, <2>4, ValidationAssumption DEF Levels
        <4>2. Climb(frames, n, m, ContainerEnd(r.it, FALSE, m - (n + 1)))
          BY <1>5, <1>8, <4>1 DEF Owes
        <4> QED
          BY <3>8, <4>2
      <3> DEFINE l == n + 1
      <3>10. l - 1 = n /\ l # 1 /\ l > 1
        BY <1>1
      <3>11. /\ \A k \in 1 .. l - 1 : Opened(t, k)
             /\ \A m \in Levels : Climb(t, l - 1, m, ContainerEnd(r.it, FALSE, m - l))
        BY <3>8, <3>9, <3>10
      <3>12. Len(t) = l /\ t[l] = g
        BY <3>6
      <3> HIDE DEF l
      <3>13. Over(t, l, r.it)
        BY <3>3, <3>10, <3>11 DEF Over
      <3>14. ASSUME r.it.remaining # 0, g.container = "map"
             PROVE  Balanced(r.it) /\ r.it.key = ~g.onKey
        <4>1. r.it.key \in BOOLEAN /\ ~r.it.key /\ Balanced(r.it) /\ g.onKey = TRUE
          BY <3>2, <3>4, <3>5, <3>14 DEF Cursors
        <4> QED
          BY <4>1
      <3>15. Due(t, l, r.it)
        BY <3>10, <3>12, <3>14 DEF Due, CountsOn
      <3> QED
        BY <3>4, <3>11, <3>12, <3>13, <3>15 DEF Course
    <2> QED
      BY <1>1, <2>1, <2>2, <2>5, GoesOn
  <1> QED
    BY <1>6, <1>7, <1>8

(* What is over in a container, or not begun, is followed by an item. *)
LEMMA Continues ==
  ASSUME NEW s, NEW t, NEW n \in Nat, n > 1, NEW c, Over(s, n, c), c.remaining # 0,
         SameBelow(t, s, n - 1), t[n].it = c, CountsOn(t, n, c)
  PROVE  Begun(t, n, c)
  <1>0. n # 1 /\ n - 1 \in Nat
    OBVIOUS
  <1>1. Read(c) /\ \A m \in Levels : Climb(s, n - 1, m, ContainerEnd(c, FALSE, m - n))
    BY <1>0, Zenon DEF Over
  <1>2. ASSUME NEW m \in Levels PROVE Climb(t, n, m, ItemEnd(c.ptr, m - n))
    <2>1. ContainerEnd(c, FALSE, m - n) = AfterThis(ItemEnd(c.ptr, m - n), t[n].it, m - n)
      BY DEF ContainerEnd, ThisEnd
    <2>2. \A x : Climb(s, n - 1, m, x) => Climb(t, n - 1, m, x)
      BY <1>0, Carried
    <2>3. Climb(t, n - 1, m, ContainerEnd(c, FALSE, m - n))
      BY <1>1, <2>2, Zenon
    <2> QED
      BY <2>1, <2>3, ClimbUp
  <1> QED
    BY <1>1, <1>2 DEF Begun

LEMMA UntaggedErrors ==
  ASSUME buf \in Seq(Byte), NEW c, Untagged(c).err # "ok"
  PROVE  Untagged(c).err \in ParseErrors
  <1> DEFINE m == Len(buf)
  <1>1. PICK f : Skips(f, m, c) /\ Untagged(c) = f[m]
    BY UntaggedIs
  <1>2. m \in Nat
    BY BufferType
  <1> HIDE DEF m
  <1>3. \A r : r.err \in ParseErrors => SkipTag(r).err \in ParseErrors
    BY NextErrors DEF SkipTag, AdvanceInternal
  <1>4. Result("ok", c).err \in ParseErrors
    BY DEF Result, ParseErrors
  <1> DEFINE T == {k \in 0 .. m : f[k].err \notin ParseErrors}
  <1>5. SUFFICES ASSUME f[m].err \notin ParseErrors PROVE FALSE
    BY <1>1
  <1>6. T \in SUBSET Nat /\ T # {}
    BY <1>2, <1>5
  <1>7. PICK k \in T : \A j \in T : ~(j < k)
    BY <1>6, Least
  <1>8. k \in 0 .. m /\ f[k] = SkipTag(IF k = 0 THEN Result("ok", c) ELSE f[k - 1])
    BY <1>1 DEF Skips
  <1>9. CASE k = 0
    BY <1>3, <1>4, <1>7, <1>8, <1>9
  <1>10. CASE k # 0
    <2>1. k - 1 \in 0 .. m /\ k - 1 < k
      BY <1>2, <1>8, <1>10
    <2>2. f[k - 1].err \in ParseErrors
      BY <1>7, <2>1
    <2> QED
      BY <1>3, <1>7, <1>8, <1>10, <2>2
  <1> QED
    BY <1>9, <1>10

(* The tags of a key belong to it: one that is followed by nothing leaves  *)
(* no key.                                                                 *)
LEMMA UntaggedEnds ==
  ASSUME buf \in Seq(Byte), NEW c \in Cursors, HeadRead(c), NEW nest \in Nat
  PROVE  LET r == Untagged(c)
         IN  IF r.err = "ok" THEN ItemEnd(r.it.ptr, nest) = ItemEnd(c.ptr, nest)
             ELSE ItemEnd(c.ptr, nest) = Malformed
  <1> DEFINE m == Len(buf)
             e == ItemEnd(c.ptr, nest)
             Sound(r) == IF r.err = "ok"
                         THEN r.it \in Cursors /\ HeadRead(r.it) /\ ItemEnd(r.it.ptr, nest) = e
                         ELSE e = Malformed
  <1>1. PICK f : Skips(f, m, c) /\ Untagged(c) = f[m]
    BY UntaggedIs
  <1>2. m \in Nat
    BY BufferType
  <1>3. ASSUME NEW r, Sound(r) PROVE Sound(SkipTag(r))
    <2>1. CASE ~(r.err = "ok" /\ r.it.type = "tag")
      BY <1>3, <2>1 DEF SkipTag
    <2>2. CASE r.err = "ok" /\ r.it.type = "tag"
      <3> DEFINE d == r.it
                 q == d.ptr + HeadLength(d.ptr)
                 p == AdvanceInternal(d)
      <3>1. d \in Cursors /\ HeadRead(d) /\ ItemEnd(d.ptr, nest) = e /\ d.type = "tag"
        BY <1>3, <2>2
      <3>2. ~IsString(d) /\ ~IsContainer(d)
        BY <3>1 DEF IsString, IsContainer, StringMajors, ContainerMajors
      <3>3. ~d.unknown /\ e = ItemEnd(PastHead(d).ptr, nest)
        BY <3>1, <3>2, FixedEnd
      <3>4. PastHead(d).ptr = q
        BY <3>1, <3>3, HeadReadIs
      <3>5. /\ q \in 1 .. Limit
            /\ p.err = "ok" => p.it \in Cursors /\ HeadRead(p.it) /\ p.it.ptr = q
            /\ p.err # "ok" => ~WholeAt(q)
        BY <3>1, TagPassed
      <3>6. p.err # "ok" => ItemEnd(q, nest) = Malformed
        BY <3>5, NoHeadNoItem
      <3>7. SkipTag(r) = p
        BY <2>2 DEF SkipTag
      <3> HIDE DEF e, p, q, d
      <3> QED
        BY <3>3, <3>4, <3>5, <3>6, <3>7
    <2> QED
      BY <2>1, <2>2
  <1>4. Sound(Result("ok", c))
    BY DEF Result
  <1> HIDE DEF Sound, m
  <1> DEFINE T == {k \in 0 .. m : ~Sound(f[k])}
  <1>5. Sound(f[m])
    <2> SUFFICES ASSUME ~Sound(f[m]) PROVE FALSE
      OBVIOUS
    <2>1. T \in SUBSET Nat /\ T # {}
      BY <1>2
    <2>2. PICK k \in T : \A j \in T : ~(j < k)
      BY <2>1, Least
    <2>3. k \in 0 .. m /\ f[k] = SkipTag(IF k = 0 THEN Result("ok", c) ELSE f[k - 1])
      BY <1>1 DEF Skips
    <2>4. CASE k = 0
      BY <1>3, <1>4, <2>2, <2>3, <2>4
    <2>5. CASE k # 0
      <3>1. k - 1 \in 0 .. m /\ k - 1 < k
        BY <1>2, <2>3, <2>5
      <3>2. Sound(f[k - 1])
        BY <2>2, <3>1
      <3> QED
        BY <1>3, <2>2, <2>3, <2>5, <3>2
    <2> QED
      BY <2>4, <2>5
  <1> QED
    BY <1>1, <1>5 DEF Sound

LEMMA NextItemCourse ==
  ASSUME ValidationInv, CourseInv, NextItem, Unchanging PROVE CourseInv'
  <1> DEFINE n == Len(frames)
             checked == Top.container = "map" /\ HasBit("keys_string")
             r == IF checked THEN Untagged(Here) ELSE Result("ok", Here)
             g == [Top EXCEPT !.current = Source(Here)]
             p == r.it.ptr
  <1>1. buf \in Seq(Byte) /\ Here \in Cursors /\ n \in 1 .. MAX_RECURSIONS /\ n \in Nat \ {0}
        /\ Here = frames[n].it /\ FramesInv /\ Top = frames[n] /\ Top \in Frames
        /\ Within(Here) /\ frames \in Seq(Frames)
    BY Site
  <1>2. phase = "loop" /\ Here.type # "invalid" /\ n > 1 /\ n # 1 /\ Here \in Stood
    <2>1. phase = "loop" /\ Here.type # "invalid" /\ n > 1 /\ Here \in Stood
      BY DEF NextItem, AtLoop, ValidationInv, PhaseInv
    <2> HIDE DEF n
    <2>2. n # 1
      BY <1>1, <2>1
    <2> QED
      BY <2>1, <2>2
  <1>3. Here.remaining # 0
    BY <1>2 DEF Stood, Standing
  <1>4. KeepsPlace => /\ Over(frames, n, Here) /\ Due(frames, n, Here)
                      /\ \A k \in 1 .. n - 1 : Opened(frames, k)
    BY <1>1, <1>2 DEF CourseInv, Course
  <1>5. CASE checked /\ KeyVerdict(r) # "ok"
    <2>1. Fail(KeyVerdict(r))
      BY <1>5 DEF NextItem
    <2>2. PICK err : err = KeyVerdict(r)
      OBVIOUS
    <2>3. r = Untagged(Here)
      BY <1>5
    <2> HIDE DEF r
    <2>4. CASE r.err = "ok"
      <3>1. err = "map_key_not_string"
        BY <1>5, <2>2, <2>4 DEF KeyVerdict
      <3>2. err \in RuleErrors
        BY <3>1 DEF RuleErrors
      <3> QED
        BY <1>1, <2>1, <2>2, <3>2, Fails
    <2>5. CASE r.err # "ok"
      <3>1. err = r.err /\ err \in ParseErrors
        BY <1>1, <2>2, <2>3, <2>5, UntaggedErrors DEF KeyVerdict
      <3>2. KeepsPlace => ~Whole
        <4> SUFFICES ASSUME KeepsPlace PROVE ~Whole
          OBVIOUS
        <4>1. HeadRead(Here)
          BY <1>3, <1>4 DEF Over, Read
        <4>2. ASSUME NEW m \in Levels PROVE Climb(frames, n - 1, m, Malformed)
          <5>1. m - n \in Nat
            BY <1>1, ValidationAssumption DEF Levels
          <5>2. ItemEnd(Here.ptr, m - n) = Malformed
            BY <1>1, <2>3, <2>5, <4>1, <5>1, UntaggedEnds
          <5>3. ContainerEnd(Here, FALSE, m - n) = Malformed
            BY <1>3, <5>2, AfterNothing DEF ContainerEnd, ThisEnd
          <5>4. Climb(frames, n - 1, m, ContainerEnd(Here, FALSE, m - n))
            BY <1>2, <1>4, Zenon DEF Over
          <5> QED
            BY <5>3, <5>4
        <4>3. n - 1 \in Nat \ {0}
          BY <1>1, <1>2
        <4> HIDE DEF n
        <4> QED
          BY <1>1, <4>2, <4>3, BrokenItem DEF CourseInv
      <3> QED
        BY <1>1, <2>1, <2>2, <2>5, <3>1, <3>2, Fails
    <2> QED
      BY <2>4, <2>5
  <1>6. CASE ~(checked /\ KeyVerdict(r) # "ok")
    <2>1. /\ frames' = AllAt([frames EXCEPT ![n].current = Source(Here)], p)
          /\ phase' = "item"
      BY <1>6 DEF NextItem
    <2>2. PICK t : t = frames'
      OBVIOUS
    <2>3. KeepsPlace => Course(t, "item")
      <3> SUFFICES ASSUME KeepsPlace PROVE Course(t, "item")
        OBVIOUS
      <3>1. reader => ~checked
        BY DEF KeepsPlace
      <3>2. reader => p = Here.ptr
        BY <3>1 DEF Result
      <3>3. Source(Here) \in Nat
        BY <1>1, BufferType DEF Source, Within
      <3>4. /\ g \in Frames /\ g.it = Here /\ g.container = Top.container
            /\ g.onKey = Top.onKey
        BY <1>1, <3>3 DEF Frames
      <3>5. /\ Len(t) = n /\ t[n] = g /\ SameBelow(t, frames, n - 1)
        <4>1. CASE reader
          <5>1. n \in DOMAIN frames
            BY <1>1, LenProperties
          <5>2. frames' = AllAt([frames EXCEPT ![n] = g], Here.ptr) /\ Here.ptr \in 1 .. Limit
            BY <1>1, <2>1, <3>2, <4>1, <5>1 DEF Within
          <5> HIDE DEF g
          <5>3. TopBecomes(IF reader THEN At(g, Here.ptr) ELSE g)
            BY <1>1, <3>4, <5>2, Replacing
          <5>4. At(g, Here.ptr) = g
            BY <1>1, <3>4, <5>2, AtIs
          <5> QED
            BY <2>2, <4>1, <5>3, <5>4 DEF TopBecomes
        <4>2. CASE ~reader
          <5>1. n \in DOMAIN frames
            BY <1>1, LenProperties
          <5>2. frames' = [frames EXCEPT ![n] = g]
            BY <1>1, <2>1, <4>2, <5>1 DEF AllAt
          <5> HIDE DEF g
          <5>3. TopBecomes(g)
            BY <1>1, <3>4, <5>2, Editing
          <5> QED
            BY <2>2, <5>3 DEF TopBecomes
        <4> QED
          BY <4>1, <4>2
      <3> HIDE DEF g, p, r, checked, n
      <3>6. CountsOn(t, n, Here)
        <4>1. CountsOn(frames, n, Here)
          BY <1>3, <1>4 DEF Due
        <4> QED
          BY <1>1, <3>4, <3>5, <4>1, CountsAlike DEF SameCount
      <3>7. Begun(t, n, Here)
        BY <1>1, <1>2, <1>3, <1>4, <3>4, <3>5, <3>6, Continues
      <3>8. \A k \in 1 .. n - 1 : Opened(t, k)
        BY <1>1, <1>4, <3>5, Carried
      <3> QED
        BY <3>4, <3>5, <3>7, <3>8 DEF Course
    <2>4. buf \in Seq(Byte) /\ phase' = "item"
      BY <1>1, <2>1
    <2> QED
      BY <2>2, <2>3, <2>4, GoesOn
  <1> QED
    BY <1>5, <1>6

(* The container is left where it ends, and its own item is over. *)
LEMMA LeaveCourse ==
  ASSUME ValidationInv, CourseInv, LeaveFrame, Unchanging PROVE CourseInv'
  <1> DEFINE n == Len(frames)
             s == Front(frames)
             outer == frames[n - 1]
             x == [outer.it EXCEPT !.ptr = ResumeAt(Here)]
             r == LeaveContainer(outer.it, Here)
             c == r.it
             g == [outer EXCEPT !.it = c]
             t == Topped(s, g, c.ptr)
  <1>1. /\ phase = "loop" /\ Here.type = "invalid" /\ FramesInv /\ buf \in Seq(Byte)
        /\ frames \in Seq(Frames) /\ frames # << >> /\ Here \in Stood /\ n > 1
    BY DEF LeaveFrame, ValidationInv, FramesInv, PhaseInv
  <1>2. n \in 1 .. MAX_RECURSIONS /\ n \in Nat /\ Here = frames[n].it /\ Here \in Cursors
        /\ value \in Stood
    BY Site DEF CourseInv
  <1>3. /\ s \in Seq(Frames) /\ Len(s) = n - 1 /\ \A i \in 1 .. n - 1 : s[i] = frames[i]
    BY <1>1, AllButLast DEF Front
  <1>4. n - 1 \in 1 .. n - 1 /\ n - 1 \in Nat \ {0} /\ n - 1 \in 1 .. MAX_RECURSIONS /\ n # 1
        /\ n - 1 \in 1 .. n /\ s # << >>
    <2>1. s # << >> <=> Len(s) # 0
      BY <1>3, EmptySeq
    <2> HIDE DEF n, s
    <2>2. MAX_RECURSIONS \in Nat
      BY ValidationAssumption
    <2>3. n - 1 \in 1 .. n - 1 /\ n - 1 \in Nat \ {0} /\ n # 1 /\ n - 1 \in 1 .. n
      BY <1>1, <1>2
    <2>4. n - 1 \in 1 .. MAX_RECURSIONS
      BY <1>2, <2>2, <2>3
    <2>5. s # << >>
      BY <1>3, <2>1, <2>3
    <2> QED
      BY <2>3, <2>4, <2>5
  <1>5. Last(s) = outer /\ s[n - 1] = outer /\ outer \in Frames
    BY <1>1, <1>3, <1>4, ElementOfSeq DEF Last
  <1>6. outer.it \in Cursors /\ outer.it.remaining # 0 /\ outer.onKey \in BOOLEAN
    BY <1>1, <1>4, <1>5, FrameFields DEF FramesInv, Placed
  <1>7. Standing(Here) /\ Here.remaining = 0
    <2>1. Standing(Here)
      BY <1>1 DEF Stood
    <2>2. CASE Here.remaining # 0
      BY <1>1, <1>2, <2>1, <2>2, HeadProperties DEF Standing
    <2> QED
      BY <2>1, <2>2
  <1>8. /\ x \in Cursors /\ Within(x) /\ x.ptr = ResumeAt(Here) /\ SameItem(x, outer.it)
        /\ x.remaining # 0
    <2>1. ResumeAt(Here) \in 1 .. Limit
      BY <1>1, <1>7, ResumeProperties
    <2>2. ResumeAt(Here) \in Nat
      BY <1>1, <2>1, BufferType
    <2>3. ASSUME NEW q \in Nat
          PROVE  LET d == [outer.it EXCEPT !.ptr = q]
                 IN  d \in Cursors /\ d.ptr = q /\ SameItem(d, outer.it)
      BY <1>6 DEF Cursors, SameItem, SameCount
    <2>4. x \in Cursors /\ x.ptr = ResumeAt(Here) /\ SameItem(x, outer.it)
      BY <2>2, <2>3
    <2> HIDE DEF x
    <2> QED
      BY <1>6, <2>1, <2>4 DEF Within, SameItem, SameCount
  <1>9. r = PreparseNext(x)
    BY DEF LeaveContainer
  <1> HIDE DEF x, r
  <1>10. KeepsPlace => Over(frames, n, Here) /\ \A k \in 1 .. n - 1 : Opened(frames, k)
    BY <1>1, <1>2 DEF CourseInv, Course
  <1>11. KeepsPlace => Ends(frames, n - 1, x)
    <2> SUFFICES ASSUME KeepsPlace PROVE Ends(frames, n - 1, x)
      OBVIOUS
    <2>1. Opened(frames, n - 1)
      BY <1>4, <1>10
    <2> DEFINE k == n - 1
    <2>2. /\ frames[k] = outer /\ outer.it.type \in ContainerMajors
          /\ CountsOn(frames, k, outer.it) /\ (k = 1 => outer.it.type = Kind)
      BY <2>1 DEF Opened
    <2>3. SameCount(x, outer.it) /\ x.type = outer.it.type
      BY <1>8 DEF SameItem
    <2>4. ASSUME NEW m \in Levels PROVE Climb(frames, k, m, x.ptr)
      <3>1. \A l \in Levels : Climb(frames, n - 1, l, ContainerEnd(Here, FALSE, l - n))
        BY <1>4, <1>10, Zenon DEF Over
      <3>2. ContainerEnd(Here, FALSE, m - n) = ResumeAt(Here)
        BY <1>7 DEF ContainerEnd
      <3> QED
        BY <1>8, <3>1, <3>2
    <2>5. x.type # "tag"
      BY <2>2, <2>3 DEF ContainerMajors
    <2> HIDE DEF k, outer
    <2>6. CountsOn(frames, k, x)
      BY <2>2, <2>3, CountsAlike
    <2>7. Ends(frames, k, x)
      BY <1>6, <1>8, <2>2, <2>3, <2>4, <2>5, <2>6 DEF Ends
    <2> QED
      BY <2>7 DEF k
  <1>12. KeepsPlace => IF r.err = "ok"
                       THEN Over(frames, n - 1, c) /\ Turned(frames, n - 1, c) ELSE ~Whole
    BY <1>1, <1>2, <1>4, <1>9, <1>11, ItemOver
  <1>13. r.err \in ParseErrors
    BY <1>9, NextErrors
  <1>14. CASE r.err # "ok"
    <2>1. Fail(r.err)
      BY <1>5, <1>14 DEF LeaveFrame, r
    <2> QED
      BY <1>1, <1>12, <1>13, <1>14, <2>1, Fails
  <1>15. CASE r.err = "ok"
    <2>1. frames' = AllAt([s EXCEPT ![Len(s)].it = c], c.ptr) /\ phase' = "after"
      BY <1>5, <1>15 DEF LeaveFrame, r
    <2>2. frames' = t
      BY <1>3, <1>5, <2>1 DEF Topped
    <2>3. PICK u : u = frames'
      OBVIOUS
    <2>4. KeepsPlace => Course(u, "after")
      <3> SUFFICES ASSUME KeepsPlace PROVE Course(u, "after")
        OBVIOUS
      <3>1. Over(frames, n - 1, c) /\ Turned(frames, n - 1, c)
        BY <1>12, <1>15
      <3> HIDE DEF c
      <3>2. c \in Placed
        BY <3>1 DEF Over, Read, Stood
      <3>3. /\ Len(t) = n - 1 /\ t[n - 1] = g /\ SameBelow(t, frames, n - 2)
            /\ g.it = c /\ SameFrame(g, outer)
        BY <1>1, <3>2, Popping
      <3> HIDE DEF t, g
      <3> DEFINE k == n - 1
      <3>4. k \in Nat \ {0} /\ k - 1 = n - 2 /\ \A j \in 1 .. k - 1 : j \in 1 .. n - 1
        <4> HIDE DEF n
        <4> QED
          BY <1>2, <1>4
      <3>5. \A j \in 1 .. k - 1 : Opened(frames, j)
        BY <1>10, <3>4
      <3>6. /\ Len(u) = k /\ SameFrame(u[k], frames[k]) /\ u[k].it = c
            /\ Over(frames, k, c) /\ Turned(frames, k, c)
        BY <2>2, <2>3, <3>1, <3>3
      <3>7. SameBelow(u, frames, k - 1)
        BY <2>2, <2>3, <3>3, <3>4
      <3> HIDE DEF k
      <3> QED
        BY <3>4, <3>5, <3>6, <3>7, Reframed
    <2>5. phase' = "after"
      BY <2>1
    <2> QED
      BY <1>1, <2>3, <2>4, <2>5, GoesOn
  <1> QED
    BY <1>14, <1>15

LEMMA AfterKeyCourse ==
  ASSUME ValidationInv, CourseInv, AfterKey, Unchanging PROVE CourseInv'
  <1> DEFINE n == Len(frames)
             verdict == OrderVerdict(Top.previous, Key)
             previous == IF SomeBit(MAP_IS_SORTED) THEN Key ELSE Top.previous
             f == [Top EXCEPT !.previous = previous, !.onKey = FALSE]
  <1>1. buf \in Seq(Byte) /\ Here \in Cursors /\ n \in Nat \ {0} /\ FramesInv
        /\ Here = frames[n].it /\ Top = frames[n] /\ Top \in Frames /\ Within(Here)
        /\ frames \in Seq(Frames) /\ (Top.container = "none" <=> n = 1)
    BY Site
  <1>2. phase = "after" /\ Top.container = "map" /\ Top.onKey
    BY DEF AfterKey
  <1>3. n > 1
    <2> HIDE DEF n
    <2> QED
      BY <1>1, <1>2
  <1>4. CASE verdict # "ok"
    <2>1. Fail(verdict)
      BY <1>4 DEF AfterKey
    <2>2. PICK err : err = verdict
      OBVIOUS
    <2>3. err \in RuleErrors
      BY <1>4, <2>2, OrderVerdictIs DEF Verdicts
    <2> QED
      BY <1>1, <2>1, <2>2, <2>3, Fails
  <1>5. CASE verdict = "ok"
    <2>1. /\ frames' = [frames EXCEPT ![n].previous = previous, ![n].onKey = FALSE]
          /\ phase' = "item"
      BY <1>1, <1>5 DEF AfterKey
    <2>2. n \in DOMAIN frames
      BY <1>1, LenProperties
    <2>3. previous = << >> \/ previous \in Nat \X Nat
      <3>1. Source(Here) \in Nat
        BY <1>1, BufferType DEF Source, Within
      <3>2. Top.current \in Nat /\ (Top.previous = << >> \/ Top.previous \in Nat \X Nat)
        BY <1>1, FrameFields
      <3> QED
        BY <3>1, <3>2 DEF Key
    <2> HIDE DEF previous
    <2>4. frames' = [frames EXCEPT ![n] = f]
      BY <1>1, <2>1, <2>2
    <2>5. f \in Frames /\ f.it = Here /\ f.container = "map" /\ f.onKey = FALSE
      BY <1>1, <1>2, <2>3 DEF Frames
    <2> HIDE DEF f
    <2>6. PICK t : t = frames'
      OBVIOUS
    <2>7. Len(t) = n /\ t[n] = f /\ SameBelow(t, frames, n - 1)
      BY <1>1, <2>4, <2>5, <2>6, Editing DEF TopBecomes
    <2>8. KeepsPlace => Course(t, "item")
      <3> SUFFICES ASSUME KeepsPlace PROVE Course(t, "item")
        OBVIOUS
      <3>1. /\ Over(frames, n, Here) /\ Turned(frames, n, Here)
            /\ \A k \in 1 .. n - 1 : Opened(frames, k)
        BY <1>1, <1>2 DEF CourseInv, Course
      <3> HIDE DEF n
      <3>2. Here.remaining # 0 /\ Balanced(Here) /\ Here.key = Top.onKey
        BY <1>1, <1>2, <1>3, <3>1 DEF Turned
      <3>3. Here.key = ~f.onKey
        <4>1. Here.key = TRUE
          BY <1>1, <1>2, <3>2 DEF Cursors
        <4> QED
          BY <2>5, <4>1
      <3>4. CountsOn(t, n, Here)
        BY <1>1, <1>3, <2>5, <2>7, <3>2, <3>3 DEF CountsOn
      <3>5. Begun(t, n, Here)
        BY <1>1, <1>3, <2>5, <2>7, <3>1, <3>2, <3>4, Continues
      <3>6. \A k \in 1 .. n - 1 : Opened(t, k)
        BY <1>1, <2>7, <3>1, Carried
      <3> QED
        BY <2>5, <2>7, <3>5, <3>6 DEF Course
    <2>9. phase' = "item"
      BY <2>1
    <2> QED
      BY <1>1, <2>6, <2>8, <2>9, GoesOn
  <1> QED
    BY <1>4, <1>5

LEMMA AfterValueCourse ==
  ASSUME ValidationInv, CourseInv, AfterValue, Unchanging PROVE CourseInv'
  <1> DEFINE n == Len(frames)
             onKey == Top.container = "map"
             f == [Top EXCEPT !.onKey = onKey]
  <1>1. buf \in Seq(Byte) /\ Here \in Cursors /\ n \in Nat \ {0} /\ FramesInv
        /\ Here = frames[n].it /\ Top = frames[n] /\ Top \in Frames /\ Top.onKey \in BOOLEAN
        /\ frames \in Seq(Frames) /\ (Top.container = "none" <=> n = 1)
    BY Site
  <1>2. phase = "after" /\ Top.container # "none" /\ (Top.container = "map" => ~Top.onKey)
        /\ frames' = [frames EXCEPT ![n].onKey = onKey] /\ phase' = "loop"
    BY DEF AfterValue
  <1>3. n > 1 /\ n # 1
    <2> HIDE DEF n
    <2> QED
      BY <1>1, <1>2
  <1>4. n \in DOMAIN frames
    BY <1>1, LenProperties
  <1>5. frames' = [frames EXCEPT ![n] = f]
    BY <1>1, <1>2, <1>4
  <1>6. f \in Frames /\ f.it = Here /\ f.container = Top.container /\ f.onKey = onKey
    BY <1>1 DEF Frames
  <1> HIDE DEF f
  <1>7. PICK t : t = frames'
    OBVIOUS
  <1>8. Len(t) = n /\ t[n] = f /\ SameBelow(t, frames, n - 1)
    BY <1>1, <1>5, <1>6, <1>7, Editing DEF TopBecomes
  <1>9. KeepsPlace => Course(t, "loop")
    <2> SUFFICES ASSUME KeepsPlace PROVE Course(t, "loop")
      OBVIOUS
    <2>1. /\ Over(frames, n, Here) /\ Turned(frames, n, Here)
          /\ \A k \in 1 .. n - 1 : Opened(frames, k)
      BY <1>1, <1>2 DEF CourseInv, Course
    <2> HIDE DEF n
    <2>2. /\ \A k \in 1 .. n - 1 : Opened(t, k)
          /\ \A m, x : Climb(frames, n - 1, m, x) => Climb(t, n - 1, m, x)
      <3>1. n - 1 \in Nat
        BY <1>1
      <3> QED
        BY <1>8, <2>1, <3>1, Carried
    <2>3. Over(t, n, Here)
      <3>1. Read(Here)
        BY <2>1 DEF Over
      <3>2. \A m \in Levels : Climb(frames, n - 1, m, ContainerEnd(Here, FALSE, m - n))
        BY <1>3, <2>1, Zenon DEF Over
      <3>3. \A m \in Levels : Climb(t, n - 1, m, ContainerEnd(Here, FALSE, m - n))
        BY <2>2, <3>2
      <3> QED
        BY <1>3, <3>1, <3>3 DEF Over
    <2>4. ASSUME Here.remaining # 0, Top.container = "map"
          PROVE  Balanced(Here) /\ Here.key = ~f.onKey
      <3>1. Balanced(Here) /\ Here.key = Top.onKey
        BY <1>1, <1>3, <2>1, <2>4 DEF Turned
      <3>2. Here.key = FALSE /\ f.onKey = TRUE
        BY <1>1, <1>2, <1>6, <2>4, <3>1
      <3> QED
        BY <3>1, <3>2
    <2>5. Due(t, n, Here)
      BY <1>3, <1>6, <1>8, <2>4 DEF Due, CountsOn
    <2> QED
      BY <1>6, <1>8, <2>2, <2>3, <2>5 DEF Course
  <1>10. phase' = "loop"
    BY <1>2
  <1> QED
    BY <1>1, <1>7, <1>9, <1>10, GoesOn

LEMMA AnswerCourse ==
  ASSUME ValidationInv, CourseInv, Answer, Unchanging PROVE CourseInv'
  <1> DEFINE n == Len(frames)
  <1>1. buf \in Seq(Byte) /\ Here \in Cursors /\ Within(Here)
        /\ Here = frames[n].it /\ (Top.container = "none" <=> n = 1)
    BY Site
  <1>2. phase = "after" /\ Top.container = "none" /\ phase' = "done"
        /\ answer' = IF HasBit("complete") /\ CanRead(Here, 1) THEN "garbage_at_end" ELSE "ok"
    BY DEF Answer
  <1>3. buf' = buf /\ value' = value /\ reader' = reader /\ flags' = flags
    BY DEF Unchanging
  <1>4. (value \in Stood)'
    BY <1>3, PlacesStay DEF CourseInv
  <1>5. KeepsPlace => EndsThere(Here)
    <2>1. KeepsPlace => Over(frames, n, Here)
      BY <1>1, <1>2 DEF CourseInv, Course
    <2>2. n = 1
      BY <1>1, <1>2
    <2> HIDE DEF n
    <2> QED
      BY <2>1, <2>2 DEF Over
  <1>6. BlamesTruly'
    <2> SUFFICES ASSUME KeepsPlace' PROVE BlamesTruly'
      BY DEF BlamesTruly
    <2>1. KeepsPlace
      BY <1>3 DEF KeepsPlace, HasBit
    <2>2. EndsThere(Here)
      BY <1>5, <2>1
    <2>3. CanRead(Here, 1) <=> Here.ptr # Limit
      BY <1>1, CanReadIs, BufferType DEF Within
    <2>4. answer' \in {"ok", "garbage_at_end"}
      BY <1>2
    <2>5. "complete" \in flags => (answer' = "ok" <=> End.it.ptr = Limit)
      BY <1>2, <2>2, <2>3 DEF EndsThere, HasBit
    <2>6. /\ Whole' <=> Whole
          /\ ItemEnd(value.ptr, MAX_RECURSIONS - 1)' = ItemEnd(value.ptr, MAX_RECURSIONS - 1)
          /\ End' = End
      BY <1>1, <1>3, GoalStays
    <2>7. Limit' = Limit
      BY <1>3 DEF Limit
    <2> QED
      BY <1>3, <2>2, <2>4, <2>5, <2>6, <2>7 DEF BlamesTruly, EndsThere
  <1> QED
    BY <1>2, <1>4, <1>6 DEF CourseInv

LEMMA InitCourse == Init => CourseInv
  <1> SUFFICES ASSUME Init PROVE CourseInv
    OBVIOUS
  <1>1. /\ buf \in Seq(Byte) /\ value \in ClientCursors /\ phase = "item"
        /\ frames = << Frame(value, "none", MAX_RECURSIONS) >>
    BY CursorAssumption DEF Init
  <1>2. value \in Stood /\ value \in Cursors /\ Standing(value)
    BY <1>1, ClientStands DEF Stood, Placed
  <1>3. value.type # "invalid" => HeadRead(value)
    <2>1. ParserInit.err = "ok"
      BY <1>1 DEF ClientCursors
    <2>2. Start \in Cursors /\ Within(Start) /\ Start.remaining # 0
      BY <1>1, StartType, BufferType DEF Within
    <2>3. HeadRead(ParserInit.it) /\ ParserInit.it \in Cursors
      BY <1>1, <2>1, <2>2, ValueRead, ParserInitProperties DEF ParserInit
    <2>4. CASE value = ParserInit.it
      BY <2>3, <2>4
    <2>5. CASE value # ParserInit.it
      <3>1. IsContainer(ParserInit.it) /\ EnterContainer(ParserInit.it).err = "ok"
            /\ value = EnterContainer(ParserInit.it).it
        BY <1>1, <2>1, <2>5 DEF ClientCursors
      <3> QED
        BY <1>1, <2>3, <3>1, EnterRead
    <2> QED
      BY <2>4, <2>5
  <1>4. Read(value)
    BY <1>1, <1>2, <1>3, StandingRead
  <1>5. Len(frames) = 1 /\ frames[1].it = value
    BY <1>1 DEF Frame
  <1>6. Begun(frames, 1, value)
    <2>1. \A m \in Levels : Climb(frames, 1, m, ItemEnd(value.ptr, m - 1))
      BY ClimbFirst
    <2>2. CountsOn(frames, 1, value)
      BY DEF CountsOn, SameCount
    <2> QED
      BY <1>4, <2>1, <2>2 DEF Begun
  <1>7. Course(frames, "item")
    BY <1>5, <1>6 DEF Course
  <1>8. BlamesTruly
    BY <1>1 DEF BlamesTruly
  <1> QED
    BY <1>1, <1>2, <1>7, <1>8 DEF CourseInv

LEMMA CourseStutter ==
  ASSUME ValidationInv, CourseInv, UNCHANGED vars PROVE CourseInv'
  <1>1. /\ buf' = buf /\ reader' = reader /\ flags' = flags /\ value' = value
        /\ frames' = frames /\ phase' = phase /\ answer' = answer
    BY DEF vars
  <1>2. buf \in Seq(Byte)
    BY Site
  <1>3. CASE phase # "done"
    <2>1. Unchanging
      BY <1>1 DEF Unchanging
    <2>2. PICK t : t = frames'
      OBVIOUS
    <2>3. PICK p : p = phase'
      OBVIOUS
    <2>4. KeepsPlace => Course(t, p)
      BY <1>1, <1>3, <2>2, <2>3 DEF CourseInv
    <2> QED
      BY <1>1, <1>2, <1>3, <2>1, <2>2, <2>3, <2>4, GoesOn
  <1>4. CASE phase = "done"
    <2>1. (value \in Stood)'
      BY <1>1, PlacesStay DEF CourseInv
    <2>2. /\ Whole' <=> Whole
          /\ ItemEnd(value.ptr, MAX_RECURSIONS - 1)' = ItemEnd(value.ptr, MAX_RECURSIONS - 1)
          /\ End' = End
      BY <1>1, <1>2, GoalStays
    <2>3. Limit' = Limit /\ (KeepsPlace' <=> KeepsPlace) /\ LateErrors' = LateErrors
      BY <1>1 DEF Limit, KeepsPlace, HasBit, LateErrors, SomeBit, SHORTEST_INTEGRALS
    <2>4. BlamesTruly
      BY DEF CourseInv
    <2>5. BlamesTruly'
      BY <1>1, <2>2, <2>3, <2>4 DEF BlamesTruly
    <2> QED
      BY <1>1, <1>4, <2>1, <2>5 DEF CourseInv
  <1> QED
    BY <1>3, <1>4

LEMMA CourseNext == ValidationInv /\ CourseInv /\ [Next]_vars => CourseInv'
  <1> SUFFICES ASSUME ValidationInv, CourseInv, [Next]_vars PROVE CourseInv'
    OBVIOUS
  <1>1. CASE UNCHANGED vars
    BY <1>1, CourseStutter
  <1>2. CASE Next
    <2>1. Unchanging
      BY <1>2 DEF Next, Unchanging
    <2>2. CASE RefuseHead \/ ValidateInvalid
      BY <2>1, <2>2, RefuseCourse
    <2>3. CASE ValidateFixed
      BY <2>1, <2>3, FixedCourse
    <2>4. CASE ValidateTag
      BY <2>1, <2>4, TagCourse
    <2>5. CASE ValidateContainer
      BY <2>1, <2>5, ContainerCourse
    <2>6. CASE ValidateString
      BY <2>1, <2>6, StringCourse
    <2>7. CASE ValidateChunk
      BY <2>1, <2>7, ChunkCourse
    <2>8. CASE NextItem
      BY <2>1, <2>8, NextItemCourse
    <2>9. CASE LeaveFrame
      BY <2>1, <2>9, LeaveCourse
    <2>10. CASE AfterKey
      BY <2>1, <2>10, AfterKeyCourse
    <2>11. CASE AfterValue
      BY <2>1, <2>11, AfterValueCourse
    <2>12. CASE Answer
      BY <2>1, <2>12, AnswerCourse
    <2> QED
      BY <1>2, <2>2, <2>3, <2>4, <2>5, <2>6, <2>7, <2>8, <2>9, <2>10, <2>11, <2>12 DEF Next
  <1> QED
    BY <1>1, <1>2

LEMMA CourseInvariant == Spec => [](ValidationInv /\ CourseInv)
  <1>1. Init => ValidationInv /\ CourseInv
    BY ValidationInitInv, InitCourse
  <1>2. (ValidationInv /\ CourseInv) /\ [Next]_vars => (ValidationInv /\ CourseInv)'
    BY ValidationNextInv, CourseNext
  <1> QED
    BY <1>1, <1>2, PTL DEF Spec

(* For every document, every client's cursor, every flag word and any      *)
(* limit of the recursion, over a buffer or, unless keys must be texts,    *)
(* over callbacks: when validate_value has been over the client's item,    *)
(* the copy of the cursor is where an advance would have left the client's *)
(* own.                                                                    *)
LEMMA ValidationEndsWhereAdvanceWould == Spec => []EndsWhereAdvanceWould
  <1>1. ValidationInv /\ CourseInv => EndsWhereAdvanceWould
    <2> SUFFICES ASSUME ValidationInv, CourseInv, KeepsPlace, phase = "after",
                        Top.container = "none"
                 PROVE  Here.ptr = End.it.ptr /\ Here.remaining = End.it.remaining
      BY DEF EndsWhereAdvanceWould
    <2> DEFINE n == Len(frames)
    <2>1. Here = frames[n].it /\ n = 1
      BY Site
    <2>2. Over(frames, n, Here)
      BY <2>1 DEF CourseInv, Course
    <2> HIDE DEF n
    <2> QED
      BY <2>1, <2>2 DEF Over, EndsThere
  <1> QED
    BY <1>1, CourseInvariant, PTL

(* In all these cases the answer of cbor_value_validate is true of the     *)
(* bytes: it says that they are in order, or that more follow, only of an  *)
(* item that the grammar ends and an advance could step over, and if it    *)
(* blames anything but a rule they are malformed; but over callbacks, with *)
(* shortest integrals asked for, it may blame an end of the input that     *)
(* comes right after a chunk (LateErrors).                                 *)
LEMMA ValidationBlamesTruly == Spec => []BlamesTruly
  <1>1. CourseInv => BlamesTruly
    BY DEF CourseInv
  <1> QED
    BY <1>1, CourseInvariant, PTL

(* The contract of cbor_value_validate: whatever the document, the cursor  *)
(* of the client, the flag word and the limit of the recursion (over       *)
(* callbacks unless keys must be texts), it ends where an advance would,   *)
(* and tells a broken encoding from a broken rule, with the exception of   *)
(* LateErrors.                                                             *)
THEOREM ValidationAgreesWithGrammar == Spec => []AgreesWithGrammar
  BY ValidationEndsWhereAdvanceWould, ValidationBlamesTruly, PTL DEF AgreesWithGrammar
=============================================================================
