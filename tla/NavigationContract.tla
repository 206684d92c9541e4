------------------------- MODULE NavigationContract -------------------------
(***************************************************************************)
(* What the navigation calls promise, stated with the grammar: Navigation  *)
(* against the reference definition of where an item ends.                 *)
(***************************************************************************)
EXTENDS Navigation, Grammar

(* No call has failed: the end of a string's chunks is no failure.         *)
Unfailed == err = "ok" \/ InString

(* A cursor and the one around it agree on where the container ends: the   *)
(* count of remaining items, the phase of the map and the position fit     *)
(* together at every step of the client, whatever mix of calls led there,  *)
(* and of the walk, with the levels each frame has left to it as well as   *)
(* with more than it needs.                                                *)
ClientOnCourse ==
  \A k \in 1 .. Len(cursors) :
    ContainerEnd(cursors[k], k = Len(cursors) /\ phase = "string", Unlimited) =
      ItemEnd(IF k = 1 THEN 1 ELSE cursors[k - 1].ptr, Unlimited)
WalkOnCourse ==
  \A k \in 1 .. Len(walk) : \A nest \in {MAX_RECURSIONS + 1 - k, Unlimited} :
    ContainerEnd(walk[k], k = Len(walk) /\ phase = "chunks", nest) =
      IF k = 1 THEN ContainerEnd(Innermost, FALSE, nest)
      ELSE ItemEnd(walk[k - 1].ptr, nest + 1)
OnCourse == Unfailed => ClientOnCourse /\ WalkOnCourse

(* No call fails on a well-formed document that is not nested too deep.    *)
NoSpuriousError ==
  ItemEnd(1, MAX_RECURSIONS) # Malformed =>
    err \in {"ok", "no_more_chunks", "advance_past_eof"}

(* A client that gets to the end of the document without an error has read *)
(* a well-formed one: no mix of calls gets past a misplaced break, a       *)
(* dangling tag or a truncated item.                                       *)
EndOnlyIfWellFormed ==
  Idle /\ Len(cursors) = 1 /\ Innermost.remaining = 0 =>
    Innermost.ptr = ItemEnd(1, Unlimited)

-----------------------------------------------------------------------------
(* What advance owes: the cursor on the next item, the end of its          *)
(* container, or an error if the item is malformed or nested too deep.     *)
Visible(c) ==
  << c.ptr, c.remaining, c.extra, c.wide, c.type, c.unknown, c.map, c.key >>
Owed(c) ==
  IF c.type = "tag" THEN PreparseNoDecrement(PastHead(c))
  ELSE IF ItemEnd(c.ptr, MAX_RECURSIONS) = Malformed THEN Result("malformed", c)
  ELSE PreparseNext([c EXCEPT !.ptr = ItemEnd(@, MAX_RECURSIONS)])

(* The scan and the walk come to the same result, the one the grammar      *)
(* gives: skipping a subtree is not observable from how it was skipped.    *)
AdvanceReturned == phase \in {"scan", "walk", "chunks"} /\ phase' = "client"
AdvanceAgrees ==
  [][AdvanceReturned =>
       LET owed == Owed(Innermost)
       IN  IF owed.err = "malformed" THEN err' # "ok"
           ELSE /\ err' = owed.err
                /\ Visible(Innermost') = Visible(owed.it)]_vars
=============================================================================
