---------------------------- MODULE ScanContract ----------------------------
(***************************************************************************)
(* The contract scan_subtree states above itself, "it can only ever be     *)
(* right or absent", and its converse: FastScan against the grammar.       *)
(***************************************************************************)
EXTENDS FastScan, Grammar

(* "It can only ever be right or absent" (scan_subtree's contract): the    *)
(* position it returns is where the item ends, and on an item that is not  *)
(* complete and well-formed it returns none.                               *)
RightOrAbsent == scan = "some" => p = ItemEnd(1, Unlimited)

(* And absent only for a reason: well-formed items that are not tagged and *)
(* do not open more levels than the stack holds are always got past.       *)
PresentIfShallow ==
  scan = "none" =>
    \/ MajorOf(buf[1]) = "tag"
    \/ ItemEnd(1, FAST_SCAN_DEPTH) = Malformed
=============================================================================
