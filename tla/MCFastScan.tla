----------------------------- MODULE MCFastScan -----------------------------
(* Small instances of FastScan for TLC, and the scan against the grammar.  *)
EXTENDS ScanContract

SeqUpTo(S, n) == UNION {[1 .. k -> S] : k \in 0 .. n}

(* Bytes split 8 x 7: integer 1, array(1), array(2), array of unknown      *)
(* length, map(1), map of unknown length, tag, break.                      *)
MCNested == SeqUpTo({1, 29, 30, 34, 36, 41, 43, 55}, 5)

(* Integer 1, bytes(1), bytes of unknown length, bytes(0), array(0), array  *)
(* and map with a one-byte length, simple value in the next byte, break,   *)
(* text with a reserved descriptor.                                        *)
MCHeads == SeqUpTo({1, 15, 20, 14, 28, 31, 38, 52, 55, 26}, 4)

MCDocuments == MCNested \cup MCHeads
=============================================================================
