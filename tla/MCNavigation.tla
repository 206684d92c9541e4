---------------------------- MODULE MCNavigation ----------------------------
(* Small instances of Navigation for TLC. *)
EXTENDS NavigationContract

SeqUpTo(S, n) == UNION {[1 .. k -> S] : k \in 0 .. n}

(* Bytes split 8 x 7: integer 1, array(1), array of unknown length,        *)
(* map(1), map of unknown length, tag, break.                              *)
MCNested == SeqUpTo({1, 29, 34, 36, 41, 43, 55}, 4)

(* Integer 1, bytes(1), bytes of unknown length, bytes(0), array(2), array  *)
(* with a one-byte length, map with a one-byte length, two-byte integer,   *)
(* simple value in the next byte, break.                                   *)
MCHeads == SeqUpTo({1, 15, 20, 14, 30, 31, 38, 4, 52, 55}, 3)

(* Strings inside containers.                                              *)
MCStrings == {<< h >> \o s : h \in {30, 41, 43}, s \in SeqUpTo({1, 14, 15, 20, 22, 55}, 4)}

(* Longer documents that start a container of unknown length.              *)
MCStreamed == {<< h >> \o s : h \in {34, 41}, s \in SeqUpTo({1, 34, 36, 41, 43, 55}, 4)}

MCDocuments == MCNested \cup MCHeads \cup MCStrings \cup MCStreamed
=============================================================================
