------------------------------ MODULE MCStrings ------------------------------
(* Small instances of Strings for TLC. *)
EXTENDS StringsContract, SequencesExt

SeqUpTo(S, n) == UNION {[1 .. k -> S] : k \in 0 .. n}

(* Bytes split 8 x 7: text(0), text(1) and text(2) with their content, the *)
(* heads of bytes(1) and of a text of unknown length, a break, an integer. *)
AfterHead == {<< 21 >>, << 22, 1 >>, << 22, 2 >>, << 23, 1, 2 >>, << 15 >>, << 27 >>,
              << 55 >>, << 1 >>}
Tails(n) == {FlattenSeq(s) : s \in SeqUpTo(AfterHead, n)}

(* A chunked text and a chunked byte string; definite texts of 0 to 2      *)
(* bytes and of a length in the next byte; a tag before a definite and a   *)
(* chunked text; an array of two and of unknown length starting with one.  *)
MCHeads == {<< 20 >>, << 21 >>, << 22 >>, << 23 >>, << 24 >>, << 43 >>, << 30 >>, << 34 >>}
MCDocuments ==
  {<< 27 >> \o t : t \in Tails(3)} \cup {h \o t : h \in MCHeads, t \in Tails(2)}
    \cup {<< 43, 27 >> \o t : t \in Tails(2)}

MCExpected == SeqUpTo({1, 2}, 2)
=============================================================================
