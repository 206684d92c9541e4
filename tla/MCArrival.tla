----------------------------- MODULE MCArrival -----------------------------
(* Small instances of Arrival for TLC. *)
EXTENDS Arrival

(* Bytes split 8 x 6: four descriptors that are values, one byte of        *)
(* argument, the mark of unknown length.                                   *)
Alphabet ==
  {1, 4,         \* integers, in one byte and in two
   13, 16, 17,   \* byte strings: of one byte, with a length byte, chunked
   25, 27, 29,   \* arrays of one, of three items, of unknown length
   31, 35,       \* maps of one pair, of unknown length
   37, 42, 47}   \* a tag, a simple value, the break

SeqUpTo(S, n) == UNION {[1 .. k -> S] : k \in 0 .. n}

(* Longer ones: containers in containers, and their heads' arguments late. *)
Nested ==
  {a \o b \o c : a \in {<< 26 >>, << 29 >>, << 32 >>, << 35 >>, << 37, 26 >>},
                 b \in {<< 4, 5 >>, << 17, 13, 9, 16, 1, 9, 47 >>, << 29, 35, 1, 4, 7, 47, 47 >>,
                        << 31, 1, 37, 13, 9 >>, << 40, 7, 46, 7 >>, << 46, 2 >>, << 17, 17 >>},
                 c \in {<< >>, << 47 >>, << 1, 47 >>, << 29, 47, 47 >>, << 1, 13, 9, 25, 16, 1, 9 >>}}

MCDocuments == SeqUpTo(Alphabet, 4) \cup Nested
=============================================================================
