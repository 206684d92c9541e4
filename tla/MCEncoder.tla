------------------------------ MODULE MCEncoder ------------------------------
(* Small instances of Encoder for TLC: constants the cfg files refer to. *)
EXTENDS Encoder

(* An address that is not NULL, with room for nothing, some or most of the *)
(* document; and the (NULL, 0) pair of the sizing idiom.                   *)
MCBuffers ==
  {[base |-> NULL, size |-> 0]} \cup {[base |-> 5, size |-> n] : n \in {0, 2, 5}}
=============================================================================
