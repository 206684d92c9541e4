------------------------------ MODULE Binding ------------------------------
(* Step of a value worked out before: TLC takes x for a value, where LET   *)
(* would work it out anew at each use below ENABLED.                       *)
With(value, Step(_)) == CHOOSE result \in {Step(x) : x \in {value}} : TRUE
=============================================================================
