---------------------------- MODULE MCTableScope ----------------------------
(* Model checking of TableScope. *)
EXTENDS TableScope, TLC

Symmetry == Permutations(Flights) \cup Permutations(Gates)
=============================================================================
