---------------------------- MODULE MCMenuAuthz ----------------------------
(* Model checking of MenuAuthz: the names of Tasks and coroutines are      *)
(* interchangeable.                                                        *)
EXTENDS MenuAuthz, TLC

Symmetry == Permutations(Flights) \cup Permutations(Admins) \cup Permutations(Callers)
=============================================================================
