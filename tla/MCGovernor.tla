----------------------------- MODULE MCGovernor -----------------------------
(* Model-checking instances of Governor.                                   *)
EXTENDS Governor, TLC

Symmetry == Permutations(Calls)
=============================================================================
