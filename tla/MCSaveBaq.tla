----------------------------- MODULE MCSaveBaq -----------------------------
(* Model-checking instances of SaveBaq.                                    *)
EXTENDS SaveBaq, TLC

Symmetry == Permutations(Savers)
=============================================================================
