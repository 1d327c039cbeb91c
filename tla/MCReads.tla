------------------------------ MODULE MCReads ------------------------------
(* Model-checking instances of Reads.                                      *)
EXTENDS Reads
=============================================================================
