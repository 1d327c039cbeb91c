------------------------------ MODULE MCOAuth ------------------------------
(* Model-checking instances of OAuth.                                      *)
EXTENDS OAuth
=============================================================================
