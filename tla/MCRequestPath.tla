--------------------------- MODULE MCRequestPath ---------------------------
(* Model-checking instances of RequestPath.                                *)
EXTENDS RequestPath
=============================================================================
