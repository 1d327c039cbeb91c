---------------------------- MODULE MCDiagnosis ----------------------------
(* Model-checking instance of Diagnosis.                                   *)
EXTENDS Diagnosis

MCKinds ==
    [test : {"number", "null", "other"}, of : {"own"}, big : {FALSE}, hinted : {FALSE}]
        \cup [test : {"eq"}, of : {"own"}, big : {FALSE}, hinted : {TRUE}]
        \cup [test : {"in"}, of : {"own"}, big : {TRUE}, hinted : {FALSE}]
        \cup [test : {"eq", "in"}, of : {"authority"}, big : {FALSE}, hinted : {FALSE}]
=============================================================================
