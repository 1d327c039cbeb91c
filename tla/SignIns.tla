------------------------------ MODULE SignIns ------------------------------
(***************************************************************************)
(* What the OAuth proxy promises of a sign-in, whatever tokens, caches and *)
(* requests it keeps: it is opened once, renewed while it is open, and     *)
(* closed for good.  OAuth.tla implements it.                              *)
(***************************************************************************)
EXTENDS Naturals

CONSTANTS SignIn, MaxTokens     \* bound: refresh tokens handed out per sign-in

VARIABLES
    status,     \* of each sign-in: "none", "open" or "closed"
    issued      \* the refresh tokens it has been given so far

vars == <<status, issued>>

TypeOK ==
    /\ status \in [SignIn -> {"none", "open", "closed"}]
    /\ issued \in [SignIn -> 0 .. MaxTokens]

Init ==
    /\ status = [s \in SignIn |-> "none"]
    /\ issued = [s \in SignIn |-> 0]

\* The first token; a sign-in that Azure gives no refresh token is not opened.
Open(s, to) ==
    /\ status[s] = "none" /\ issued[s] = 0
    /\ status' = [status EXCEPT ![s] = to]
    /\ issued' = [issued EXCEPT ![s] = 1]

\* One more token, and what became of the last: only while it is open.
Renew(s) ==
    /\ status[s] = "open" /\ issued[s] < MaxTokens
    /\ issued' = [issued EXCEPT ![s] = @ + 1]
    /\ UNCHANGED status

\* Some sign-ins end at once (a restart may end several).
Close ==
    /\ \E ended \in SUBSET {s \in SignIn : status[s] = "open"} :
           status' = [s \in SignIn |-> IF s \in ended THEN "closed" ELSE status[s]]
    /\ UNCHANGED issued

Next ==
    \/ \E s \in SignIn : Open(s, "open") \/ Open(s, "closed") \/ Renew(s)
    \/ Close

Spec == Init /\ [][Next]_vars
=============================================================================
