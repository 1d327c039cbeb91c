------------------------------- MODULE OAuth -------------------------------
(***************************************************************************)
(* The OAuth proxy of server.py: /oauth/authorize, /oauth/callback and     *)
(* /oauth/token.  A client signs in through Azure, is given a refresh      *)
(* token of the proxy's own, and exchanges it for the next one; the proxy  *)
(* keeps Azure's refresh token under it in refresh_tokens.db.              *)
(*                                                                         *)
(* Memory (_pending_auth, _refresh_cache, the handlers under way) is lost  *)
(* in a restart; the database is not.  A handler runs alone between two    *)
(* awaits, and may stop between two commits.  Requests and answers may be  *)
(* lost, and a token sent twice.  Time is counted in ages.                 *)
(***************************************************************************)
EXTENDS Naturals, FiniteSets

CONSTANTS
    SignIn,         \* sign-ins: a client that must sign in again is another
    Request,        \* bound: refresh requests under way at a time
    MaxTokens,      \* bound: refresh tokens handed out per sign-in
    CacheTTL        \* _REFRESH_CACHE_TTL

ASSUME BoundsAssumption ==
    MaxTokens \in Nat \ {0} /\ CacheTTL \in Nat /\ IsFiniteSet(Request)

\* Tokens are fresh (uuid4): the n-th token given to a sign-in.
Token == SignIn \X (1 .. MaxTokens)
None == "none"
NoToken == <<None, 0>>
Invalid == <<"invalid_grant", 0>>

VARIABLES
    login,      \* how far each sign-in has come
    held,       \* external: the refresh token its client holds
    granted,    \* external: Azure honours the sign-in's refresh tokens
    issued,     \* tokens given to each sign-in so far
    db,         \* refresh_tokens.db: the tokens under which an Azure token is kept
    cache,      \* _refresh_cache: the answer given for a token, and its age
    req,        \* refresh requests under way
    cause       \* a ghost: what has happened to a sign-in that can end it

vars == <<login, held, granted, issued, db, cache, req, cause>>

\* "authorize": a state is pending; "exchange": the callback awaits Azure;
\* "code": a code waits to be redeemed; "in": the client holds a token;
\* "out": it was told to sign in again.
Login == {"new", "authorize", "exchange", "code", "in", "out"}
Cause == {"refused", "restart", "late", "unkept"}
Idle == [pc |-> "idle", token |-> NoToken, answer |-> NoToken]
Req == [pc : {"idle", "exchange", "accepted", "refused", "answer"},
        token : Token \cup {NoToken}, answer : Token \cup {NoToken, Invalid}]
NotCached == [answer |-> NoToken, age |-> 0]

Owner(t) == t[1]
Fresh(t) == cache[t] # NotCached /\ cache[t].age <= CacheTTL
Blame(S, why) == [s \in SignIn |-> IF s \in S THEN cause[s] \cup {why} ELSE cause[s]]

TypeOK ==
    /\ login \in [SignIn -> Login]
    /\ held \in [SignIn -> Token \cup {NoToken}]
    /\ granted \in [SignIn -> BOOLEAN]
    /\ issued \in [SignIn -> 0 .. MaxTokens]
    /\ db \subseteq Token
    /\ cache \in [Token -> [answer : Token \cup {NoToken}, age : 0 .. CacheTTL + 1]]
    /\ req \in [Request -> Req]
    /\ cause \in [SignIn -> SUBSET Cause]

Init ==
    /\ login = [s \in SignIn |-> "new"]
    /\ held = [s \in SignIn |-> NoToken]
    /\ granted = [s \in SignIn |-> TRUE]
    /\ issued = [s \in SignIn |-> 0]
    /\ db = {}
    /\ cache = [t \in Token |-> NotCached]
    /\ req = [r \in Request |-> Idle]
    /\ cause = [s \in SignIn |-> {}]

-----------------------------------------------------------------------------
(* Signing in.                                                             *)

\* oauth_authorize: a state is remembered and the browser sent to Azure.
Authorize(s) ==
    /\ login[s] = "new"
    /\ login' = [login EXCEPT ![s] = "authorize"]
    /\ UNCHANGED <<held, granted, issued, db, cache, req, cause>>

\* oauth_callback: the state is taken, once; Azure is asked for tokens.  An
\* error of Azure's in the redirect leaves the state where it is.
Callback(s) ==
    /\ login[s] = "authorize"
    /\ login' = [login EXCEPT ![s] = "exchange"]
    /\ UNCHANGED <<held, granted, issued, db, cache, req, cause>>

\* Azure refuses the code, or the call raises: the state is gone.
CallbackFails(s) ==
    /\ login[s] = "exchange"
    /\ login' = [login EXCEPT ![s] = "out"]
    /\ UNCHANGED <<held, granted, issued, db, cache, req, cause>>

\* Azure answers, with a refresh token or without one (kept): a token of the
\* proxy's own is made either way, and kept for the client under a code.
CallbackDone(s, kept) ==
    /\ login[s] = "exchange" /\ granted[s]
    /\ issued' = [issued EXCEPT ![s] = 1]
    /\ db' = IF kept THEN db \cup {<<s, 1>>} ELSE db
    /\ cause' = IF kept THEN cause ELSE Blame({s}, "unkept")
    /\ login' = [login EXCEPT ![s] = "code"]
    /\ UNCHANGED <<held, granted, cache, req>>

\* oauth_token, authorization_code: the code is taken, once; the answer may
\* not arrive, and the code sent again is refused.
Redeem(s, arrives) ==
    /\ login[s] = "code"
    /\ login' = [login EXCEPT ![s] = IF arrives THEN "in" ELSE "out"]
    /\ held' = [held EXCEPT ![s] = IF arrives THEN <<s, 1>> ELSE NoToken]
    /\ cause' = IF arrives THEN cause ELSE Blame({s}, "late")
    /\ UNCHANGED <<granted, issued, db, cache, req>>

-----------------------------------------------------------------------------
(* Refreshing.                                                             *)

\* Requests under way that may still make a token for a sign-in.
Under(s) == {r \in Request : /\ req[r].pc \in {"exchange", "accepted"}
                             /\ Owner(req[r].token) = s}
Coming(s) == Cardinality(Under(s))

\* Mutant: a token that is not in the database is exchanged all the same.
RefreshUnknown(r, s) ==
    /\ req[r] = Idle /\ login[s] = "in"
    /\ issued[s] + Coming(s) < MaxTokens
    /\ req' = [req EXCEPT ![r].token = held[s], ![r].pc = "exchange"]
    /\ UNCHANGED <<login, held, granted, issued, db, cache, cause>>

\* oauth_token, refresh_token: cached answers that are too old are dropped,
\* then the token is looked up in the database and after it in the cache.
Refresh(r, s) ==
    /\ req[r] = Idle /\ login[s] = "in"
    /\ held[s] \in db => issued[s] + Coming(s) < MaxTokens     \* bound
    /\ cache' = [t \in Token |-> IF Fresh(t) THEN cache[t] ELSE NotCached]
    /\ req' = [req EXCEPT ![r] =
                 [token |-> held[s],
                  pc |-> IF held[s] \in db THEN "exchange" ELSE "answer",
                  answer |-> IF held[s] \in db THEN NoToken
                             ELSE IF Fresh(held[s]) THEN cache[held[s]].answer
                             ELSE Invalid]]
    /\ UNCHANGED <<login, held, granted, issued, db, cause>>

\* Azure answers 200; or anything else, 503 as well as invalid_grant; or the
\* call raises (a time-out), which answers 500 and changes nothing.
AzureAccepts(r) ==
    /\ req[r].pc = "exchange" /\ granted[Owner(req[r].token)]
    /\ req' = [req EXCEPT ![r].pc = "accepted"]
    /\ UNCHANGED <<login, held, granted, issued, db, cache, cause>>

AzureRefuses(r) ==
    /\ req[r].pc = "exchange"
    /\ req' = [req EXCEPT ![r].pc = "refused"]
    /\ UNCHANGED <<login, held, granted, issued, db, cache, cause>>

AzureFails(r) ==
    /\ req[r].pc = "exchange"
    /\ req' = [req EXCEPT ![r] = Idle]
    /\ UNCHANGED <<login, held, granted, issued, db, cache, cause>>

\* Mutant: the answer is not kept.
RotateUncached(r) ==
    LET t == req[r].token
        s == Owner(t)
        next == <<s, issued[s] + 1>>
    IN  /\ req[r].pc = "accepted"
        /\ issued' = [issued EXCEPT ![s] = @ + 1]
        /\ db' = (db \ {t}) \cup {next}
        /\ req' = [req EXCEPT ![r].pc = "answer", ![r].answer = next]
        /\ UNCHANGED <<login, held, granted, cache, cause>>

\* The exchanged token is deleted, the next one stored, and the answer kept
\* for a client that asks again with the old one.
Rotate(r) ==
    LET t == req[r].token
        s == Owner(t)
        next == <<s, issued[s] + 1>>
    IN  /\ req[r].pc = "accepted"
        /\ issued' = [issued EXCEPT ![s] = @ + 1]
        /\ db' = (db \ {t}) \cup {next}
        /\ cache' = [cache EXCEPT ![t] = [answer |-> next, age |-> 0]]
        /\ req' = [req EXCEPT ![r].pc = "answer", ![r].answer = next]
        /\ UNCHANGED <<login, held, granted, cause>>

\* Any other status than 200: the token is deleted and the client sent away.
Drop(r) ==
    /\ req[r].pc = "refused"
    /\ db' = db \ {req[r].token}
    /\ req' = [req EXCEPT ![r].pc = "answer", ![r].answer = Invalid]
    /\ cause' = Blame({Owner(req[r].token)}, "refused")
    /\ UNCHANGED <<login, held, granted, issued, cache>>

-----------------------------------------------------------------------------
(* The client, Azure's administrators, time, and the process.              *)

\* The client takes the token it is given; told that the token it holds is
\* invalid, it must sign in again.
Deliver(r) ==
    LET s == Owner(req[r].token)
    IN  /\ req[r].pc = "answer"
        /\ req' = [req EXCEPT ![r] = Idle]
        /\ \/ /\ req[r].answer # Invalid
              /\ held' = IF login[s] = "in" THEN [held EXCEPT ![s] = req[r].answer] ELSE held
              /\ UNCHANGED login
           \/ /\ req[r].answer = Invalid /\ held[s] = req[r].token
              /\ login' = [login EXCEPT ![s] = "out"]
              /\ held' = [held EXCEPT ![s] = NoToken]
           \/ /\ req[r].answer = Invalid /\ held[s] # req[r].token
              /\ UNCHANGED <<login, held>>
        /\ UNCHANGED <<granted, issued, db, cache, cause>>

\* The answer does not arrive, or the client has gone: it may ask again.
Lose(r) ==
    /\ req[r].pc = "answer"
    /\ req' = [req EXCEPT ![r] = Idle]
    /\ UNCHANGED <<login, held, granted, issued, db, cache, cause>>

Revoke(s) ==
    /\ granted[s]
    /\ granted' = [granted EXCEPT ![s] = FALSE]
    /\ UNCHANGED <<login, held, issued, db, cache, req, cause>>

\* A client, or a request under way, still needs t answered from the cache.
Needed(t) == held[Owner(t)] = t \/ \E r \in Request : req[r].answer = t

\* Cached answers grow old, and one too many for whoever still needs it.
Tick ==
    /\ cache' = [t \in Token |-> IF Fresh(t) THEN [cache[t] EXCEPT !.age = @ + 1] ELSE cache[t]]
    /\ cause' = Blame({Owner(t) : t \in {u \in Token : /\ Fresh(u) /\ cache[u].age = CacheTTL
                                                       /\ Needed(u)}}, "late")
    /\ UNCHANGED <<login, held, granted, issued, db, req>>

\* The process stops, perhaps between the two commits of Rotate (lost), and
\* starts again with the database alone.
Restart(lost) ==
    /\ lost \in {{}} \cup {{req[r].token} : r \in {q \in Request : req[q].pc = "accepted"}}
    /\ db' = db \ lost
    /\ cache' = [t \in Token |-> NotCached]
    /\ req' = [r \in Request |-> Idle]
    /\ login' = [s \in SignIn |-> IF login[s] \in {"authorize", "exchange", "code"}
                                  THEN "out" ELSE login[s]]
    /\ cause' = Blame({s \in SignIn : \/ \E t \in lost : Owner(t) = s
                                      \/ held[s] \in Token /\ held[s] \notin db}, "restart")
    /\ UNCHANGED <<held, granted, issued>>

SignInStep(s) ==
    \/ Authorize(s) \/ Callback(s) \/ CallbackFails(s)
    \/ \E kept \in BOOLEAN : CallbackDone(s, kept)
    \/ \E arrives \in BOOLEAN : Redeem(s, arrives)

RequestStep(r) ==
    \/ AzureAccepts(r) \/ AzureRefuses(r) \/ AzureFails(r)
    \/ Rotate(r) \/ Drop(r)
    \/ Deliver(r) \/ Lose(r)

Next ==
    \/ \E s \in SignIn : SignInStep(s) \/ Revoke(s)
    \/ \E r \in Request, s \in SignIn : Refresh(r, s)
    \/ \E r \in Request : RequestStep(r)
    \/ Tick
    \/ \E lost \in SUBSET db : Restart(lost)

Spec == Init /\ [][Next]_vars

-----------------------------------------------------------------------------
(* A client that holds a token is told to sign in again only because Azure *)
(* did not accept an exchange of its sign-in, the process was restarted    *)
(* under it, the answer reached it later than the cache lasts, or Azure    *)
(* gave no refresh token: never because a token was sent twice, an answer  *)
(* was lost, or two exchanges of it crossed (server.py:1979-2044).         *)
SignedOutForCause ==
    [][\A s \in SignIn : login[s] = "in" /\ login'[s] = "out" => cause[s] # {}]_vars

(* A sign-in is opened once and, once nothing is kept of it and nothing is *)
(* under way, closed for good: however exchanges of one token cross, are   *)
(* refused, repeated or cut short by a restart, no token comes after.      *)
Status == [s \in SignIn |->
    IF issued[s] = 0 THEN "none"
    ELSE IF (\E t \in db : Owner(t) = s) \/ Under(s) # {} THEN "open" ELSE "closed"]
Abstract == INSTANCE SignIns WITH status <- Status
ImplementsSignIns == Abstract!Spec
=============================================================================
