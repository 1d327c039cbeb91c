---------------------------- MODULE OAuthProofs ----------------------------
(***************************************************************************)
(* Machine-checked proofs about OAuth, for any sign-ins, any number of     *)
(* requests under way, any number of tokens and any age of the cache: that *)
(* its states are well typed, that it implements SignIns, and that nobody  *)
(* is signed out without a cause.                                          *)
(***************************************************************************)
EXTENDS OAuth, FiniteSetTheorems, TLAPS

\* Whatever is kept, cached or answered for a token belongs to its sign-in.
Owned ==
    /\ \A s \in SignIn : held[s] # NoToken => Owner(held[s]) = s
    /\ \A t \in Token :
           /\ cache[t].answer # NoToken => Owner(cache[t].answer) = Owner(t)
           /\ cache[t].answer = NoToken => cache[t] = NotCached
    /\ \A r \in Request :
           /\ req[r].answer \in Token => Owner(req[r].answer) = Owner(req[r].token)
           /\ req[r].pc # "idle" => req[r].token \in Token
           /\ req[r].pc = "answer" => req[r].answer # NoToken

\* A sign-in has its first token from the callback on, and no trace before.
Begun ==
    /\ \A s \in SignIn :
           /\ login[s] \in {"new", "authorize", "exchange"} => issued[s] = 0
           /\ login[s] \in {"code", "in"} => issued[s] # 0
           /\ login[s] = "in" => held[s] # NoToken
    /\ \A t \in db : issued[Owner(t)] # 0
    /\ \A r \in Request : req[r].pc # "idle" => issued[Owner(req[r].token)] # 0

\* The bound on tokens keeps room for those that are coming.
Room == \A s \in SignIn : issued[s] + Coming(s) <= MaxTokens

IInv == TypeOK /\ Owned /\ Begun /\ Room
-----------------------------------------------------------------------------
LEMMA TokenFacts ==
    /\ NoToken \notin Token /\ Invalid \notin Token /\ NoToken # Invalid
    /\ \A t \in Token : Owner(t) \in SignIn
    /\ \A s \in SignIn, n \in 1 .. MaxTokens : <<s, n>> \in Token /\ Owner(<<s, n>>) = s
  BY BoundsAssumption DEF Token, NoToken, Invalid, None, Owner

LEMMA UnderFacts ==
    /\ \A s \in SignIn : /\ IsFiniteSet(Under(s)) /\ Coming(s) \in Nat
                         /\ Coming(s) = 0 <=> Under(s) = {}
    /\ \A s \in SignIn : Under(s) \subseteq Request
  <1>1. \A s \in SignIn : Under(s) \subseteq Request
    BY DEF Under
  <1>2. ASSUME NEW s \in SignIn
        PROVE  IsFiniteSet(Under(s)) /\ Coming(s) \in Nat /\ (Coming(s) = 0 <=> Under(s) = {})
    BY <1>1, BoundsAssumption, FS_Subset, FS_CardinalityType, FS_EmptySet DEF Coming
  <1>3. QED
    BY <1>1, <1>2

LEMMA UnderFactsNext ==
    \A s \in SignIn : /\ IsFiniteSet(Under(s)') /\ Coming(s)' \in Nat
                      /\ Coming(s)' = 0 <=> Under(s)' = {}
  <1>1. \A s \in SignIn : Under(s)' \subseteq Request
    BY DEF Under
  <1>2. ASSUME NEW s \in SignIn
        PROVE  IsFiniteSet(Under(s)') /\ Coming(s)' \in Nat /\ (Coming(s)' = 0 <=> Under(s)' = {})
    BY <1>1, BoundsAssumption, FS_Subset, FS_CardinalityType, FS_EmptySet DEF Coming
  <1>3. QED
    BY <1>2

LEMMA BlameFacts ==
    ASSUME TypeOK, NEW S, NEW why \in Cause
    PROVE  Blame(S, why) \in [SignIn -> SUBSET Cause]
  BY DEF TypeOK, Blame

(* Steps that give no token, and bring no request under way, leave room.   *)
LEMMA RoomKept ==
    ASSUME IInv, UNCHANGED issued, \A s \in SignIn : Under(s)' \subseteq Under(s)
    PROVE  Room'
  <1> SUFFICES ASSUME NEW s \in SignIn PROVE issued'[s] + Coming(s)' <= MaxTokens
    BY DEF Room
  <1>1. Coming(s)' <= Coming(s)
    BY UnderFacts, UnderFactsNext, FS_Subset DEF Coming
  <1>2. issued[s] + Coming(s) <= MaxTokens /\ issued[s] \in Nat
    BY DEF IInv, Room, TypeOK
  <1>3. QED
    BY <1>1, <1>2, UnderFacts, UnderFactsNext, BoundsAssumption

LEMMA InitIInv == Init => IInv
  <1> SUFFICES ASSUME Init PROVE IInv
    OBVIOUS
  <1>1. TypeOK
    BY BoundsAssumption DEF Init, TypeOK, Login, Req, Idle, NotCached
  <1>2. Owned
    BY TokenFacts DEF Init, Owned, Idle, NotCached
  <1>3. Begun
    BY DEF Init, Begun, Idle
  <1>4. Room
    <2>1. \A s \in SignIn : Under(s) = {}
      BY DEF Init, Under, Idle
    <2>2. QED
      BY <2>1, UnderFacts, BoundsAssumption DEF Init, Room
  <1>5. QED
    BY <1>1, <1>2, <1>3, <1>4 DEF IInv

(* Signing in.                                                             *)
LEMMA SignInKeeps ==
    ASSUME IInv, NEW s \in SignIn,
           \/ Authorize(s) \/ Callback(s) \/ CallbackFails(s)
           \/ \E arrives \in BOOLEAN : Redeem(s, arrives)
    PROVE  IInv'
  <1>1. UNCHANGED <<granted, issued, db, cache, req>>
    BY DEF Authorize, Callback, CallbackFails, Redeem
  <1>2. TypeOK'
    <2>1. login' \in [SignIn -> Login]
      BY DEF IInv, TypeOK, Login, Authorize, Callback, CallbackFails, Redeem
    <2>2. held' \in [SignIn -> Token \cup {NoToken}]
      <3>1. <<s, 1>> \in Token
        BY TokenFacts, BoundsAssumption
      <3>2. QED
        BY <3>1 DEF IInv, TypeOK, Authorize, Callback, CallbackFails, Redeem
    <2>3. cause' \in [SignIn -> SUBSET Cause]
      BY BlameFacts DEF IInv, TypeOK, Cause, Authorize, Callback, CallbackFails, Redeem
    <2>4. QED
      BY <1>1, <2>1, <2>2, <2>3 DEF IInv, TypeOK
  <1>3. Owned'
    <2>1. \A u \in SignIn : held'[u] # NoToken => Owner(held'[u]) = u
      BY TokenFacts, BoundsAssumption
         DEF IInv, TypeOK, Owned, Authorize, Callback, CallbackFails, Redeem
    <2>2. QED
      BY <1>1, <2>1 DEF IInv, Owned
  <1>4. Begun'
    <2>1. <<s, 1>> # NoToken
      BY TokenFacts, BoundsAssumption
    <2>2. \A u \in SignIn :
             /\ login'[u] \in {"new", "authorize", "exchange"} => issued'[u] = 0
             /\ login'[u] \in {"code", "in"} => issued'[u] # 0
             /\ login'[u] = "in" => held'[u] # NoToken
      BY <1>1, <2>1 DEF IInv, TypeOK, Begun, Authorize, Callback, CallbackFails, Redeem
    <2>3. QED
      BY <1>1, <2>2 DEF IInv, Begun
  <1>5. Room'
    <2>1. \A u \in SignIn : Under(u)' \subseteq Under(u)
      BY <1>1 DEF Under
    <2>2. QED
      BY <1>1, <2>1, RoomKept
  <1>6. QED
    BY <1>2, <1>3, <1>4, <1>5 DEF IInv

(* The first token of a sign-in.                                           *)
LEMMA CallbackDoneKeeps ==
    ASSUME IInv, NEW s \in SignIn, NEW kept \in BOOLEAN, CallbackDone(s, kept)
    PROVE  IInv'
  <1>1. UNCHANGED <<held, granted, cache, req>>
    BY DEF CallbackDone
  <1>2. <<s, 1>> \in Token /\ Owner(<<s, 1>>) = s
    BY TokenFacts, BoundsAssumption
  <1>3. issued[s] = 0 /\ Under(s) = {}
    BY DEF IInv, Begun, Under, CallbackDone
  <1>4. issued' = [issued EXCEPT ![s] = 1] /\ login' = [login EXCEPT ![s] = "code"]
    BY DEF CallbackDone
  <1>5. db' \subseteq db \cup {<<s, 1>>}
    BY DEF CallbackDone
  <1>6. TypeOK'
    <2>1. login' \in [SignIn -> Login]
      BY <1>4 DEF IInv, TypeOK, Login
    <2>2. issued' \in [SignIn -> 0 .. MaxTokens]
      BY <1>4, BoundsAssumption DEF IInv, TypeOK
    <2>3. cause' \in [SignIn -> SUBSET Cause]
      BY BlameFacts DEF IInv, TypeOK, Cause, CallbackDone
    <2>4. QED
      BY <1>1, <1>2, <1>5, <2>1, <2>2, <2>3 DEF IInv, TypeOK
  <1>7. Owned'
    BY <1>1 DEF IInv, Owned
  <1>8. Begun'
    <2>1. \A u \in SignIn : issued[u] # 0 => issued'[u] # 0
      BY <1>3, <1>4 DEF IInv, TypeOK
    <2>2. \A u \in SignIn :
             /\ login'[u] \in {"new", "authorize", "exchange"} => issued'[u] = 0
             /\ login'[u] \in {"code", "in"} => issued'[u] # 0
             /\ login'[u] = "in" => held'[u] # NoToken
      BY <1>1, <1>4 DEF IInv, TypeOK, Begun
    <2>3. \A t \in db' : issued'[Owner(t)] # 0
      BY <1>2, <1>4, <1>5, <2>1, TokenFacts DEF IInv, TypeOK, Begun
    <2>4. \A r \in Request : req'[r].pc # "idle" => issued'[Owner(req'[r].token)] # 0
      BY <1>1, <2>1, TokenFacts DEF IInv, Owned, Begun
    <2>5. QED
      BY <2>2, <2>3, <2>4 DEF Begun
  <1>9. Room'
    <2> SUFFICES ASSUME NEW u \in SignIn PROVE issued'[u] + Coming(u)' <= MaxTokens
      BY DEF Room
    <2>1. Coming(u)' = Coming(u)
      BY <1>1 DEF Coming, Under
    <2>2. issued[u] + Coming(u) <= MaxTokens /\ issued[u] \in Nat /\ Coming(u) \in Nat
      BY UnderFacts DEF IInv, Room, TypeOK
    <2>3. CASE u = s
      <3>1. Coming(u) = 0
        BY <1>3, <2>3, UnderFacts
      <3>2. issued'[u] = 1
        BY <1>4, <2>3 DEF IInv, TypeOK
      <3>3. QED
        BY <2>1, <3>1, <3>2, BoundsAssumption
    <2>4. CASE u # s
      BY <1>4, <2>1, <2>2, <2>4 DEF IInv, TypeOK
    <2>5. QED
      BY <2>3, <2>4
  <1>10. QED
    BY <1>6, <1>7, <1>8, <1>9 DEF IInv
(* A request is made: of a token that is kept, of one whose answer is      *)
(* cached, or of one that is gone.                                         *)
LEMMA RefreshKeeps ==
    ASSUME IInv, NEW r \in Request, NEW s \in SignIn, Refresh(r, s)
    PROVE  IInv'
  <1>1. UNCHANGED <<login, held, granted, issued, db, cause>>
    BY DEF Refresh
  <1>2. /\ held[s] \in Token /\ Owner(held[s]) = s /\ issued[s] # 0
        /\ req[r] = Idle
    BY DEF IInv, TypeOK, Owned, Begun, Refresh
  <1>3. cache' = [t \in Token |-> IF Fresh(t) THEN cache[t] ELSE NotCached]
    BY DEF Refresh
  <1>4. PICK a \in Token \cup {NoToken, Invalid}, p \in {"exchange", "answer"} :
           /\ req' = [req EXCEPT ![r] = [token |-> held[s], pc |-> p, answer |-> a]]
           /\ p = "exchange" => held[s] \in db
           /\ p = "answer" => a # NoToken
           /\ a \in Token => Owner(a) = s
    <2>1. CASE held[s] \in db
      BY <2>1, TokenFacts DEF Refresh
    <2>2. CASE held[s] \notin db /\ Fresh(held[s])
      <3>1. cache[held[s]].answer \in Token /\ Owner(cache[held[s]].answer) = s
        BY <1>2, <2>2 DEF IInv, TypeOK, Owned, Fresh
      <3>2. QED
        BY <2>2, <3>1, TokenFacts DEF Refresh
    <2>3. CASE held[s] \notin db /\ ~Fresh(held[s])
      BY <2>3, TokenFacts DEF Refresh
    <2>4. QED
      BY <2>1, <2>2, <2>3
  <1>5. TypeOK'
    <2>1. req' \in [Request -> Req]
      BY <1>2, <1>4 DEF IInv, TypeOK, Req
    <2>2. cache' \in [Token -> [answer : Token \cup {NoToken}, age : 0 .. CacheTTL + 1]]
      BY <1>3, BoundsAssumption DEF IInv, TypeOK, NotCached
    <2>3. QED
      BY <1>1, <2>1, <2>2 DEF IInv, TypeOK
  <1>6. Owned'
    <2>1. \A t \in Token :
             /\ cache'[t].answer # NoToken => Owner(cache'[t].answer) = Owner(t)
             /\ cache'[t].answer = NoToken => cache'[t] = NotCached
      BY <1>3 DEF IInv, Owned, NotCached
    <2>2. \A q \in Request :
             /\ req'[q].answer \in Token => Owner(req'[q].answer) = Owner(req'[q].token)
             /\ req'[q].pc # "idle" => req'[q].token \in Token
             /\ req'[q].pc = "answer" => req'[q].answer # NoToken
      BY <1>2, <1>4 DEF IInv, TypeOK, Owned
    <2>3. QED
      BY <1>1, <2>1, <2>2 DEF IInv, Owned
  <1>7. Begun'
    <2>1. \A q \in Request : req'[q].pc # "idle" => issued[Owner(req'[q].token)] # 0
      BY <1>2, <1>4 DEF IInv, TypeOK, Begun
    <2>2. QED
      BY <1>1, <2>1 DEF IInv, Begun
  <1>8. Room'
    <2> SUFFICES ASSUME NEW u \in SignIn PROVE issued'[u] + Coming(u)' <= MaxTokens
      BY DEF Room
    <2>1. issued[u] + Coming(u) <= MaxTokens /\ issued[u] \in Nat /\ Coming(u) \in Nat
      BY UnderFacts DEF IInv, Room, TypeOK
    <2>2. CASE u = s /\ held[s] \in db
      <3>1. Under(u)' \subseteq Under(u) \cup {r}
        BY <1>4 DEF IInv, TypeOK, Under
      <3>2. Coming(u)' <= Coming(u) + 1
        <4>1. /\ IsFiniteSet(Under(u) \cup {r})
              /\ Cardinality(Under(u) \cup {r}) <= Coming(u) + 1
          <5>1. IsFiniteSet(Under(u)) /\ Cardinality(Under(u)) = Coming(u)
            BY UnderFacts DEF Coming
          <5>2. /\ IsFiniteSet(Under(u) \cup {r})
                /\ Cardinality(Under(u) \cup {r}) = IF r \in Under(u) THEN Cardinality(Under(u))
                                                    ELSE Cardinality(Under(u)) + 1
            BY <5>1, FS_AddElement
          <5>3. QED
            BY <2>1, <5>1, <5>2
        <4>2. Coming(u)' <= Cardinality(Under(u) \cup {r})
          BY <3>1, <4>1, FS_Subset DEF Coming
        <4>3. Cardinality(Under(u) \cup {r}) \in Nat
          BY <4>1, FS_CardinalityType
        <4>4. QED
          BY <2>1, <4>1, <4>2, <4>3, UnderFactsNext
      <3>3. issued[u] + Coming(u) < MaxTokens
        BY <2>2 DEF Refresh
      <3>4. QED
        BY <1>1, <2>1, <3>2, <3>3, UnderFactsNext, BoundsAssumption
    <2>3. CASE ~(u = s /\ held[s] \in db)
      <3>1. Under(u)' \subseteq Under(u)
        <4> SUFFICES ASSUME NEW q \in Under(u)' PROVE q \in Under(u)
          OBVIOUS
        <4>1. q # r
          BY <1>2, <1>4, <2>3 DEF IInv, TypeOK, Under
        <4>2. QED
          BY <1>4, <4>1 DEF IInv, TypeOK, Under
      <3>2. Coming(u)' <= Coming(u)
        BY <3>1, UnderFacts, FS_Subset DEF Coming
      <3>3. QED
        BY <1>1, <2>1, <3>2, UnderFactsNext, BoundsAssumption
    <2>4. QED
      BY <2>2, <2>3
  <1>9. QED
    BY <1>5, <1>6, <1>7, <1>8 DEF IInv

(* A request goes on or ends without a token: Azure's answers, a token     *)
(* dropped, an answer delivered or lost.                                   *)
LEMMA RequestKeeps ==
    ASSUME IInv, NEW r \in Request,
           \/ AzureAccepts(r) \/ AzureRefuses(r) \/ AzureFails(r)
           \/ Drop(r) \/ Deliver(r) \/ Lose(r)
    PROVE  IInv'
  <1>1. UNCHANGED <<granted, issued, cache>> /\ req[r].pc # "idle"
    BY DEF AzureAccepts, AzureRefuses, AzureFails, Drop, Deliver, Lose
  <1>2. /\ req[r].token \in Token /\ Owner(req[r].token) \in SignIn
        /\ issued[Owner(req[r].token)] # 0
    BY <1>1, TokenFacts DEF IInv, Owned, Begun
  <1>3. PICK e \in Req :
           /\ req' = [req EXCEPT ![r] = e]
           /\ e = Idle \/ e.token = req[r].token
           /\ e.answer \in Token => e.answer = req[r].answer
           /\ e.pc = "answer" => e.answer # NoToken
           /\ e.pc \in {"exchange", "accepted"} => req[r].pc = "exchange"
    <2>1. req[r] \in Req /\ Idle \in Req
      BY DEF IInv, TypeOK, Req, Idle
    <2>2. CASE AzureAccepts(r)
      <3>1. [req[r] EXCEPT !.pc = "accepted"] \in Req
        BY <2>1 DEF Req
      <3>2. QED
        BY <2>2, <3>1 DEF AzureAccepts, Req, IInv, TypeOK
    <2>3. CASE AzureRefuses(r)
      <3>1. [req[r] EXCEPT !.pc = "refused"] \in Req
        BY <2>1 DEF Req
      <3>2. QED
        BY <2>3, <3>1 DEF AzureRefuses, Req, IInv, TypeOK
    <2>4. CASE AzureFails(r) \/ Deliver(r) \/ Lose(r)
      <3>1. req' = [req EXCEPT ![r] = Idle]
        BY <2>4 DEF AzureFails, Deliver, Lose
      <3>2. QED
        BY <2>1, <3>1, TokenFacts DEF Idle
    <2>5. CASE Drop(r)
      <3> DEFINE e == [req[r] EXCEPT !.pc = "answer", !.answer = Invalid]
      <3>1. /\ e \in Req /\ e.token = req[r].token
            /\ e.answer = Invalid /\ e.pc = "answer"
        BY <2>1 DEF Req
      <3>2. req' = [req EXCEPT ![r] = e]
        BY <2>5 DEF Drop, IInv, TypeOK
      <3> HIDE DEF e
      <3>3. QED
        BY <3>1, <3>2, TokenFacts
    <2>6. QED
      BY <2>2, <2>3, <2>4, <2>5
  <1>4. db' \subseteq db
    BY DEF AzureAccepts, AzureRefuses, AzureFails, Drop, Deliver, Lose
  <1>5. /\ login' \in [SignIn -> Login] /\ held' \in [SignIn -> Token \cup {NoToken}]
        /\ \A u \in SignIn :
              /\ held'[u] # NoToken => Owner(held'[u]) = u
              /\ login'[u] = login[u] \/ login'[u] = "out"
              /\ login'[u] = "in" => held'[u] # NoToken
    <2>1. CASE UNCHANGED <<login, held>>
      BY <2>1 DEF IInv, TypeOK, Owned, Begun
    <2>2. CASE Deliver(r) /\ req[r].answer # Invalid
      <3>1. req[r].answer \in Token /\ Owner(req[r].answer) = Owner(req[r].token)
        BY <2>2 DEF IInv, TypeOK, Owned, Deliver, Req
      <3>2. QED
        BY <1>2, <2>2, <3>1, TokenFacts DEF IInv, TypeOK, Owned, Begun, Deliver
    <2>3. CASE Deliver(r) /\ req[r].answer = Invalid
      BY <1>2, <2>3 DEF IInv, TypeOK, Owned, Begun, Deliver, Login
    <2>4. QED
      BY <2>1, <2>2, <2>3 DEF AzureAccepts, AzureRefuses, AzureFails, Drop, Lose
  <1>6. cause' \in [SignIn -> SUBSET Cause]
    BY BlameFacts DEF IInv, TypeOK, Cause, AzureAccepts, AzureRefuses, AzureFails,
                      Drop, Deliver, Lose
  <1>7. TypeOK'
    <2>1. req' \in [Request -> Req]
      BY <1>3 DEF IInv, TypeOK
    <2>2. QED
      BY <1>1, <1>4, <1>5, <1>6, <2>1 DEF IInv, TypeOK
  <1>8. Owned'
    <2>1. \A q \in Request :
             /\ req'[q].answer \in Token => Owner(req'[q].answer) = Owner(req'[q].token)
             /\ req'[q].pc # "idle" => req'[q].token \in Token
             /\ req'[q].pc = "answer" => req'[q].answer # NoToken
      <3> SUFFICES ASSUME NEW q \in Request
                   PROVE  /\ req'[q].answer \in Token => Owner(req'[q].answer) = Owner(req'[q].token)
                          /\ req'[q].pc # "idle" => req'[q].token \in Token
                          /\ req'[q].pc = "answer" => req'[q].answer # NoToken
        OBVIOUS
      <3>1. CASE q = r
        <4>1. req'[q] = e
          BY <1>3, <3>1 DEF IInv, TypeOK
        <4>2. QED
          BY <1>1, <1>2, <1>3, <4>1, TokenFacts DEF IInv, Owned, Idle
      <3>2. CASE q # r
        BY <1>3, <3>2 DEF IInv, TypeOK, Owned
      <3>3. QED
        BY <3>1, <3>2
    <2>2. QED
      BY <1>1, <1>5, <2>1 DEF IInv, Owned
  <1>9. Begun'
    <2>1. \A q \in Request : req'[q].pc # "idle" => issued[Owner(req'[q].token)] # 0
      BY <1>2, <1>3 DEF IInv, TypeOK, Begun, Idle
    <2>2. \A u \in SignIn :
             /\ login'[u] \in {"new", "authorize", "exchange"} => issued[u] = 0
             /\ login'[u] \in {"code", "in"} => issued[u] # 0
      BY <1>5 DEF IInv, Begun
    <2>3. QED
      BY <1>1, <1>4, <1>5, <2>1, <2>2 DEF IInv, Begun
  <1>10. Room'
    <2>1. \A u \in SignIn : Under(u)' \subseteq Under(u)
      BY <1>3 DEF IInv, TypeOK, Under, Idle
    <2>2. QED
      BY <1>1, <2>1, RoomKept
  <1>11. QED
    BY <1>7, <1>8, <1>9, <1>10 DEF IInv
(* A token is exchanged for the next one.                                  *)
LEMMA RotateFacts ==
    ASSUME IInv, NEW r \in Request, Rotate(r)
    PROVE  LET t == req[r].token
               s == Owner(t)
           IN  /\ t \in Token /\ s \in SignIn
               /\ issued[s] \in 1 .. MaxTokens - 1
               /\ r \in Under(s)
               /\ <<s, issued[s] + 1>> \in Token /\ Owner(<<s, issued[s] + 1>>) = s
  <1> DEFINE t == req[r].token
             s == Owner(t)
  <1>1. t \in Token /\ s \in SignIn /\ issued[s] # 0 /\ r \in Under(s)
    BY TokenFacts DEF IInv, Owned, Begun, Under, Rotate
  <1>2. issued[s] + Coming(s) <= MaxTokens /\ issued[s] \in Nat
        /\ Coming(s) \in Nat /\ Coming(s) # 0
    BY <1>1, UnderFacts DEF IInv, Room, TypeOK
  <1>3. issued[s] \in 1 .. MaxTokens - 1
    BY <1>1, <1>2, BoundsAssumption
  <1>4. issued[s] + 1 \in 1 .. MaxTokens
    BY <1>3, BoundsAssumption
  <1>5. QED
    BY <1>1, <1>3, <1>4, TokenFacts

LEMMA RotateKeeps ==
    ASSUME IInv, NEW r \in Request, Rotate(r)
    PROVE  IInv'
  <1> DEFINE t == req[r].token
             s == Owner(t)
             next == <<s, issued[s] + 1>>
  <1>1. /\ t \in Token /\ s \in SignIn
        /\ issued[s] \in 1 .. MaxTokens - 1
        /\ r \in Under(s)
        /\ next \in Token /\ Owner(next) = s
    BY RotateFacts
  <1>2. /\ issued' = [issued EXCEPT ![s] = @ + 1]
        /\ db' = (db \ {t}) \cup {next}
        /\ cache' = [cache EXCEPT ![t] = [answer |-> next, age |-> 0]]
        /\ req' = [req EXCEPT ![r].pc = "answer", ![r].answer = next]
        /\ UNCHANGED <<login, held, granted, cause>>
    BY DEF Rotate
  <1> HIDE DEF next
  <1>3. /\ issued' \in [SignIn -> 0 .. MaxTokens]
        /\ \A u \in SignIn : issued'[u] = IF u = s THEN issued[u] + 1 ELSE issued[u]
    BY <1>1, <1>2, BoundsAssumption DEF IInv, TypeOK
  <1>4. /\ req' \in [Request -> Req]
        /\ req'[r].token = t /\ req'[r].pc = "answer" /\ req'[r].answer = next
        /\ \A q \in Request \ {r} : req'[q] = req[q]
    BY <1>1, <1>2 DEF IInv, TypeOK, Req
  <1>5. TypeOK'
    <2>1. cache' \in [Token -> [answer : Token \cup {NoToken}, age : 0 .. CacheTTL + 1]]
      BY <1>1, <1>2, BoundsAssumption DEF IInv, TypeOK
    <2>2. db' \subseteq Token
      BY <1>1, <1>2 DEF IInv, TypeOK
    <2>3. QED
      BY <1>2, <1>3, <1>4, <2>1, <2>2 DEF IInv, TypeOK
  <1>6. Owned'
    <2>1. \A v \in Token :
             /\ cache'[v].answer # NoToken => Owner(cache'[v].answer) = Owner(v)
             /\ cache'[v].answer = NoToken => cache'[v] = NotCached
      BY <1>1, <1>2, TokenFacts DEF IInv, TypeOK, Owned
    <2>2. \A q \in Request :
             /\ req'[q].answer \in Token => Owner(req'[q].answer) = Owner(req'[q].token)
             /\ req'[q].pc # "idle" => req'[q].token \in Token
             /\ req'[q].pc = "answer" => req'[q].answer # NoToken
      BY <1>1, <1>4, TokenFacts DEF IInv, Owned
    <2>3. QED
      BY <1>2, <2>1, <2>2 DEF IInv, Owned
  <1>7. Begun'
    <2>1. \A u \in SignIn : issued[u] # 0 <=> issued'[u] # 0
      BY <1>1, <1>3 DEF IInv, TypeOK
    <2>2. \A v \in db' : issued'[Owner(v)] # 0
      BY <1>1, <1>2, <2>1, TokenFacts DEF IInv, TypeOK, Begun
    <2>3. \A q \in Request : req'[q].pc # "idle" => issued'[Owner(req'[q].token)] # 0
      BY <1>1, <1>4, <2>1, TokenFacts DEF IInv, Owned, Begun
    <2>4. QED
      BY <1>2, <2>1, <2>2, <2>3 DEF IInv, Begun
  <1>8. Room'
    <2> SUFFICES ASSUME NEW u \in SignIn PROVE issued'[u] + Coming(u)' <= MaxTokens
      BY DEF Room
    <2>1. issued[u] + Coming(u) <= MaxTokens /\ issued[u] \in Nat /\ Coming(u) \in Nat
          /\ Coming(u)' \in Nat
      BY UnderFacts, UnderFactsNext DEF IInv, Room, TypeOK
    <2>2. CASE u = s
      <3>1. Under(u)' = Under(u) \ {r}
        BY <1>4, <2>2 DEF Under
      <3>2. IsFiniteSet(Under(u)) /\ r \in Under(u) /\ Cardinality(Under(u)) = Coming(u)
        BY <1>1, <2>2, UnderFacts DEF Coming
      <3>3. Coming(u)' = Coming(u) - 1
        <4>1. Cardinality(Under(u) \ {r}) = Cardinality(Under(u)) - 1
          BY <3>2, FS_RemoveElement
        <4>2. Coming(u)' = Cardinality(Under(u) \ {r})
          BY <3>1 DEF Coming
        <4>3. QED
          BY <3>2, <4>1, <4>2
      <3>4. issued'[u] = issued[u] + 1
        BY <1>3, <2>2
      <3>5. QED
        BY <2>1, <3>3, <3>4, BoundsAssumption
    <2>3. CASE u # s
      <3>1. Under(u)' = Under(u)
        BY <1>1, <1>4, <2>3 DEF Under
      <3>2. Coming(u)' = Coming(u) /\ issued'[u] = issued[u]
        BY <1>3, <2>3, <3>1 DEF Coming
      <3>3. QED
        BY <2>1, <3>2
    <2>4. QED
      BY <2>2, <2>3
  <1>9. QED
    BY <1>5, <1>6, <1>7, <1>8 DEF IInv

(* Azure's administrators, time and the process.                           *)
LEMMA RestKeeps ==
    ASSUME IInv,
           \/ \E s \in SignIn : Revoke(s)
           \/ Tick
           \/ \E lost \in SUBSET db : Restart(lost)
    PROVE  IInv'
  <1>1. UNCHANGED <<held, issued>> /\ db' \subseteq db
    BY DEF Revoke, Tick, Restart
  <1>2. /\ login' \in [SignIn -> Login]
        /\ \A u \in SignIn : login'[u] = login[u] \/ login'[u] = "out"
    BY DEF IInv, TypeOK, Login, Revoke, Tick, Restart
  <1>3. /\ req' \in [Request -> Req]
        /\ \A q \in Request : req'[q] = req[q] \/ req'[q] = Idle
    <2>1. CASE UNCHANGED req
      BY <2>1 DEF IInv, TypeOK
    <2>2. CASE req' = [r \in Request |-> Idle]
      BY <2>2 DEF Req, Idle
    <2>3. QED
      BY <2>1, <2>2 DEF Revoke, Tick, Restart
  <1>4. /\ cache' \in [Token -> [answer : Token \cup {NoToken}, age : 0 .. CacheTTL + 1]]
        /\ \A t \in Token : \/ cache'[t] = cache[t] \/ cache'[t] = NotCached
                            \/ cache[t] # NotCached /\ cache'[t].answer = cache[t].answer
    <2>1. CASE UNCHANGED cache
      BY <2>1 DEF IInv, TypeOK
    <2>2. CASE Tick
      BY <2>2, BoundsAssumption DEF IInv, TypeOK, Tick, Fresh
    <2>3. CASE cache' = [t \in Token |-> NotCached]
      BY <2>3, BoundsAssumption DEF NotCached
    <2>4. QED
      BY <2>1, <2>2, <2>3 DEF Revoke, Restart
  <1>5. TypeOK'
    <2>1. granted' \in [SignIn -> BOOLEAN]
      BY DEF IInv, TypeOK, Revoke, Tick, Restart
    <2>2. cause' \in [SignIn -> SUBSET Cause]
      <3>1. CASE UNCHANGED cause
        BY <3>1 DEF IInv, TypeOK
      <3>2. CASE Tick
        <4>1. \E S : cause' = Blame(S, "late")
          BY <3>2 DEF Tick
        <4>2. QED
          BY <4>1, BlameFacts DEF IInv, Cause
      <3>3. CASE \E lost \in SUBSET db : Restart(lost)
        <4>1. \E S : cause' = Blame(S, "restart")
          BY <3>3 DEF Restart
        <4>2. QED
          BY <4>1, BlameFacts DEF IInv, Cause
      <3>4. QED
        BY <3>1, <3>2, <3>3 DEF Revoke
    <2>3. QED
      BY <1>1, <1>2, <1>3, <1>4, <2>1, <2>2 DEF IInv, TypeOK
  <1>6. Owned'
    <2>1. \A t \in Token :
             /\ cache'[t].answer # NoToken => Owner(cache'[t].answer) = Owner(t)
             /\ cache'[t].answer = NoToken => cache'[t] = NotCached
      BY <1>4 DEF IInv, Owned, NotCached
    <2>2. QED
      BY <1>1, <1>3, <2>1, TokenFacts DEF IInv, Owned, Idle
  <1>7. Begun'
    <2>1. \A u \in SignIn :
             /\ login'[u] \in {"new", "authorize", "exchange"} => issued[u] = 0
             /\ login'[u] \in {"code", "in"} => issued[u] # 0
             /\ login'[u] = "in" => held[u] # NoToken
      BY <1>2 DEF IInv, Begun
    <2>2. QED
      BY <1>1, <1>3, <2>1 DEF IInv, Begun, Idle
  <1>8. Room'
    <2>1. \A u \in SignIn : Under(u)' \subseteq Under(u)
      BY <1>3 DEF Under, Idle
    <2>2. QED
      BY <1>1, <2>1, RoomKept
  <1>9. QED
    BY <1>5, <1>6, <1>7, <1>8 DEF IInv

LEMMA NextIInv == IInv /\ [Next]_vars => IInv'
  <1> SUFFICES ASSUME IInv, [Next]_vars PROVE IInv'
    OBVIOUS
  <1>1. ASSUME NEW s \in SignIn, SignInStep(s)
        PROVE  IInv'
    <2>1. CASE \E kept \in BOOLEAN : CallbackDone(s, kept)
      BY <2>1, CallbackDoneKeeps
    <2>2. CASE \/ Authorize(s) \/ Callback(s) \/ CallbackFails(s)
               \/ \E arrives \in BOOLEAN : Redeem(s, arrives)
      BY <2>2, SignInKeeps
    <2>3. QED
      BY <1>1, <2>1, <2>2 DEF SignInStep
  <1>2. ASSUME NEW r \in Request, NEW s \in SignIn, Refresh(r, s)
        PROVE  IInv'
    BY <1>2, RefreshKeeps
  <1>3. ASSUME NEW r \in Request, RequestStep(r)
        PROVE  IInv'
    BY <1>3, RotateKeeps, RequestKeeps DEF RequestStep
  <1>4. CASE \/ \E s \in SignIn : Revoke(s)
             \/ Tick
             \/ \E lost \in SUBSET db : Restart(lost)
    BY <1>4, RestKeeps
  <1>5. CASE UNCHANGED vars
    BY <1>5 DEF vars, IInv, TypeOK, Owned, Begun, Room, Coming, Under
  <1>6. QED
    BY <1>1, <1>2, <1>3, <1>4, <1>5 DEF Next

LEMMA Inductive == Spec => []IInv
  BY InitIInv, NextIInv, PTL DEF Spec

(* Every reachable state of the proxy is well typed: what is kept, cached  *)
(* and answered are tokens it handed out, within the bound.                *)
THEOREM TypeCorrect == Spec => []TypeOK
  <1>1. IInv => TypeOK
    BY DEF IInv
  <1>2. QED
    BY <1>1, Inductive, PTL

-----------------------------------------------------------------------------
(* OAuth implements SignIns.                                               *)

(* A step that gives no token and begins nothing of a sign-in that is over *)
(* closes some sign-ins, or none.                                          *)
LEMMA Closes ==
    ASSUME IInv, UNCHANGED issued,
           \A s \in SignIn : (\E t \in db' : Owner(t) = s) \/ Under(s)' # {}
                             => (\E t \in db : Owner(t) = s) \/ Under(s) # {}
    PROVE  Abstract!Next
  <1> DEFINE ended == {s \in SignIn : Status[s] = "open" /\ Status'[s] = "closed"}
  <1>1. \A s \in SignIn : Status'[s] = IF s \in ended THEN "closed" ELSE Status[s]
    BY DEF Status
  <1>2. Status' = [s \in SignIn |-> IF s \in ended THEN "closed" ELSE Status[s]]
    BY <1>1 DEF Status
  <1>3. ended \in SUBSET {s \in SignIn : Status[s] = "open"}
    OBVIOUS
  <1> HIDE DEF ended
  <1>4. Abstract!Close
    BY <1>2, <1>3 DEF Abstract!Close
  <1>5. QED
    BY <1>4 DEF Abstract!Next

LEMMA Opens ==
    ASSUME IInv, NEW s \in SignIn, NEW kept \in BOOLEAN, CallbackDone(s, kept)
    PROVE  Abstract!Next
  <1>1. /\ issued[s] = 0 /\ Under(s) = {} /\ \A t \in db : Owner(t) # s
        /\ issued' = [issued EXCEPT ![s] = 1]
    BY DEF IInv, Begun, Under, CallbackDone
  <1>2. \A u \in SignIn : Under(u)' = Under(u)
    BY DEF CallbackDone, Under
  <1>3. Owner(<<s, 1>>) = s
    BY DEF Owner
  <1>4. \A u \in SignIn \ {s} : Status'[u] = Status[u]
    BY <1>1, <1>2, <1>3 DEF Status, CallbackDone, IInv, TypeOK
  <1>5. Status'[s] = IF kept THEN "open" ELSE "closed"
    BY <1>1, <1>2, <1>3 DEF Status, CallbackDone, IInv, TypeOK
  <1>6. Status[s] = "none"
    BY <1>1 DEF Status
  <1>7. Status' = [Status EXCEPT ![s] = IF kept THEN "open" ELSE "closed"]
    BY <1>4, <1>5 DEF Status
  <1>8. Abstract!Open(s, "open") \/ Abstract!Open(s, "closed")
    BY <1>1, <1>6, <1>7 DEF Abstract!Open
  <1>9. QED
    BY <1>8 DEF Abstract!Next

LEMMA Renews ==
    ASSUME IInv, NEW r \in Request, Rotate(r)
    PROVE  Abstract!Next
  <1> DEFINE t == req[r].token
             s == Owner(t)
             next == <<s, issued[s] + 1>>
  <1>1. /\ t \in Token /\ s \in SignIn
        /\ issued[s] \in 1 .. MaxTokens - 1
        /\ r \in Under(s)
        /\ next \in Token /\ Owner(next) = s
    BY RotateFacts
  <1>2. /\ issued' = [issued EXCEPT ![s] = @ + 1]
        /\ db' = (db \ {t}) \cup {next}
        /\ req' = [req EXCEPT ![r].pc = "answer", ![r].answer = next]
    BY DEF Rotate
  <1> HIDE DEF next
  <1>3. issued[s] # 0 /\ issued[s] < MaxTokens /\ issued'[s] # 0
    BY <1>1, <1>2, BoundsAssumption DEF IInv, TypeOK
  <1>4. Status[s] = "open"
    BY <1>1, <1>3 DEF Status
  <1>5. Status'[s] = "open"
    BY <1>1, <1>2, <1>3 DEF Status
  <1>6. ASSUME NEW u \in SignIn \ {s}
        PROVE  Status'[u] = Status[u]
    <2>1. Under(u)' = Under(u)
      BY <1>1, <1>2 DEF Under, IInv, TypeOK
    <2>2. (\E v \in db' : Owner(v) = u) <=> (\E v \in db : Owner(v) = u)
      BY <1>1, <1>2
    <2>3. issued'[u] = issued[u]
      BY <1>1, <1>2 DEF IInv, TypeOK
    <2>4. QED
      BY <2>1, <2>2, <2>3 DEF Status
  <1>7. Status' = Status
    BY <1>4, <1>5, <1>6 DEF Status
  <1>8. Abstract!Renew(s)
    BY <1>2, <1>3, <1>4, <1>7 DEF Abstract!Renew
  <1>9. QED
    BY <1>1, <1>8 DEF Abstract!Next

LEMMA StepImplements == IInv /\ [Next]_vars => [Abstract!Next]_(Abstract!vars)
  <1> SUFFICES ASSUME IInv, [Next]_vars PROVE [Abstract!Next]_(Abstract!vars)
    OBVIOUS
  <1>1. ASSUME NEW s \in SignIn, NEW kept \in BOOLEAN, CallbackDone(s, kept)
        PROVE  Abstract!Next
    BY <1>1, Opens
  <1>2. ASSUME NEW r \in Request, Rotate(r)
        PROVE  Abstract!Next
    BY <1>2, Renews
  <1>3. ASSUME NEW r \in Request, NEW s \in SignIn, Refresh(r, s)
        PROVE  Abstract!Next
    <2>1. held[s] \in Token /\ Owner(held[s]) = s /\ UNCHANGED <<db, issued>>
      BY <1>3 DEF IInv, TypeOK, Owned, Begun, Refresh
    <2>2. ASSUME NEW u \in SignIn, u # s \/ held[s] \notin db
          PROVE  Under(u)' \subseteq Under(u)
      <3> SUFFICES ASSUME NEW q \in Under(u)' PROVE q \in Under(u)
        OBVIOUS
      <3>1. q # r
        BY <1>3, <2>1, <2>2 DEF IInv, TypeOK, Under, Refresh
      <3>2. QED
        BY <1>3, <3>1 DEF IInv, TypeOK, Under, Refresh
    <2>3. QED
      BY <2>1, <2>2, Closes
  <1>4. ASSUME UNCHANGED issued, db' \subseteq db,
               \A q \in Request :
                  req'[q].pc \in {"exchange", "accepted"} =>
                      /\ req[q].pc \in {"exchange", "accepted"}
                      /\ req'[q].token = req[q].token
        PROVE  Abstract!Next
    <2>1. \A s \in SignIn : Under(s)' \subseteq Under(s)
      BY <1>4 DEF Under
    <2>2. QED
      BY <1>4, <2>1, Closes
  <1>5. ASSUME NEW s \in SignIn,
               \/ Authorize(s) \/ Callback(s) \/ CallbackFails(s)
               \/ \E arrives \in BOOLEAN : Redeem(s, arrives)
        PROVE  Abstract!Next
    <2>1. UNCHANGED <<issued, db, req>>
      BY <1>5 DEF Authorize, Callback, CallbackFails, Redeem
    <2>2. QED
      BY <1>4, <2>1
  <1>6. ASSUME NEW r \in Request,
               \/ AzureAccepts(r) \/ AzureRefuses(r) \/ AzureFails(r)
               \/ Drop(r) \/ Deliver(r) \/ Lose(r)
        PROVE  Abstract!Next
    <2>1. UNCHANGED issued /\ db' \subseteq db
      BY <1>6 DEF AzureAccepts, AzureRefuses, AzureFails, Drop, Deliver, Lose
    <2>2. \A q \in Request :
             req'[q].pc \in {"exchange", "accepted"} =>
                 /\ req[q].pc \in {"exchange", "accepted"}
                 /\ req'[q].token = req[q].token
      BY <1>6 DEF IInv, TypeOK, Req, Idle,
                  AzureAccepts, AzureRefuses, AzureFails, Drop, Deliver, Lose
    <2>3. QED
      BY <1>4, <2>1, <2>2
  <1>7. CASE \/ \E s \in SignIn : Revoke(s)
             \/ Tick
             \/ \E lost \in SUBSET db : Restart(lost)
    <2>1. UNCHANGED issued /\ db' \subseteq db
      BY <1>7 DEF Revoke, Tick, Restart
    <2>2. UNCHANGED req \/ req' = [r \in Request |-> Idle]
      BY <1>7 DEF Revoke, Tick, Restart
    <2>3. \A q \in Request : req'[q] = req[q] \/ req'[q].pc = "idle"
      BY <2>2 DEF Idle
    <2>4. QED
      BY <1>4, <2>1, <2>3
  <1>8. CASE UNCHANGED vars
    <2>1. UNCHANGED <<Status, issued>>
      BY <1>8 DEF vars, Status, Under
    <2>2. QED
      BY <2>1 DEF Abstract!vars
  <1>9. QED
    BY <1>1, <1>2, <1>3, <1>5, <1>6, <1>7, <1>8 DEF Next, SignInStep, RequestStep

(* The proxy keeps what SignIns promises: a sign-in is opened once, renewed*)
(* only while something of it is kept or under way, and closed for good.   *)
THEOREM Implements == Spec => ImplementsSignIns
  <1>1. Init => Abstract!Init
    BY DEF Init, Abstract!Init, Status
  <1>2. QED
    BY <1>1, Inductive, StepImplements, PTL
       DEF Spec, ImplementsSignIns, Abstract!Spec

-----------------------------------------------------------------------------
(* Why nobody is signed out without a cause: what a client holds, or is    *)
(* about to be given, is answered from the database or from the cache, and *)
(* so is what the cache answers, for at least as long.                     *)
Backed(t) == t \in db \/ Fresh(t)
Followed(t) ==
    LET next == cache[t].answer IN
    \/ next \in db
    \/ Fresh(next) /\ cache[next].age <= cache[t].age

Excused ==
    /\ \A s \in SignIn :
           /\ login[s] = "code" => <<s, 1>> \in db \/ cause[s] # {}
           /\ login[s] = "in" => Backed(held[s]) \/ cause[s] # {}
    /\ \A t \in Token : Fresh(t) => Followed(t) \/ cause[Owner(t)] # {}
    /\ \A r \in Request :
           /\ req[r].pc # "idle" => login[Owner(req[r].token)] \in {"in", "out"}
           /\ req[r].pc = "answer" =>
                  \/ req[r].answer # Invalid /\ Backed(req[r].answer)
                  \/ cause[Owner(req[r].token)] # {}

\* What is blamed on a sign-in stays.
LEMMA CauseGrows ==
    ASSUME IInv, [Next]_vars, NEW s \in SignIn
    PROVE  cause[s] \subseteq cause'[s]
  <1>1. \A S, why : cause[s] \subseteq Blame(S, why)[s]
    BY DEF Blame
  <1>2. ASSUME NEW u \in SignIn, SignInStep(u) \/ Revoke(u)
        PROVE  cause[s] \subseteq cause'[s]
    BY <1>1, <1>2 DEF SignInStep, Authorize, Callback, CallbackFails, CallbackDone, Redeem, Revoke
  <1>3. ASSUME NEW r \in Request, RequestStep(r)
        PROVE  cause[s] \subseteq cause'[s]
    BY <1>1, <1>3 DEF RequestStep, AzureAccepts, AzureRefuses, AzureFails, Rotate, Drop, Deliver, Lose
  <1>4. QED
    BY <1>1, <1>2, <1>3 DEF Next, Refresh, Tick, Restart, vars

\* What is held, cached and answered, with the sign-in it belongs to.
LEMMA HeldFacts ==
    ASSUME IInv
    PROVE  /\ \A s \in SignIn : login[s] = "in" =>
                  held[s] \in Token /\ Owner(held[s]) = s
           /\ \A t \in Token : Fresh(t) =>
                  /\ cache[t].answer \in Token /\ Owner(cache[t].answer) = Owner(t)
                  /\ cache[t].age \in Nat
           /\ \A r \in Request : req[r].pc # "idle" =>
                  req[r].token \in Token /\ Owner(req[r].token) \in SignIn
           /\ \A r \in Request : req[r].pc = "answer" /\ req[r].answer # Invalid =>
                  req[r].answer \in Token /\ Owner(req[r].answer) = Owner(req[r].token)
  <1>1. \A s \in SignIn : login[s] = "in" => held[s] \in Token /\ Owner(held[s]) = s
    BY DEF IInv, TypeOK, Owned, Begun
  <1>2. ASSUME NEW t \in Token, Fresh(t)
        PROVE  /\ cache[t].answer \in Token /\ Owner(cache[t].answer) = Owner(t)
               /\ cache[t].age \in Nat
    BY <1>2, BoundsAssumption DEF IInv, TypeOK, Owned, Fresh
  <1>3. \A r \in Request : req[r].pc # "idle" =>
            req[r].token \in Token /\ Owner(req[r].token) \in SignIn
    BY TokenFacts DEF IInv, Owned
  <1>4. ASSUME NEW r \in Request, req[r].pc = "answer", req[r].answer # Invalid
        PROVE  req[r].answer \in Token /\ Owner(req[r].answer) = Owner(req[r].token)
    <2>1. req[r].answer \in Token \cup {NoToken, Invalid} /\ req[r].answer # NoToken
      BY <1>4 DEF IInv, TypeOK, Owned, Req
    <2>2. QED
      BY <1>4, <2>1 DEF IInv, Owned
  <1>5. QED
    BY <1>1, <1>2, <1>3, <1>4

(* A step that leaves the answers kept as they are, and removes tokens     *)
(* only of sign-ins it blames, leaves every excuse in place.               *)
LEMMA ExcusesStay ==
    ASSUME IInv, Excused, [Next]_vars,
           \A t \in Token : Fresh(t) <=> Fresh(t)',
           \A t \in Token : Fresh(t) => cache'[t] = cache[t],
           \A t \in db \ db' : cause'[Owner(t)] # {}
    PROVE  /\ \A t \in Token : Backed(t) => Backed(t)' \/ cause'[Owner(t)] # {}
           /\ \A t \in Token : Fresh(t)' => Followed(t)' \/ cause'[Owner(t)] # {}
  <1>1. ASSUME NEW t \in Token, Backed(t)
        PROVE  Backed(t)' \/ cause'[Owner(t)] # {}
    BY <1>1 DEF Backed
  <1>2. ASSUME NEW t \in Token, Fresh(t)'
        PROVE  Followed(t)' \/ cause'[Owner(t)] # {}
    <2>1. Fresh(t) /\ cache'[t] = cache[t]
      BY <1>2
    <2>2. cache[t].answer \in Token /\ Owner(cache[t].answer) = Owner(t)
      BY <2>1, HeldFacts
    <2>3. Owner(t) \in SignIn
      BY TokenFacts
    <2>4. CASE cause[Owner(t)] # {}
      BY <2>3, <2>4, CauseGrows
    <2>5. CASE cache[t].answer \in db
      BY <2>1, <2>2, <2>5 DEF Followed
    <2>6. CASE Fresh(cache[t].answer) /\ cache[cache[t].answer].age <= cache[t].age
      BY <2>1, <2>2, <2>6 DEF Followed
    <2>7. QED
      BY <2>1, <2>4, <2>5, <2>6 DEF Excused, Followed
  <1>3. QED
    BY <1>1, <1>2

(* A step that only moves the handshakes of sign-ins, or a request.        *)
LEMMA SignInExcused ==
    ASSUME IInv, Excused, NEW s \in SignIn, SignInStep(s), [Next]_vars
    PROVE  Excused'
  <1>1. UNCHANGED <<cache, req>> /\ db \subseteq db'
    BY DEF SignInStep, Authorize, Callback, CallbackFails, CallbackDone, Redeem
  <1>2. /\ \A t \in Token : Fresh(t) <=> Fresh(t)'
        /\ \A t \in Token : Fresh(t) => cache'[t] = cache[t]
    BY <1>1 DEF Fresh
  <1>3. /\ \A t \in Token : Backed(t) => Backed(t)' \/ cause'[Owner(t)] # {}
        /\ \A t \in Token : Fresh(t)' => Followed(t)' \/ cause'[Owner(t)] # {}
    BY <1>1, <1>2, ExcusesStay
  <1>4. \A u \in SignIn \ {s} : login'[u] = login[u] /\ held'[u] = held[u]
    BY DEF SignInStep, Authorize, Callback, CallbackFails, CallbackDone, Redeem, IInv, TypeOK
  <1>5. ASSUME NEW u \in SignIn
        PROVE  /\ login'[u] = "code" => <<u, 1>> \in db' \/ cause'[u] # {}
               /\ login'[u] = "in" => Backed(held[u])' \/ cause'[u] # {}
    <2>1. CASE u # s \/ (login'[u] = login[u] /\ held'[u] = held[u])
      <3>1. login'[u] = login[u] /\ held'[u] = held[u]
        BY <1>4, <2>1
      <3>2. login[u] = "in" => held[u] \in Token /\ Owner(held[u]) = u
        BY HeldFacts
      <3>3. login[u] = "in" => Backed(held[u])' \/ cause'[u] # {}
        BY <1>3, <3>1, <3>2, CauseGrows DEF Excused, Backed, Fresh
      <3>4. QED
        BY <1>1, <3>1, <3>3, CauseGrows DEF Excused
    <2>2. CASE u = s /\ \E kept \in BOOLEAN : CallbackDone(s, kept)
      <3>1. PICK kept \in BOOLEAN : CallbackDone(s, kept)
        BY <2>2
      <3>2. login'[s] = "code"
        BY <3>1 DEF CallbackDone, IInv, TypeOK
      <3>3. kept => <<s, 1>> \in db'
        BY <3>1 DEF CallbackDone
      <3>4. ~kept => cause'[s] # {}
        BY <3>1 DEF CallbackDone, Blame
      <3>5. QED
        BY <2>2, <3>2, <3>3, <3>4
    <2>3. CASE u = s /\ \E arrives \in BOOLEAN : Redeem(s, arrives)
      <3>1. login[s] = "code" /\ (login'[s] = "in" => held'[s] = <<s, 1>>) /\ login'[s] # "code"
        BY <2>3 DEF Redeem, IInv, TypeOK
      <3>2. <<s, 1>> \in db' \/ cause'[s] # {}
        BY <1>1, <3>1, CauseGrows DEF Excused
      <3>3. QED
        BY <2>3, <3>1, <3>2 DEF Backed
    <2>4. CASE u = s /\ (Authorize(s) \/ Callback(s) \/ CallbackFails(s))
      <3>1. login'[s] \notin {"code", "in"}
        BY <2>4 DEF Authorize, Callback, CallbackFails, IInv, TypeOK
      <3>2. QED
        BY <2>4, <3>1
    <2>5. QED
      BY <2>1, <2>2, <2>3, <2>4 DEF SignInStep
  <1>6. \A r \in Request : req[r].pc # "idle" => login'[Owner(req[r].token)] \in {"in", "out"}
    <2>1. login[s] \notin {"in", "out"}
      BY DEF SignInStep, Authorize, Callback, CallbackFails, CallbackDone, Redeem
    <2>2. QED
      BY <1>4, <2>1, HeldFacts DEF Excused
  <1>7. ASSUME NEW r \in Request, req[r].pc = "answer"
        PROVE  \/ req[r].answer # Invalid /\ Backed(req[r].answer)'
               \/ cause'[Owner(req[r].token)] # {}
    <2>1. /\ Owner(req[r].token) \in SignIn
          /\ req[r].answer # Invalid =>
                req[r].answer \in Token /\ Owner(req[r].answer) = Owner(req[r].token)
      BY <1>7, HeldFacts
    <2>2. (req[r].answer # Invalid /\ Backed(req[r].answer)) \/ cause[Owner(req[r].token)] # {}
      BY <1>7 DEF Excused
    <2>3. req[r].answer # Invalid /\ Backed(req[r].answer) =>
              Backed(req[r].answer)' \/ cause'[Owner(req[r].token)] # {}
      BY <1>1, <1>3, <2>1 DEF Backed, Fresh
    <2>4. QED
      BY <1>1, <2>1, <2>2, <2>3, CauseGrows DEF Backed, Fresh
  <1>8. QED
    BY <1>1, <1>3, <1>5, <1>6, <1>7 DEF Excused, Backed, Fresh, Followed

(* A step of requests that changes no sign-in: what it answers must be     *)
(* backed, or the sign-in to blame.                                        *)
LEMMA RequestExcused ==
    ASSUME IInv, Excused, [Next]_vars, NEW r \in Request,
           UNCHANGED <<login, held>>,
           \A q \in Request \ {r} : req'[q] = req[q],
           req'[r].pc # "idle" => login[Owner(req'[r].token)] \in {"in", "out"},
           req'[r].pc = "answer" =>
               \/ req'[r].answer # Invalid /\ Backed(req[r].answer)'
               \/ cause'[Owner(req'[r].token)] # {},
           \A t \in Token : Backed(t) => Backed(t)' \/ cause'[Owner(t)] # {},
           \A t \in Token : Fresh(t)' => Followed(t)' \/ cause'[Owner(t)] # {},
           \A s \in SignIn : login[s] = "code" /\ <<s, 1>> \in db => <<s, 1>> \in db'
    PROVE  Excused'
  <1>1. ASSUME NEW s \in SignIn
        PROVE  /\ login'[s] = "code" => <<s, 1>> \in db' \/ cause'[s] # {}
               /\ login'[s] = "in" => Backed(held[s])' \/ cause'[s] # {}
    <2>1. login[s] = "in" => held[s] \in Token /\ Owner(held[s]) = s
      BY HeldFacts
    <2>2. login[s] = "in" => Backed(held[s])' \/ cause'[s] # {}
      BY <2>1, CauseGrows DEF Excused, Backed, Fresh
    <2>3. login[s] = "code" => <<s, 1>> \in db' \/ cause'[s] # {}
      BY CauseGrows DEF Excused
    <2>4. QED
      BY <2>2, <2>3
  <1>2. ASSUME NEW q \in Request
        PROVE  /\ req'[q].pc # "idle" => login'[Owner(req'[q].token)] \in {"in", "out"}
               /\ req'[q].pc = "answer" =>
                      \/ req'[q].answer # Invalid /\ Backed(req[q].answer)'
                      \/ cause'[Owner(req'[q].token)] # {}
    <2>1. CASE q = r
      BY <2>1 DEF Backed, Fresh
    <2>2. CASE q # r
      <3>1. req'[q] = req[q]
        BY <2>2
      <3>2. req[q].pc # "idle" => login[Owner(req[q].token)] \in {"in", "out"}
        BY DEF Excused
      <3>3. ASSUME req[q].pc = "answer"
            PROVE  \/ req[q].answer # Invalid /\ Backed(req[q].answer)'
                   \/ cause'[Owner(req[q].token)] # {}
        <4>1. /\ Owner(req[q].token) \in SignIn
              /\ req[q].answer # Invalid =>
                    req[q].answer \in Token /\ Owner(req[q].answer) = Owner(req[q].token)
          BY <3>3, HeldFacts
        <4>2. \/ req[q].answer # Invalid /\ Backed(req[q].answer)
              \/ cause[Owner(req[q].token)] # {}
          BY <3>3 DEF Excused
        <4>3. CASE cause[Owner(req[q].token)] # {}
          BY <4>1, <4>3, CauseGrows
        <4>4. CASE req[q].answer # Invalid /\ Backed(req[q].answer)
          BY <3>1, <4>1, <4>4 DEF Backed, Fresh
        <4>5. QED
          BY <4>2, <4>3, <4>4
      <3>4. QED
        BY <3>1, <3>2, <3>3
    <2>3. QED
      BY <2>1, <2>2
  <1>3. QED
    BY <1>1, <1>2 DEF Excused, Backed, Fresh, Followed

LEMMA RefreshExcused ==
    ASSUME IInv, Excused, [Next]_vars, NEW r \in Request, NEW s \in SignIn, Refresh(r, s)
    PROVE  Excused'
  <1>1. /\ \A t \in Token : Fresh(t) <=> Fresh(t)'
        /\ \A t \in Token : Fresh(t) => cache'[t] = cache[t]
    BY DEF Refresh, Fresh
  <1>2. UNCHANGED <<login, held, db, cause>>
    BY DEF Refresh
  <1>3. /\ \A t \in Token : Backed(t) => Backed(t)' \/ cause'[Owner(t)] # {}
        /\ \A t \in Token : Fresh(t)' => Followed(t)' \/ cause'[Owner(t)] # {}
    BY <1>1, <1>2, ExcusesStay
  <1>4. login[s] = "in" /\ held[s] \in Token /\ Owner(held[s]) = s
    BY HeldFacts DEF Refresh
  <1>5. /\ \A q \in Request \ {r} : req'[q] = req[q]
        /\ req'[r] = [token |-> held[s],
                      pc |-> IF held[s] \in db THEN "exchange" ELSE "answer",
                      answer |-> IF held[s] \in db THEN NoToken
                                 ELSE IF Fresh(held[s]) THEN cache[held[s]].answer
                                 ELSE Invalid]
    BY DEF Refresh, IInv, TypeOK
  <1>6. ASSUME req'[r].pc = "answer"
        PROVE  \/ req'[r].answer # Invalid /\ Backed(req[r].answer)'
               \/ cause'[Owner(req'[r].token)] # {}
    <2>1. held[s] \notin db /\ Owner(req'[r].token) = s
      BY <1>4, <1>5, <1>6
    <2>2. CASE Fresh(held[s])
      <3>1. req'[r].answer = cache[held[s]].answer
        BY <1>5, <2>1, <2>2
      <3>2. cache[held[s]].answer \in Token /\ cache[held[s]].answer # Invalid
        BY <1>4, <2>2, HeldFacts, TokenFacts
      <3>3. Followed(held[s]) \/ cause[s] # {}
        BY <1>4, <2>2 DEF Excused
      <3>4. CASE cause[s] # {}
        BY <1>2, <2>1, <3>4
      <3>5. CASE Followed(held[s])
        <4>1. PICK n \in Token : n = cache[held[s]].answer
          BY <3>2
        <4>2. Backed(n)
          BY <3>5, <4>1 DEF Followed, Backed
        <4>3. Backed(n)'
          BY <1>1, <1>2, <4>2 DEF Backed
        <4>4. req'[r].answer = n
          BY <3>1, <4>1
        <4>5. QED
          BY <3>2, <4>1, <4>3, <4>4 DEF Backed, Fresh
      <3>6. QED
        BY <3>3, <3>4, <3>5
    <2>3. CASE ~Fresh(held[s])
      BY <1>2, <1>4, <2>1, <2>3 DEF Excused, Backed
    <2>4. QED
      BY <2>2, <2>3
  <1>7. req'[r].pc # "idle" => login[Owner(req'[r].token)] \in {"in", "out"}
    BY <1>4, <1>5
  <1>8. QED
    BY <1>2, <1>3, <1>5, <1>6, <1>7, RequestExcused

LEMMA QuietRequestExcused ==
    ASSUME IInv, Excused, [Next]_vars, NEW r \in Request,
           AzureAccepts(r) \/ AzureRefuses(r) \/ AzureFails(r) \/ Lose(r)
    PROVE  Excused'
  <1>1. UNCHANGED <<login, held, db, cache, cause>>
    BY DEF AzureAccepts, AzureRefuses, AzureFails, Lose
  <1>2. /\ \A t \in Token : Fresh(t) <=> Fresh(t)'
        /\ \A t \in Token : Fresh(t) => cache'[t] = cache[t]
    BY <1>1 DEF Fresh
  <1>3. /\ \A t \in Token : Backed(t) => Backed(t)' \/ cause'[Owner(t)] # {}
        /\ \A t \in Token : Fresh(t)' => Followed(t)' \/ cause'[Owner(t)] # {}
    BY <1>1, <1>2, ExcusesStay
  <1>4. /\ \A q \in Request \ {r} : req'[q] = req[q]
        /\ req'[r].pc # "answer"
        /\ req'[r].pc # "idle" => req[r].pc # "idle" /\ req'[r].token = req[r].token
    BY DEF AzureAccepts, AzureRefuses, AzureFails, Lose, IInv, TypeOK, Req, Idle
  <1>5. req'[r].pc # "idle" => login[Owner(req'[r].token)] \in {"in", "out"}
    BY <1>4 DEF Excused
  <1>6. QED
    BY <1>1, <1>3, <1>4, <1>5, RequestExcused

LEMMA DropExcused ==
    ASSUME IInv, Excused, [Next]_vars, NEW r \in Request, Drop(r)
    PROVE  Excused'
  <1> DEFINE s == Owner(req[r].token)
  <1>1. UNCHANGED <<login, held, cache>> /\ db' = db \ {req[r].token}
    BY DEF Drop
  <1>2. req[r].token \in Token /\ s \in SignIn /\ login[s] \in {"in", "out"}
    BY HeldFacts DEF Drop, Excused
  <1>3. cause'[s] # {}
    BY <1>2 DEF Drop, Blame
  <1>4. /\ \A t \in Token : Fresh(t) <=> Fresh(t)'
        /\ \A t \in Token : Fresh(t) => cache'[t] = cache[t]
    BY <1>1 DEF Fresh
  <1>5. /\ \A t \in Token : Backed(t) => Backed(t)' \/ cause'[Owner(t)] # {}
        /\ \A t \in Token : Fresh(t)' => Followed(t)' \/ cause'[Owner(t)] # {}
    BY <1>1, <1>3, <1>4, ExcusesStay
  <1>6. /\ \A q \in Request \ {r} : req'[q] = req[q]
        /\ req'[r].token = req[r].token
    BY DEF Drop, IInv, TypeOK, Req
  <1>7. \A u \in SignIn : login[u] = "code" => <<u, 1>> # req[r].token
    BY <1>2 DEF Owner
  <1>8. QED
    BY <1>1, <1>2, <1>3, <1>5, <1>6, <1>7, RequestExcused

LEMMA RotateExcused ==
    ASSUME IInv, Excused, [Next]_vars, NEW r \in Request, Rotate(r)
    PROVE  Excused'
  <1>0. PICK t \in Token, s \in SignIn : t = req[r].token /\ s = Owner(t)
    BY RotateFacts
  <1> DEFINE next == <<s, issued[s] + 1>>
  <1>1. next \in Token /\ login[s] \in {"in", "out"}
    BY <1>0, RotateFacts DEF Rotate, Excused
  <1>2. /\ UNCHANGED <<login, held, cause>>
        /\ db' = (db \ {t}) \cup {next}
        /\ cache' = [cache EXCEPT ![t] = [answer |-> next, age |-> 0]]
    BY <1>0 DEF Rotate
  <1>3. /\ \A q \in Request \ {r} : req'[q] = req[q]
        /\ req'[r].token = t /\ req'[r].answer = next
    BY <1>0 DEF Rotate, IInv, TypeOK, Req
  <1>4. /\ cache'[t] = [answer |-> next, age |-> 0]
        /\ \A u \in Token \ {t} : cache'[u] = cache[u]
    BY <1>1, <1>2 DEF IInv, TypeOK
  <1>5. Fresh(t)'
    <2>1. next # NoToken
      BY <1>1, TokenFacts
    <2>2. QED
      BY <1>4, <2>1, BoundsAssumption DEF Fresh, NotCached
  <1>6. \A u \in Token \ {t} : Fresh(u) <=> Fresh(u)'
    BY <1>4 DEF Fresh
  <1>7. \A u \in Token : Backed(u) => Backed(u)'
    BY <1>2, <1>5, <1>6 DEF Backed
  <1>8. ASSUME NEW u \in Token, Fresh(u)'
        PROVE  Followed(u)' \/ cause'[Owner(u)] # {}
    <2>1. CASE u = t
      BY <1>2, <1>4, <2>1 DEF Followed
    <2>2. CASE u # t
      <3>1. Fresh(u) /\ cache'[u] = cache[u]
        BY <1>4, <1>6, <1>8, <2>2
      <3>2. PICK n \in Token : n = cache[u].answer
        BY <3>1, HeldFacts
      <3>3. cache[u].age \in Nat
        BY <3>1, HeldFacts
      <3>4. CASE cause[Owner(u)] # {}
        BY <1>2, <3>4
      <3>5. CASE n = t
        <4>1. Fresh(n)' /\ cache'[n].age <= cache'[u].age
          BY <1>4, <1>5, <3>1, <3>3, <3>5
        <4>2. QED
          BY <3>1, <3>2, <4>1 DEF Followed
      <3>6. CASE n # t /\ n \in db
        <4>1. n \in db'
          BY <1>2, <3>6
        <4>2. QED
          BY <3>1, <3>2, <4>1 DEF Followed
      <3>7. CASE n # t /\ Fresh(n) /\ cache[n].age <= cache[u].age
        <4>1. Fresh(n)' /\ cache'[n].age <= cache'[u].age
          BY <1>4, <1>6, <3>1, <3>7
        <4>2. QED
          BY <3>1, <3>2, <4>1 DEF Followed
      <3>8. QED
        BY <3>1, <3>2, <3>4, <3>5, <3>6, <3>7 DEF Excused, Followed
    <2>3. QED
      BY <2>1, <2>2
  <1>9. next # Invalid /\ next \in db'
    BY <1>1, <1>2, TokenFacts
  <1>10. req'[r].answer # Invalid /\ Backed(req[r].answer)'
    BY <1>3, <1>9 DEF Backed
  <1>11. \A u \in SignIn : login[u] = "code" => <<u, 1>> # t
    BY <1>0, <1>1 DEF Owner
  <1>12. QED
    BY <1>0, <1>1, <1>2, <1>3, <1>7, <1>8, <1>10, <1>11, RequestExcused

LEMMA DeliverExcused ==
    ASSUME IInv, Excused, [Next]_vars, NEW r \in Request, Deliver(r)
    PROVE  Excused'
  <1> DEFINE s == Owner(req[r].token)
  <1>1. UNCHANGED <<db, cache, cause>>
    BY DEF Deliver
  <1>2. /\ \A t \in Token : Fresh(t) <=> Fresh(t)'
        /\ \A t \in Token : Fresh(t) => cache'[t] = cache[t]
    BY <1>1 DEF Fresh
  <1>3. \A t \in Token : Fresh(t)' => Followed(t)' \/ cause'[Owner(t)] # {}
    BY <1>1, <1>2, ExcusesStay
  <1>4. \A q \in Request : req'[q] = req[q] \/ req'[q].pc = "idle"
    BY DEF Deliver, Idle, IInv, TypeOK
  <1>5. s \in SignIn /\ login[s] \in {"in", "out"} /\ req[r].pc = "answer"
    BY HeldFacts DEF Deliver, Excused
  <1>6. /\ \A u \in SignIn \ {s} : login'[u] = login[u] /\ held'[u] = held[u]
        /\ \/ login'[s] = login[s] /\ held'[s] = held[s]
           \/ login'[s] = login[s] /\ held'[s] = req[r].answer /\ req[r].answer # Invalid
           \/ login'[s] = "out"
    BY <1>5 DEF Deliver, IInv, TypeOK
  <1>7. ASSUME NEW u \in SignIn
        PROVE  /\ login'[u] = "code" => <<u, 1>> \in db' \/ cause'[u] # {}
               /\ login'[u] = "in" => Backed(held[u])' \/ cause'[u] # {}
    <2>1. CASE login'[u] = login[u] /\ held'[u] = held[u]
      BY <1>1, <2>1 DEF Excused, Backed, Fresh
    <2>2. CASE u = s /\ login'[s] = login[s] /\ held'[s] = req[r].answer /\ req[r].answer # Invalid
      <3>1. Backed(req[r].answer) \/ cause[s] # {}
        BY <1>5 DEF Excused
      <3>2. QED
        BY <1>1, <1>5, <2>2, <3>1 DEF Backed, Fresh
    <2>3. CASE login'[u] = "out"
      BY <2>3
    <2>4. QED
      BY <1>6, <2>1, <2>2, <2>3
  <1>8. \A u \in SignIn : login[u] \in {"in", "out"} => login'[u] \in {"in", "out"}
    BY <1>6
  <1>9. ASSUME NEW q \in Request
        PROVE  /\ req'[q].pc # "idle" => login'[Owner(req'[q].token)] \in {"in", "out"}
               /\ req'[q].pc = "answer" =>
                      \/ req'[q].answer # Invalid /\ Backed(req[q].answer)'
                      \/ cause'[Owner(req'[q].token)] # {}
    BY <1>1, <1>4, <1>8, HeldFacts DEF Excused, Backed, Fresh
  <1>10. QED
    BY <1>3, <1>7, <1>9 DEF Excused, Backed, Fresh, Followed

LEMMA TickExcused ==
    ASSUME IInv, Excused, [Next]_vars, Tick
    PROVE  Excused'
  <1>1. UNCHANGED <<login, held, db, req>>
    BY DEF Tick
  <1>2. ASSUME NEW t \in Token
        PROVE  cache'[t] = IF Fresh(t) THEN [cache[t] EXCEPT !.age = @ + 1] ELSE cache[t]
    BY DEF Tick
  <1>3. ASSUME NEW t \in Token, Fresh(t), cache[t].age < CacheTTL
        PROVE  /\ Fresh(t)' /\ cache'[t].age = cache[t].age + 1
               /\ cache'[t].answer = cache[t].answer
    <2>1. cache[t] \in [answer : Token \cup {NoToken}, age : 0 .. CacheTTL + 1]
      BY DEF IInv, TypeOK
    <2>2. cache[t].answer # NoToken /\ cache[t].age \in Nat
      BY <1>3, HeldFacts, TokenFacts
    <2>3. cache'[t].answer = cache[t].answer /\ cache'[t].age = cache[t].age + 1
      BY <1>2, <1>3, <2>1
    <2>4. QED
      BY <1>3, <2>2, <2>3, BoundsAssumption DEF Fresh, NotCached
  <1>4. ASSUME NEW t \in Token, Fresh(t), Needed(t)
        PROVE  Fresh(t)' \/ cause'[Owner(t)] # {}
    <2>1. CASE cache[t].age < CacheTTL
      BY <1>3, <1>4, <2>1
    <2>2. CASE cache[t].age = CacheTTL
      BY <1>4, <2>2, TokenFacts DEF Tick, Blame
    <2>3. QED
      BY <1>4, <2>1, <2>2, HeldFacts, BoundsAssumption DEF Fresh
  <1>5. ASSUME NEW t \in Token, Fresh(t)'
        PROVE  Fresh(t) /\ cache[t].age < CacheTTL
    <2>1. CASE ~Fresh(t)
      BY <1>2, <1>5, <2>1 DEF Fresh
    <2>2. CASE Fresh(t)
      <3>1. cache[t] \in [answer : Token \cup {NoToken}, age : 0 .. CacheTTL + 1]
        BY DEF IInv, TypeOK
      <3>2. cache'[t].age = cache[t].age + 1
        BY <1>2, <2>2, <3>1
      <3>3. QED
        BY <1>5, <2>2, <3>2, HeldFacts, BoundsAssumption DEF Fresh
    <2>3. QED
      BY <2>1, <2>2
  <1>6. ASSUME NEW t \in Token, Fresh(t)'
        PROVE  Followed(t)' \/ cause'[Owner(t)] # {}
    <2>1. Fresh(t) /\ cache[t].age < CacheTTL
      BY <1>5, <1>6
    <2>2. cache'[t].age = cache[t].age + 1 /\ cache'[t].answer = cache[t].answer
      BY <1>3, <2>1
    <2>3. PICK n \in Token : n = cache[t].answer
      BY <2>1, HeldFacts
    <2>4. CASE cause[Owner(t)] # {}
      BY <2>4, TokenFacts, CauseGrows
    <2>5. CASE n \in db
      BY <1>1, <2>2, <2>3, <2>5 DEF Followed
    <2>6. CASE Fresh(n) /\ cache[n].age <= cache[t].age
      <3>1. cache[n].age \in Nat /\ cache[t].age \in Nat
        BY <2>1, <2>6, HeldFacts
      <3>2. Fresh(n)' /\ cache'[n].age = cache[n].age + 1
        BY <1>3, <2>1, <2>6, <3>1, BoundsAssumption
      <3>3. QED
        BY <2>2, <2>3, <2>6, <3>1, <3>2 DEF Followed
    <2>7. QED
      BY <2>1, <2>3, <2>4, <2>5, <2>6 DEF Excused, Followed
  <1>7. ASSUME NEW s \in SignIn
        PROVE  /\ login'[s] = "code" => <<s, 1>> \in db' \/ cause'[s] # {}
               /\ login'[s] = "in" => Backed(held[s])' \/ cause'[s] # {}
    <2>1. login'[s] = "code" => <<s, 1>> \in db' \/ cause'[s] # {}
      BY <1>1, CauseGrows DEF Excused
    <2>2. ASSUME login[s] = "in"
          PROVE  held[s] \in db' \/ Fresh(held[s])' \/ cause'[s] # {}
      <3>1. PICK t \in Token : t = held[s] /\ Owner(t) = s
        BY <2>2, HeldFacts
      <3>2. Needed(t)
        BY <3>1 DEF Needed
      <3>3. Fresh(t) => Fresh(t)' \/ cause'[s] # {}
        BY <1>4, <3>1, <3>2
      <3>4. t \in db \/ Fresh(t) \/ cause[s] # {}
        BY <2>2, <3>1 DEF Excused, Backed
      <3>5. t \in db' \/ Fresh(t)' \/ cause'[s] # {}
        BY <1>1, <3>3, <3>4, CauseGrows
      <3>6. QED
        BY <1>1, <3>1, <3>5 DEF Fresh
    <2>3. QED
      BY <1>1, <2>1, <2>2 DEF Backed, Fresh
  <1>8. ASSUME NEW r \in Request, req[r].pc = "answer"
        PROVE  \/ req[r].answer # Invalid /\ Backed(req[r].answer)'
               \/ cause'[Owner(req[r].token)] # {}
    <2>1. Owner(req[r].token) \in SignIn
      BY <1>8, HeldFacts
    <2>2. CASE cause[Owner(req[r].token)] # {}
      BY <2>1, <2>2, CauseGrows
    <2>3. CASE req[r].answer # Invalid /\ Backed(req[r].answer)
      <3>1. PICK t \in Token : t = req[r].answer /\ Owner(t) = Owner(req[r].token)
        BY <1>8, <2>3, HeldFacts
      <3>2. Needed(t)
        BY <3>1 DEF Needed
      <3>3. Fresh(t) => Fresh(t)' \/ cause'[Owner(t)] # {}
        BY <1>4, <3>2
      <3>4. t \in db' \/ Fresh(t)' \/ cause'[Owner(t)] # {}
        BY <1>1, <2>3, <3>1, <3>3 DEF Backed
      <3>5. QED
        BY <1>1, <2>3, <3>1, <3>4 DEF Backed, Fresh
    <2>4. QED
      BY <1>8, <2>2, <2>3 DEF Excused
  <1>9. QED
    BY <1>1, <1>6, <1>7, <1>8 DEF Excused, Backed, Fresh, Followed

LEMMA RestartExcused ==
    ASSUME IInv, Excused, [Next]_vars, NEW lost \in SUBSET db, Restart(lost)
    PROVE  Excused'
  <1>1. UNCHANGED held /\ db' = db \ lost
    BY DEF Restart
  <1>2. \A t \in Token : ~Fresh(t)'
    BY DEF Restart, Fresh
  <1>3. \A r \in Request : req'[r].pc = "idle"
    BY DEF Restart, Idle
  <1>4. \A s \in SignIn : login'[s] # "code" /\ (login'[s] = "in" => login[s] = "in")
    BY DEF Restart
  <1>5. ASSUME NEW s \in SignIn, login[s] = "in"
        PROVE  held[s] \in db' \/ cause'[s] # {}
    <2>1. held[s] \in Token /\ Owner(held[s]) = s
      BY <1>5, HeldFacts
    <2>2. CASE held[s] \in lost \/ held[s] \notin db
      BY <2>1, <2>2 DEF Restart, Blame
    <2>3. CASE held[s] \in db \ lost
      BY <1>1, <2>3
    <2>4. QED
      BY <2>2, <2>3
  <1>6. QED
    BY <1>1, <1>2, <1>3, <1>4, <1>5 DEF Excused, Backed

LEMMA Unchanged ==
    ASSUME Excused, UNCHANGED <<login, held, db, cache, req, cause>>
    PROVE  Excused'
  BY DEF Excused, Backed, Fresh, Followed

LEMMA NextExcused == IInv /\ Excused /\ [Next]_vars => Excused'
  <1> SUFFICES ASSUME IInv, Excused, [Next]_vars PROVE Excused'
    OBVIOUS
  <1>1. ASSUME NEW s \in SignIn, SignInStep(s) \/ Revoke(s)
        PROVE  Excused'
    BY <1>1, SignInExcused, Unchanged DEF Revoke
  <1>2. ASSUME NEW r \in Request, RequestStep(r)
        PROVE  Excused'
    BY <1>2, QuietRequestExcused, RotateExcused, DropExcused, DeliverExcused DEF RequestStep
  <1>3. CASE UNCHANGED vars
    BY <1>3, Unchanged DEF vars
  <1>4. QED
    BY <1>1, <1>2, <1>3, RefreshExcused, TickExcused, RestartExcused DEF Next

(* What signs a client out is an answer "invalid": it is the answer only   *)
(* to a token that neither the database nor the cache knows any more, and  *)
(* for that there is a cause.                                              *)
LEMMA SignOutStep ==
    ASSUME IInv, Excused, [Next]_vars, NEW s \in SignIn,
           login[s] = "in", login'[s] = "out"
    PROVE  cause[s] # {}
  <1>1. ASSUME NEW u \in SignIn, SignInStep(u) \/ Revoke(u)
        PROVE  FALSE
    BY <1>1 DEF SignInStep, Authorize, Callback, CallbackFails, CallbackDone, Redeem, Revoke,
                IInv, TypeOK
  <1>2. ASSUME NEW r \in Request, Deliver(r)
        PROVE  cause[s] # {}
    <2>1. Owner(req[r].token) \in SignIn /\ req[r].pc = "answer"
      BY <1>2, HeldFacts DEF Deliver
    <2>2. s = Owner(req[r].token) /\ req[r].answer = Invalid
      BY <1>2, <2>1 DEF Deliver, IInv, TypeOK
    <2>3. QED
      BY <2>1, <2>2 DEF Excused
  <1>3. login' = login \/ (\E u \in SignIn : SignInStep(u)) \/ (\E r \in Request : Deliver(r))
        \/ (\E lost \in SUBSET db : Restart(lost))
    BY DEF Next, RequestStep, Revoke, Refresh, Tick, vars,
           AzureAccepts, AzureRefuses, AzureFails, Rotate, Drop, Lose
  <1>4. ASSUME NEW lost \in SUBSET db, Restart(lost)
        PROVE  FALSE
    BY <1>4 DEF Restart
  <1>5. QED
    BY <1>1, <1>2, <1>3, <1>4

(* No repetition, crossing of exchanges or lost answer signs a client out: *)
(* only Azure, a restart, or an answer that comes later than the cache     *)
(* lasts (server.py:1979-2044).                                            *)
THEOREM SignOutsHaveCauses == Spec => SignedOutForCause
  <1>1. Init => Excused
    <2>1. ASSUME Init PROVE \A t \in Token : ~Fresh(t)
      BY <2>1 DEF Init, Fresh
    <2>2. QED
      BY <2>1 DEF Init, Excused, Idle
  <1>2. IInv /\ Excused /\ [Next]_vars
            => [\A s \in SignIn : login[s] = "in" /\ login'[s] = "out" => cause[s] # {}]_vars
    BY SignOutStep
  <1>3. QED
    BY <1>1, <1>2, NextExcused, Inductive, PTL DEF Spec, SignedOutForCause
=============================================================================
