--------------------------- MODULE RequestProofs ---------------------------
(***************************************************************************)
(* Machine-checked proofs about the two stages of a request: Admission, for*)
(* any users, keys, session ids, time-outs and number of overlapping       *)
(* requests, and RequestPath, for any number of concurrent requests and    *)
(* priming tasks, any threshold and any window.                            *)
(***************************************************************************)
EXTENDS Admission, RequestPath, FiniteSetTheorems, SequenceTheorems, TLAPS

-----------------------------------------------------------------------------
(* Admission.  What is remembered, of requests and of users, while the keys,*)
(* the configuration and the user records change under it.                 *)

\* A version of u's record is not older than u's last eviction or reload.
Follows(u, version) == version >= since[u].groups \/ since[u].excused

\* An answer that is on its way has been given since its fetch began.
Dated(q) ==
    q.pc \in {"fetch", "forced"} =>
        /\ q.valid => q.key \in published
        /\ q.valid /\ q.reply # {} => q.key \in q.reply
        /\ \A k \in q.reply : withdrawn[k] <= q.age

\* What a request is about is known while it waits.
Whole(q) ==
    /\ q.pc \in {"fetch", "forced"} => q.key \in Key
    /\ q.pc \in {"fetch", "forced", "identity", "userfile"} =>
          q.user \in User /\ q.sid \in User \cup TransportId
    /\ q.read # 0 => q.pc \in {"identity", "userfile"} /\ Follows(q.user, q.read)

\* A session is its user's, or was made under that user's address by another.
Whose(owner, user) == owner = user \/ <<owner, user>> \in guessed

Sound(q) ==
    /\ Whole(q) /\ Dated(q)
    /\ q.pc = "serving" => Whose(q.as, q.user)
    /\ q.pc = "refused" => ~q.valid \/ q.failed
    /\ q.late <= TTL + FetchLimit

Remembered(u, profile, resolution) ==
    /\ profile # NoProfile => profile.conf = conf
    /\ profile.from = "epicor" => Follows(u, profile.groups)
    /\ resolution # Unresolved => resolution.conf = conf /\ Follows(u, resolution.groups)

KeysDated ==
    /\ \A k \in published : withdrawn[k] = 0
    /\ keys.age <= TTL => \A k \in keys.set : withdrawn[k] <= keys.age + FetchLimit

OwnSession == \A u \in User : sessions[u] = NoOne \/ Whose(sessions[u], u)

Admitted ==
    /\ TypeOK /\ KeysDated /\ OwnSession
    /\ \A u \in User : since[u].groups <= groups
    /\ \A u \in User : Remembered(u, users[u], resolved[u])
    /\ \A r \in Request : Sound(req[r])

\* A request's step: it is sound, and so is what it leaves in memory.
Sessions ==
    /\ sessions' \in [User \cup TransportId -> User \cup {NoOne}]
    /\ guessed \subseteq guessed' /\ guessed' \subseteq User \X User
    /\ OwnSession'
Profiles ==
    /\ users' \in [User -> Profile]
    /\ \A u \in User : users[u] # NoProfile => users'[u] = users[u]
Lands(r) == \E q \in Local : Sound(q) /\ Set(r, q)
Moves(r) ==
    /\ Lands(r) /\ Sessions /\ Profiles
    /\ resolved' \in [User -> Resolution]
    /\ \A u \in User : Remembered(u, users'[u], resolved'[u])
    /\ UNCHANGED <<outside, conf, since>>

LEMMA AdmissionBounds ==
    /\ 0 \in 0 .. MaxGroups /\ 0 \in 0 .. MaxConfig /\ 1 \in 1 .. MaxGroups
    /\ 1 \in 1 .. MaxConfig /\ 0 \in 0 .. FetchLimit /\ 0 \in Ages /\ 0 \in 0 .. TTL + 1
    /\ 0 <= TTL + FetchLimit
    /\ \A n \in 1 .. MaxGroups : n \in 0 .. MaxGroups /\ n \in Nat /\ n # 0
    /\ \A n \in 1 .. MaxConfig : n \in 0 .. MaxConfig /\ n \in Nat /\ n # 0
    /\ \A n \in Ages : n \in Nat /\ n <= TTL + FetchLimit + 1
  BY AdmissionAssumption DEF Ages

\* A request that waits for nothing.
LEMMA SettledIsSound ==
    ASSUME NEW q \in Local, q.pc \notin {"fetch", "forced", "identity", "userfile"},
           q.read = 0, q.late <= TTL + FetchLimit,
           q.pc = "serving" => Whose(q.as, q.user),
           q.pc = "refused" => ~q.valid \/ q.failed
    PROVE  Sound(q)
  BY DEF Sound, Whole, Dated

LEMMA IdleIsSound == Idle \in Local /\ Sound(Idle)
  BY AdmissionBounds, SettledIsSound DEF Idle, Local, Pc

LEMMA ServeMoves ==
    ASSUME TypeOK, OwnSession, NEW r \in Request, NEW q, q.user \in User,
           q.sid \in User \cup TransportId,
           q.late \in Ages, q.late <= TTL + FetchLimit, Serve(r, q)
    PROVE  Lands(r) /\ Sessions
  <1> DEFINE key == IF sessions[q.sid] \in {NoOne, q.user} THEN q.sid ELSE q.user
             owner == IF sessions[key] = NoOne THEN q.user ELSE sessions[key]
             served == [Idle EXCEPT !.pc = "serving", !.user = q.user, !.as = owner,
                                    !.late = q.late]
  <1>1. key \in User \cup TransportId /\ (key # q.user => sessions[key] \in {NoOne, q.user})
    OBVIOUS
  <1>2. /\ owner \in User /\ Whose(owner, q.user)
        /\ key # q.user => owner = q.user
        /\ sessions[key] # NoOne => owner = sessions[key]
    BY <1>1 DEF OwnSession, TypeOK, Whose
  <1>3. /\ sessions' = [sessions EXCEPT ![key] = owner] /\ Set(r, served)
        /\ guessed' = guessed \cup Guess(q.user, key)
    BY DEF Serve
  <1>4. served.pc = "serving" /\ Whose(served.as, served.user) /\ served.late = q.late
        /\ served.read = 0 /\ served \in Local
    BY <1>2, AdmissionBounds DEF Idle, Local, Pc
  <1> HIDE DEF key, owner, served
  <1>5. Sessions
    <2>1. guessed \subseteq guessed' /\ guessed' \subseteq User \X User
      BY <1>3 DEF Guess, TypeOK
    <2>2. sessions' \in [User \cup TransportId -> User \cup {NoOne}]
      BY <1>1, <1>2, <1>3 DEF TypeOK
    <2>3. ASSUME NEW u \in User PROVE sessions'[u] = NoOne \/ Whose(sessions[u], u)'
      <3>1. CASE u = key /\ u = q.user
        <4>1. sessions'[u] = owner /\ Whose(owner, u)
          BY <1>1, <1>2, <1>3, <3>1 DEF TypeOK
        <4>2. QED
          BY <2>1, <4>1 DEF Whose
      <3>2. CASE u = key /\ u # q.user
        <4>1. sessions'[u] = q.user /\ <<q.user, u>> \in guessed'
          BY <1>1, <1>2, <1>3, <3>2 DEF TypeOK, Guess
        <4>2. QED
          BY <4>1 DEF Whose
      <3>3. CASE u # key
        <4>1. sessions'[u] = sessions[u]
          BY <1>3, <3>3 DEF TypeOK
        <4>2. QED
          BY <2>1, <4>1 DEF OwnSession, Whose
      <3>4. QED
        BY <3>1, <3>2, <3>3
    <2>4. QED
      BY <2>1, <2>2, <2>3 DEF Sessions, OwnSession
  <1>6. Sound(served)
    BY <1>4, SettledIsSound
  <1>7. QED
    BY <1>3, <1>4, <1>5, <1>6 DEF Lands

LEMMA DenyMoves ==
    ASSUME TypeOK, OwnSession, NEW r \in Request, NEW q, Deny(r, q)
    PROVE  Lands(r) /\ Sessions
  <1> DEFINE n == [Idle EXCEPT !.pc = "denied"]
  <1>1. n \in Local /\ n.pc = "denied" /\ n.read = 0 /\ n.late = 0
    BY AdmissionBounds DEF Idle, Local, Pc
  <1> HIDE DEF n
  <1>2. Sound(n)
    BY <1>1, AdmissionBounds, SettledIsSound
  <1>3. Set(r, n) /\ UNCHANGED stored
    BY DEF Deny, n
  <1>4. QED
    BY <1>1, <1>2, <1>3 DEF Lands, Sessions, TypeOK, OwnSession, Whose, stored

\* A resolution by the configuration in force.
Current(u, resolution) ==
    /\ resolution \in Resolution
    /\ resolution.conf = conf /\ Follows(u, resolution.groups)

LEMMA ProvideMoves ==
    ASSUME TypeOK, OwnSession, NEW r \in Request, NEW q, q.user \in User,
           q.sid \in User \cup TransportId,
           q.late \in Ages, q.late <= TTL + FetchLimit,
           \A u \in User : Remembered(u, users[u], resolved[u]),
           NEW resolution, Current(q.user, resolution), Provide(r, q, resolution)
    PROVE  /\ Lands(r) /\ Sessions /\ Profiles
           /\ \A u \in User : Remembered(u, users'[u], resolved[u])
  <1> DEFINE p == [from |-> "epicor", conf |-> resolution.conf,
                   groups |-> resolution.groups, swapped |-> FALSE]
  <1>1. p \in Profile /\ p.conf = conf /\ Follows(q.user, p.groups)
    BY DEF Profile, Resolution, Current
  <1>2. Serve(r, q) /\ users' = IF users[q.user] # NoProfile THEN users
                                ELSE [users EXCEPT ![q.user] = p]
    BY DEF Provide
  <1> HIDE DEF p
  <1>3. Profiles
    BY <1>1, <1>2 DEF TypeOK, Profiles
  <1>4. ASSUME NEW u \in User PROVE Remembered(u, users'[u], resolved[u])
    <2>1. CASE users[q.user] # NoProfile
      BY <1>2, <2>1
    <2>2. CASE users[q.user] = NoProfile
      <3>1. users' = [users EXCEPT ![q.user] = p]
        BY <1>2, <2>2
      <3>2. users'[u] = IF u = q.user THEN p ELSE users[u]
        BY <3>1 DEF TypeOK
      <3>3. Remembered(u, users[u], resolved[u])
        OBVIOUS
      <3>4. QED
        BY <1>1, <3>2, <3>3 DEF Remembered
    <2>3. QED
      BY <2>1, <2>2
  <1>5. QED
    BY <1>2, <1>3, <1>4, ServeMoves

LEMMA LegacyMoves ==
    ASSUME TypeOK, OwnSession, NEW r \in Request, NEW q, q.user \in User,
           q.sid \in User \cup TransportId,
           q.late \in Ages, q.late <= TTL + FetchLimit,
           \A u \in User : Remembered(u, users[u], resolved[u]),
           NEW resolution, Current(q.user, resolution), Legacy(r, q, resolution)
    PROVE  /\ Lands(r) /\ Sessions /\ Profiles
           /\ \A u \in User : Remembered(u, users'[u], resolved[u])
  <1>1. CASE Provide(r, q, resolution)
    BY <1>1, ProvideMoves
  <1>2. CASE Deny(r, q) /\ UNCHANGED users
    BY <1>2, DenyMoves DEF TypeOK, Profiles
  <1>3. QED
    BY <1>1, <1>2 DEF Legacy

\* A step that leaves the memory alone.
LEMMA MemoryKept ==
    ASSUME Admitted, NEW r \in Request, UNCHANGED <<outside, memory>>, Lands(r), Sessions
    PROVE  Moves(r)
  BY DEF Moves, Profiles, memory, TypeOK, Admitted

LEMMA SessionsKept ==
    ASSUME TypeOK, OwnSession, UNCHANGED stored
    PROVE  Sessions
  BY DEF TypeOK, OwnSession, Sessions, Whose, stored

LEMMA AdmitMoves ==
    ASSUME Admitted, NEW r \in Request, NEW q \in Local, q.user \in User, q.key \in Key,
           q.sid \in User \cup TransportId,
           q.failed \/ withdrawn[q.key] <= TTL + FetchLimit,
           Admit(r, q), UNCHANGED outside
    PROVE  Moves(r)
  <1> DEFINE late == IF q.failed THEN 0 ELSE withdrawn[q.key]
             n == [Accepted(q) EXCEPT !.pc = "identity"]
  <1>1. late \in Ages /\ late <= TTL + FetchLimit
    BY AdmissionBounds DEF TypeOK, Admitted
  <1>2. Accepted(q) = [Idle EXCEPT !.user = q.user, !.sid = q.sid, !.late = late]
    BY DEF Accepted
  <1>3. /\ UNCHANGED memory
        /\ Serve(r, Accepted(q)) \/ (Set(r, n) /\ UNCHANGED stored)
    BY DEF Admit
  <1> HIDE DEF late
  <1>4. Accepted(q).user = q.user /\ Accepted(q).sid = q.sid /\ Accepted(q).late = late
    BY <1>2 DEF Idle
  <1>5. /\ n \in Local /\ n.pc = "identity" /\ n.user = q.user /\ n.sid = q.sid
        /\ n.read = 0 /\ n.late = late
    BY <1>1, <1>2, AdmissionBounds DEF Idle, Local, Pc
  <1> HIDE DEF n
  <1>6. Sound(n)
    BY <1>1, <1>5 DEF Sound, Whole, Dated
  <1>7. CASE Serve(r, Accepted(q))
    BY <1>1, <1>3, <1>4, <1>7, ServeMoves, MemoryKept DEF Admitted
  <1>8. CASE Set(r, n) /\ UNCHANGED stored
    BY <1>3, <1>5, <1>6, <1>8, MemoryKept, SessionsKept DEF Admitted, Lands
  <1>9. QED
    BY <1>3, <1>7, <1>8

LEMMA RefuseMoves ==
    ASSUME Admitted, NEW r \in Request, NEW q \in Local, ~q.valid \/ q.failed,
           Refuse(r, q), UNCHANGED outside
    PROVE  Moves(r)
  <1> DEFINE n == [Idle EXCEPT !.pc = "refused", !.valid = q.valid, !.failed = q.failed]
  <1>1. /\ n \in Local /\ n.pc = "refused" /\ n.read = 0 /\ n.late = 0
        /\ n.valid = q.valid /\ n.failed = q.failed
    BY AdmissionBounds DEF Idle, Local, Pc
  <1>2. Set(r, n) /\ UNCHANGED <<stored, memory>>
    BY DEF Refuse
  <1> HIDE DEF n
  <1>3. Sound(n)
    BY <1>1, AdmissionBounds, SettledIsSound
  <1>4. QED
    BY <1>1, <1>2, <1>3, MemoryKept, SessionsKept DEF Lands, Admitted

\* A token that is checked: its request is one that has waited for keys, or has
\* not had to; a key among those at hand has not been withdrawn for long.
LEMMA CheckMoves ==
    ASSUME Admitted, NEW r \in Request, NEW q \in Local, q.user \in User, q.key \in Key,
           q.sid \in User \cup TransportId, q.read = 0, q.late <= TTL + FetchLimit,
           q.valid => q.key \in published, NEW set,
           q.key \in set => q.failed \/ withdrawn[q.key] <= TTL + FetchLimit,
           \/ Check(r, q, set)
           \/ Recheck(r, q, set) /\ (q.key \notin set => ~q.valid \/ q.failed),
           UNCHANGED outside
    PROVE  Moves(r)
  <1> DEFINE n == [q EXCEPT !.pc = "forced", !.age = 0, !.reply = {}]
  <1>1. /\ n \in Local /\ n.pc = "forced" /\ n.user = q.user /\ n.sid = q.sid
        /\ n.key = q.key /\ n.valid = q.valid /\ n.read = 0 /\ n.late = q.late
        /\ n.reply = {}
    BY AdmissionBounds DEF Local, Pc
  <1>2. ASSUME Set(r, n), UNCHANGED <<stored, memory>> PROVE Moves(r)
    <2> HIDE DEF n
    <2>1. Sound(n)
      BY <1>1 DEF Sound, Whole, Dated
    <2>2. QED
      BY <1>1, <1>2, <2>1, MemoryKept, SessionsKept DEF Lands, Admitted
  <1>3. QED
    BY <1>2, AdmitMoves, RefuseMoves DEF Check, Recheck
-----------------------------------------------------------------------------
\* What a step of a request comes to; `keys` may have been fetched by it.
LEMMA RequestStep ==
    ASSUME Admitted, NEW r \in Request, Moves(r),
           keys' \in [set : SUBSET Key, age : 0 .. TTL + 1], KeysDated'
    PROVE  Admitted'
  <1>1. PICK q \in Local : Sound(q) /\ Set(r, q)
    BY DEF Moves, Lands
  <1>2. TypeOK'
    BY <1>1 DEF Moves, Sessions, Profiles, Set, TypeOK, Admitted, outside, azure
  <1>3. OwnSession'
    BY DEF Moves, Sessions
  <1>4. \A u \in User : since'[u].groups <= groups'
    BY DEF Moves, outside, Admitted
  <1>5. ASSUME NEW u \in User PROVE Remembered(u, users[u], resolved[u])'
    BY DEF Moves, Remembered, Follows
  <1>6. ASSUME NEW s \in Request PROVE Sound(req[s])'
    <2>1. req'[s] \in {q, req[s]} /\ Sound(req'[s])
      BY <1>1 DEF Set, TypeOK, Admitted
    <2>2. UNCHANGED <<published, withdrawn, since>> /\ guessed \subseteq guessed'
      BY DEF Moves, Sessions, outside, azure
    <2>3. QED
      BY <2>1, <2>2 DEF Sound, Whole, Dated, Follows, Whose
  <1>7. QED
    BY <1>2, <1>3, <1>4, <1>5, <1>6 DEF Admitted

LEMMA KeysKept ==
    ASSUME Admitted, UNCHANGED keys, UNCHANGED outside
    PROVE  keys' \in [set : SUBSET Key, age : 0 .. TTL + 1] /\ KeysDated'
  BY DEF Admitted, TypeOK, KeysDated, outside, azure

\* A request that waits.
LEMMA Waits ==
    ASSUME Admitted, NEW r \in Request
    PROVE  /\ req[r] \in Local /\ Sound(req[r])
           /\ req[r].pc \in {"fetch", "forced", "identity", "userfile"} =>
                 req[r].user \in User /\ req[r].sid \in User \cup TransportId
           /\ req[r].pc \in {"fetch", "forced"} => req[r].key \in Key /\ req[r].read = 0
           /\ req[r].late \in Ages /\ req[r].late <= TTL + FetchLimit
  BY DEF Admitted, TypeOK, Local, Sound, Whole

LEMMA ArriveStep ==
    ASSUME Admitted, NEW r \in Request, NEW u \in User, NEW k \in Key,
           NEW sid \in User \cup TransportId, Arrive(r, u, k, sid)
    PROVE  Admitted'
  <1> DEFINE valid == k \in published
             q == [Idle EXCEPT !.user = u, !.key = k, !.sid = sid, !.valid = valid]
             n == [q EXCEPT !.pc = "fetch"]
  <1>1. sid \in User \cup TransportId
    OBVIOUS
  <1>2. UNCHANGED <<outside, keys>>
    BY DEF Arrive
  <1>3. \/ Fresh /\ Check(r, q, keys.set)
        \/ Set(r, n) /\ UNCHANGED <<stored, memory>>
    BY DEF Arrive
  <1>4. valid \in BOOLEAN /\ (valid => k \in published)
    OBVIOUS
  <1> HIDE DEF valid
  <1>5. /\ q \in Local /\ q.user = u /\ q.key = k /\ q.sid = sid /\ q.read = 0
        /\ q.late = 0 /\ q.valid = valid
    BY <1>4, AdmissionBounds DEF Idle, Local, Pc
  <1>6. /\ n \in Local /\ n.pc = "fetch" /\ n.user = u /\ n.key = k /\ n.sid = sid
        /\ n.read = 0 /\ n.late = 0 /\ n.valid = valid /\ n.reply = {}
    BY <1>4, AdmissionBounds DEF Idle, Local, Pc
  <1> HIDE DEF q, n
  <1>7. CASE Fresh /\ Check(r, q, keys.set)
    <2>1. k \in keys.set => withdrawn[k] <= TTL + FetchLimit
      BY <1>7, AdmissionAssumption DEF Fresh, Admitted, KeysDated, TypeOK, Ages
    <2>2. Moves(r)
      BY <1>1, <1>2, <1>4, <1>5, <1>7, <2>1, CheckMoves, AdmissionBounds
    <2>3. QED
      BY <1>2, <2>2, RequestStep, KeysKept
  <1>8. CASE Set(r, n) /\ UNCHANGED <<stored, memory>>
    <2>1. Sound(n)
      BY <1>1, <1>4, <1>6, AdmissionBounds DEF Sound, Whole, Dated
    <2>2. Moves(r)
      BY <1>2, <1>6, <1>8, <2>1, MemoryKept, SessionsKept DEF Lands, Admitted
    <2>3. QED
      BY <1>2, <2>2, RequestStep, KeysKept
  <1>9. QED
    BY <1>3, <1>7, <1>8

LEMMA AzureServesStep ==
    ASSUME Admitted, NEW r \in Request, AzureServes(r)
    PROVE  Admitted'
  <1> DEFINE n == [req[r] EXCEPT !.reply = published]
  <1>1. /\ Set(r, n) /\ UNCHANGED <<outside, keys, memory, stored>>
        /\ req[r].pc \in {"fetch", "forced"}
    BY DEF AzureServes
  <1>2. /\ req[r] \in Local /\ Sound(req[r]) /\ req[r].age \in Nat
        /\ req[r].read = 0 /\ published \in SUBSET Key
    BY <1>1, Waits DEF Local, Admitted, TypeOK
  <1>3. /\ n \in Local /\ n.pc = req[r].pc /\ n.user = req[r].user /\ n.key = req[r].key
        /\ n.sid = req[r].sid /\ n.read = 0 /\ n.late = req[r].late
        /\ n.valid = req[r].valid /\ n.failed = req[r].failed
        /\ n.as = req[r].as /\ n.reply = published /\ n.age = req[r].age
    BY <1>2 DEF Local
  <1> HIDE DEF n
  <1>4. \A k \in published : withdrawn[k] <= n.age
    BY <1>2, <1>3 DEF Admitted, KeysDated
  <1>5. Sound(n)
    BY <1>1, <1>2, <1>3, <1>4 DEF Sound, Whole, Dated
  <1>6. Moves(r)
    BY <1>1, <1>3, <1>5, MemoryKept, SessionsKept DEF Lands, Admitted
  <1>7. QED
    BY <1>1, <1>6, RequestStep, KeysKept

LEMMA FetchedStep ==
    ASSUME Admitted, NEW r \in Request, Fetched(r)
    PROVE  Admitted'
  <1> DEFINE q == req[r]
  <1>1. /\ q.pc \in {"fetch", "forced"} /\ q.reply # {}
        /\ keys' = [set |-> q.reply, age |-> 0] /\ UNCHANGED outside
        /\ Check(r, q, q.reply) \/ (q.pc = "forced" /\ Recheck(r, q, q.reply))
    BY DEF Fetched
  <1>2. /\ q \in Local /\ Sound(q) /\ q.user \in User /\ q.key \in Key /\ q.read = 0
        /\ q.sid \in User \cup TransportId /\ q.late <= TTL + FetchLimit
        /\ q.age \in 0 .. FetchLimit /\ q.reply \in SUBSET Key
    BY <1>1, Waits DEF Local
  <1> HIDE DEF q
  <1>3. /\ q.valid => q.key \in published
        /\ q.valid => q.key \in q.reply
        /\ \A k \in q.reply : withdrawn[k] <= FetchLimit /\ withdrawn[k] <= TTL + FetchLimit
    <2>1. Dated(q)
      BY <1>2 DEF Sound
    <2>2. \A k \in q.reply : withdrawn[k] \in Nat /\ withdrawn[k] <= q.age
      BY <1>1, <1>2, <2>1 DEF Dated, Admitted, TypeOK, Ages
    <2>3. q.valid => q.key \in published /\ q.key \in q.reply
      BY <1>1, <2>1 DEF Dated
    <2>4. QED
      BY <1>2, <2>2, <2>3, AdmissionAssumption
  <1>4. KeysDated' /\ keys' \in [set : SUBSET Key, age : 0 .. TTL + 1]
    <2>1. UNCHANGED <<published, withdrawn>>
      BY <1>1 DEF outside, azure
    <2>2. keys' \in [set : SUBSET Key, age : 0 .. TTL + 1]
      BY <1>1, <1>2, AdmissionBounds
    <2>3. keys'.set = q.reply /\ keys'.age = 0
      BY <1>1
    <2>4. \A k \in q.reply : withdrawn[k] <= 0 + FetchLimit
      BY <1>3, AdmissionAssumption
    <2>5. QED
      BY <2>1, <2>2, <2>3, <2>4 DEF KeysDated, Admitted
  <1>5. Moves(r)
    BY <1>1, <1>2, <1>3, CheckMoves
  <1>6. QED
    BY <1>4, <1>5, RequestStep

LEMMA FetchFailsStep ==
    ASSUME Admitted, NEW r \in Request, FetchFails(r)
    PROVE  Admitted'
  <1> DEFINE q == [req[r] EXCEPT !.failed = TRUE]
  <1>1. /\ req[r].pc \in {"fetch", "forced"} /\ UNCHANGED <<outside, keys>>
        /\ Check(r, q, keys.set) \/ Recheck(r, q, keys.set) \/ Refuse(r, q)
    BY DEF FetchFails
  <1>2. req[r] \in Local /\ Sound(req[r])
    BY Waits
  <1>3. /\ q \in Local /\ q.failed = TRUE /\ q.user = req[r].user /\ q.key = req[r].key
        /\ q.read = req[r].read /\ q.sid = req[r].sid /\ q.late = req[r].late
        /\ q.valid = req[r].valid
    BY <1>2 DEF Local
  <1> HIDE DEF q
  <1>4. /\ q.user \in User /\ q.key \in Key /\ q.read = 0
        /\ q.sid \in User \cup TransportId /\ q.late <= TTL + FetchLimit
    BY <1>1, <1>3, Waits
  <1>5. q.valid => q.key \in published
    BY <1>1, <1>2, <1>3 DEF Sound, Dated
  <1>6. Moves(r)
    BY <1>1, <1>3, <1>4, <1>5, CheckMoves, RefuseMoves
  <1>7. QED
    BY <1>1, <1>6, RequestStep, KeysKept

-----------------------------------------------------------------------------
LEMMA EpicorReadsStep ==
    ASSUME Admitted, NEW r \in Request, EpicorReads(r)
    PROVE  Admitted'
  <1> DEFINE n == [req[r] EXCEPT !.read = groups]
  <1>1. /\ Set(r, n) /\ UNCHANGED <<outside, keys, memory, stored>>
        /\ req[r].pc \in {"identity", "userfile"}
    BY DEF EpicorReads
  <1>2. req[r] \in Local /\ Sound(req[r]) /\ req[r].user \in User
    BY <1>1, Waits
  <1>3. groups \in 1 .. MaxGroups /\ groups \in 0 .. MaxGroups
    BY AdmissionBounds DEF Admitted, TypeOK
  <1>4. /\ n \in Local /\ n.pc = req[r].pc /\ n.user = req[r].user /\ n.key = req[r].key
        /\ n.sid = req[r].sid /\ n.read = groups /\ n.late = req[r].late
    BY <1>2, <1>3 DEF Local
  <1> HIDE DEF n
  <1>5. Follows(n.user, n.read)
    BY <1>2, <1>3, <1>4 DEF Follows, Admitted, TypeOK
  <1>6. Sound(n)
    BY <1>1, <1>2, <1>4, <1>5 DEF Sound, Whole, Dated
  <1>7. Moves(r)
    BY <1>1, <1>4, <1>6, MemoryKept, SessionsKept DEF Lands, Admitted
  <1>8. QED
    BY <1>1, <1>7, RequestStep, KeysKept

\* The user record that a request has read, by the group map of now.
LEMMA ReadIsCurrent ==
    ASSUME Admitted, NEW r \in Request, req[r].read # 0, NEW mapped \in BOOLEAN
    PROVE  Current(req[r].user, [groups |-> req[r].read, conf |-> conf, mapped |-> mapped])
  <1>1. /\ req[r].read \in 0 .. MaxGroups /\ Follows(req[r].user, req[r].read)
        /\ conf \in 0 .. MaxConfig
    BY AdmissionBounds DEF Admitted, TypeOK, Sound, Whole, Local
  <1>2. QED
    BY <1>1 DEF Current, Resolution

LEMMA IdentifiedStep ==
    ASSUME Admitted, NEW r \in Request, Identified(r)
    PROVE  Admitted'
  <1> DEFINE resolution == [groups |-> req[r].read, conf |-> conf, mapped |-> TRUE]
  <1>1. /\ req[r].pc = "identity" /\ req[r].read # 0 /\ Provide(r, req[r], resolution)
        /\ UNCHANGED <<outside, keys, conf, resolved, since>>
    BY DEF Identified
  <1>2. Current(req[r].user, resolution)
    BY <1>1, ReadIsCurrent
  <1> HIDE DEF resolution
  <1>3. Moves(r)
    BY <1>1, <1>2, Waits, ProvideMoves DEF Moves, Admitted, TypeOK
  <1>4. QED
    BY <1>1, <1>3, RequestStep, KeysKept

LEMMA NotIdentifiedStep ==
    ASSUME Admitted, NEW r \in Request, NotIdentified(r)
    PROVE  Admitted'
  <1> DEFINE u == req[r].user
             q == [req[r] EXCEPT !.read = 0]
             n == [q EXCEPT !.pc = "userfile"]
  <1>1. /\ req[r].pc = "identity"
        /\ UNCHANGED <<outside, keys, conf, resolved, since>>
        /\ \/ resolved[u] # Unresolved /\ Legacy(r, q, resolved[u])
           \/ Set(r, n) /\ UNCHANGED <<stored, users>>
    BY DEF NotIdentified
  <1>2. /\ req[r] \in Local /\ Sound(req[r]) /\ u \in User /\ req[r].late \in Ages
        /\ req[r].sid \in User \cup TransportId /\ req[r].late <= TTL + FetchLimit
    BY <1>1, Waits
  <1>3. /\ q.user = u /\ q.sid = req[r].sid /\ q.late = req[r].late
        /\ n \in Local /\ n.pc = "userfile" /\ n.user = u /\ n.sid = req[r].sid
        /\ n.late = req[r].late /\ n.read = 0
    BY <1>2, AdmissionBounds DEF Local, Pc
  <1> HIDE DEF u, q, n
  <1>4. CASE resolved[u] # Unresolved /\ Legacy(r, q, resolved[u])
    <2>1. Current(u, resolved[u])
      BY <1>2, <1>4 DEF Current, Admitted, TypeOK, Remembered
    <2>2. Moves(r)
      BY <1>1, <1>2, <1>3, <1>4, <2>1, LegacyMoves DEF Moves, Admitted, TypeOK
    <2>3. QED
      BY <1>1, <2>2, RequestStep, KeysKept
  <1>5. CASE Set(r, n) /\ UNCHANGED <<stored, users>>
    <2>1. Sound(n)
      BY <1>2, <1>3 DEF Sound, Whole, Dated
    <2>2. Moves(r)
      BY <1>1, <1>3, <1>5, <2>1, MemoryKept, SessionsKept DEF Lands, Admitted, memory
    <2>3. QED
      BY <1>1, <2>2, RequestStep, KeysKept
  <1>6. QED
    BY <1>1, <1>4, <1>5

LEMMA ResolvedStep ==
    ASSUME Admitted, NEW r \in Request, Resolved(r)
    PROVE  Admitted'
  <1>1. PICK mapped \in BOOLEAN :
          LET resolution == [groups |-> req[r].read, conf |-> conf, mapped |-> mapped]
          IN /\ resolved' = [resolved EXCEPT ![req[r].user] = resolution]
             /\ Legacy(r, req[r], resolution)
    BY DEF Resolved
  <1> DEFINE resolution == [groups |-> req[r].read, conf |-> conf, mapped |-> mapped]
  <1>2. /\ req[r].pc = "userfile" /\ req[r].read # 0
        /\ UNCHANGED <<outside, keys, conf, since>>
        /\ resolved' = [resolved EXCEPT ![req[r].user] = resolution]
        /\ Legacy(r, req[r], resolution)
    BY <1>1 DEF Resolved
  <1>3. Current(req[r].user, resolution)
    BY <1>2, ReadIsCurrent
  <1> HIDE DEF resolution
  <1>4. /\ Lands(r) /\ Sessions /\ Profiles
        /\ \A u \in User : Remembered(u, users'[u], resolved[u])
    BY <1>2, <1>3, Waits, LegacyMoves DEF Admitted
  <1>5. resolved' \in [User -> Resolution]
    BY <1>2, <1>3, Waits DEF Admitted, TypeOK, Current
  <1>6. ASSUME NEW u \in User PROVE Remembered(u, users'[u], resolved'[u])
    <2>1. resolved'[u] = IF u = req[r].user THEN resolution ELSE resolved[u]
      BY <1>2 DEF Admitted, TypeOK
    <2>2. QED
      BY <1>3, <1>4, <2>1 DEF Remembered, Current
  <1>7. Moves(r)
    BY <1>2, <1>4, <1>5, <1>6 DEF Moves
  <1>8. QED
    BY <1>2, <1>7, RequestStep, KeysKept

LEMMA NotResolvedStep ==
    ASSUME Admitted, NEW r \in Request, NotResolved(r)
    PROVE  Admitted'
  <1>1. Deny(r, req[r]) /\ UNCHANGED <<outside, keys, memory>>
    BY DEF NotResolved
  <1>2. Moves(r)
    BY <1>1, DenyMoves, MemoryKept DEF Admitted
  <1>3. QED
    BY <1>1, <1>2, RequestStep, KeysKept

LEMMA DoneStep ==
    ASSUME Admitted, NEW r \in Request, Done(r)
    PROVE  Admitted'
  <1>1. Set(r, Idle) /\ UNCHANGED <<outside, keys, memory, stored>>
    BY DEF Done
  <1>2. Moves(r)
    BY <1>1, IdleIsSound, MemoryKept, SessionsKept DEF Admitted, Lands
  <1>3. QED
    BY <1>1, <1>2, RequestStep, KeysKept

-----------------------------------------------------------------------------
\* What no step of an administrator's or of Azure's touches.
LEMMA RequestsKept ==
    ASSUME Admitted, UNCHANGED <<azure, since, guessed, req>>
    PROVE  \A r \in Request : Sound(req[r])'
  BY DEF Admitted, azure, Sound, Whole, Dated, Follows, Whose

LEMMA HotSwapStep ==
    ASSUME Admitted, NEW u \in User, HotSwap(u)
    PROVE  Admitted'
  <1> DEFINE p == [users[u] EXCEPT !.swapped = TRUE]
  <1>1. /\ users[u] # NoProfile /\ users' = [users EXCEPT ![u].swapped = TRUE]
        /\ UNCHANGED <<outside, keys, conf, resolved, since, stored, req>>
    BY DEF HotSwap
  <1>2. users[u] \in Profile /\ Remembered(u, users[u], resolved[u])
    BY DEF Admitted, TypeOK
  <1>3. p \in Profile /\ p.conf = users[u].conf /\ p.from = users[u].from
        /\ p.groups = users[u].groups
    BY <1>2 DEF Profile
  <1>4. users' = [users EXCEPT ![u] = p]
    BY <1>1, <1>2 DEF Profile
  <1> HIDE DEF p
  <1>5. TypeOK'
    <2>1. users' \in [User -> Profile]
      BY <1>3, <1>4 DEF Admitted, TypeOK
    <2>2. QED
      BY <1>1, <2>1 DEF Admitted, TypeOK, outside, azure, stored
  <1>6. ASSUME NEW v \in User PROVE Remembered(v, users[v], resolved[v])'
    <2>1. users'[v] = IF v = u THEN p ELSE users[v]
      BY <1>4 DEF Admitted, TypeOK
    <2>2. Remembered(v, users[v], resolved[v])
      BY DEF Admitted
    <2>3. QED
      BY <1>1, <1>2, <1>3, <2>1, <2>2 DEF Remembered, Follows
  <1>7. QED
    BY <1>1, <1>5, <1>6, KeysKept, RequestsKept DEF Admitted, OwnSession, outside, Whose, stored

\* After an eviction or a reload, an answer on its way is an excuse.
LEMMA SinceNow ==
    ASSUME Admitted, NEW W \in SUBSET User, UNCHANGED <<azure, guessed, req>>,
           \A u \in User \ W : since'[u] = since[u],
           \A u \in W : since'[u].excused \/ ~Read(u)
    PROVE  \A r \in Request : Sound(req[r])'
  <1>1. SUFFICES ASSUME NEW r \in Request PROVE Sound(req[r])'
    OBVIOUS
  <1>2. /\ Sound(req[r]) /\ req' = req /\ UNCHANGED <<published, withdrawn>>
        /\ req[r].read # 0 => req[r].user \in User
    BY DEF Admitted, azure, Sound, Whole
  <1>3. ASSUME req[r].read # 0 PROVE Follows(req[r].user, req[r].read)'
    <2>1. CASE req[r].user \in W
      BY <1>2, <1>3, <2>1 DEF Read, Follows
    <2>2. CASE req[r].user \notin W
      BY <1>2, <1>3, <2>2 DEF Sound, Whole, Follows
    <2>3. QED
      BY <2>1, <2>2
  <1>4. QED
    BY <1>2, <1>3 DEF Sound, Whole, Dated, Whose

LEMMA EvictStep ==
    ASSUME Admitted, NEW u \in User, EvictUser(u)
    PROVE  Admitted'
  <1> DEFINE e == Read(u) \/ resolved[u] # Unresolved
             d == [groups |-> groups, excused |-> e]
  <1>1. /\ users' = [users EXCEPT ![u] = NoProfile] /\ since' = [since EXCEPT ![u] = d]
        /\ UNCHANGED <<outside, keys, conf, resolved, stored, req>>
    BY DEF EvictUser
  <1>2. e \in BOOLEAN /\ (Read(u) => e) /\ (resolved[u] # Unresolved => e)
    OBVIOUS
  <1> HIDE DEF e
  <1>3. /\ d \in [groups : 0 .. MaxGroups, excused : BOOLEAN] /\ d.groups <= groups
        /\ d.excused = e
    BY <1>2, AdmissionBounds DEF Admitted, TypeOK
  <1> HIDE DEF d
  <1>4. NoProfile \in Profile
    BY AdmissionBounds DEF NoProfile, Profile
  <1>5. TypeOK'
    BY <1>1, <1>3, <1>4 DEF Admitted, TypeOK, outside, azure, stored
  <1>6. \A v \in User : /\ since'[v] = (IF v = u THEN d ELSE since[v])
                        /\ users'[v] = (IF v = u THEN NoProfile ELSE users[v])
    BY <1>1 DEF Admitted, TypeOK
  <1>7. ASSUME NEW v \in User PROVE Remembered(v, users[v], resolved[v])'
    <2>1. Remembered(v, users[v], resolved[v])
      BY DEF Admitted
    <2>2. CASE v = u
      BY <1>1, <1>2, <1>3, <1>6, <2>1, <2>2 DEF Remembered, Follows, NoProfile
    <2>3. CASE v # u
      BY <1>1, <1>6, <2>1, <2>3 DEF Remembered, Follows
    <2>4. QED
      BY <2>2, <2>3
  <1>8. \A v \in User : since'[v].groups <= groups'
    BY <1>1, <1>3, <1>6 DEF Admitted, outside
  <1>9. \A r \in Request : Sound(req[r])'
    <2>1. \A v \in User \ {u} : since'[v] = since[v]
      BY <1>6
    <2>2. \A v \in {u} : since'[v].excused \/ ~Read(v)
      BY <1>2, <1>3, <1>6
    <2>3. UNCHANGED <<azure, guessed, req>> /\ {u} \in SUBSET User
      BY <1>1 DEF outside, stored
    <2>4. QED
      BY <2>1, <2>2, <2>3, SinceNow
  <1>10. QED
    BY <1>1, <1>5, <1>7, <1>8, <1>9, KeysKept DEF Admitted, OwnSession, Whose, stored

LEMMA LoadIsTyped ==
    ASSUME NEW lists, NEW c \in 1 .. MaxConfig
    PROVE  /\ Load(lists, c) \in [User -> Profile]
           /\ \A u \in User : /\ Load(lists, c)[u] # NoProfile => Load(lists, c)[u].conf = c
                             /\ Load(lists, c)[u].from # "epicor"
  <1>1. /\ Configured(c) \in Profile /\ NoProfile \in Profile
        /\ Configured(c).conf = c /\ Configured(c).from = "file"
        /\ NoProfile.from = "none"
    BY AdmissionBounds DEF Configured, NoProfile, Profile
  <1>2. QED
    BY <1>1 DEF Load

LEMMA ReloadStep ==
    ASSUME Admitted, Reload
    PROVE  Admitted'
  <1>1. /\ conf' = disk.version /\ users' = Load(disk.lists, disk.version)
        /\ since' = [u \in User |-> [groups |-> groups, excused |-> Read(u)]]
        /\ resolved' = [u \in User |-> Unresolved]
        /\ UNCHANGED <<outside, keys, stored, req>>
    BY DEF Reload
  <1>2. disk.version \in 1 .. MaxConfig /\ groups \in 0 .. MaxGroups /\ groups <= groups
    BY AdmissionBounds DEF Admitted, TypeOK
  <1>3. Unresolved \in Resolution
    BY AdmissionBounds DEF Unresolved, Resolution
  <1>4. \A u \in User : Read(u) \in BOOLEAN
    BY DEF Read
  <1>5. users' \in [User -> Profile]
    BY <1>1, <1>2, LoadIsTyped
  <1>6. since' \in [User -> [groups : 0 .. MaxGroups, excused : BOOLEAN]]
    BY <1>1, <1>2, <1>4
  <1>7. TypeOK'
    BY <1>1, <1>2, <1>3, <1>5, <1>6 DEF Admitted, TypeOK, outside, azure, stored
  <1>8. \A u \in User : Remembered(u, users[u], resolved[u])'
    BY <1>1, <1>2, LoadIsTyped DEF Remembered
  <1>9. \A u \in User : since'[u].groups <= groups'
    BY <1>1, <1>2 DEF outside
  <1>10. \A r \in Request : Sound(req[r])'
    <2>1. \A u \in User : since'[u].excused = Read(u)
      BY <1>1
    <2>2. \A u \in User : since'[u].excused \/ ~Read(u)
      BY <2>1
    <2>3. QED
      BY <1>1, <2>2, SinceNow DEF outside, stored
  <1>11. QED
    BY <1>1, <1>7, <1>8, <1>9, <1>10, KeysKept DEF Admitted, OwnSession, Whose, stored

LEMMA EditFileStep ==
    ASSUME Admitted, EditFile
    PROVE  Admitted'
  <1>1. /\ disk.version < MaxConfig
        /\ UNCHANGED <<mover, azure, groups, keys, memory, stored, req>>
    BY DEF EditFile
  <1>2. PICK lists \in Listed, valid \in BOOLEAN :
          disk' = [version |-> disk.version + 1, lists |-> lists, valid |-> valid]
    BY DEF EditFile
  <1>3. Listed \subseteq SUBSET User
    <2>1. Visitors \subseteq User
      BY AdmissionAssumption DEF Visitors, Admitted, TypeOK
    <2>2. QED
      BY <2>1 DEF Listed
  <1>4. disk.version + 1 \in 1 .. MaxConfig
    BY <1>1, AdmissionAssumption DEF Admitted, TypeOK
  <1>5. disk' \in [version : 1 .. MaxConfig, lists : SUBSET User, valid : BOOLEAN]
    BY <1>2, <1>3, <1>4
  <1>6. TypeOK'
    BY <1>1, <1>5 DEF Admitted, TypeOK, azure, memory, stored
  <1>7. \A u \in User : Remembered(u, users[u], resolved[u])'
    BY <1>1 DEF Admitted, Remembered, Follows, memory
  <1>8. QED
    BY <1>1, <1>6, <1>7, RequestsKept
       DEF Admitted, OwnSession, KeysDated, azure, memory, Whose, stored

LEMMA ChangeGroupsStep ==
    ASSUME Admitted, ChangeGroups
    PROVE  Admitted'
  <1>1. /\ groups < MaxGroups /\ groups' = groups + 1
        /\ UNCHANGED <<mover, azure, disk, keys, memory, stored, req>>
    BY DEF ChangeGroups
  <1>2. groups' \in 1 .. MaxGroups
    BY <1>1, AdmissionAssumption DEF Admitted, TypeOK
  <1>3. TypeOK'
    BY <1>1, <1>2 DEF Admitted, TypeOK, azure, memory, stored
  <1>4. ASSUME NEW u \in User PROVE since'[u].groups <= groups'
    <2>1. since[u].groups \in Nat /\ groups \in Nat /\ since[u].groups <= groups
      BY DEF Admitted, TypeOK
    <2>2. since'[u] = since[u]
      BY <1>1 DEF memory
    <2>3. since[u].groups <= groups + 1
      BY <2>1
    <2>4. QED
      BY <1>1, <2>2, <2>3
  <1>5. \A u \in User : Remembered(u, users[u], resolved[u])'
    BY <1>1 DEF Admitted, Remembered, Follows, memory
  <1>6. QED
    BY <1>1, <1>3, <1>4, <1>5, RequestsKept
       DEF Admitted, OwnSession, KeysDated, azure, memory, Whose, stored

LEMMA PublishStep ==
    ASSUME Admitted, NEW k \in Key, Publish(k)
    PROVE  Admitted'
  <1>1. /\ published' = published \cup {k} /\ withdrawn' = [withdrawn EXCEPT ![k] = 0]
        /\ UNCHANGED <<mover, groups, disk, keys, memory, stored, req>>
    BY DEF Publish
  <1>2. \A j \in Key : /\ withdrawn'[j] = (IF j = k THEN 0 ELSE withdrawn[j])
                       /\ withdrawn[j] \in Nat
    BY <1>1 DEF Admitted, TypeOK, Ages
  <1>3. TypeOK'
    <2>1. published' \in (SUBSET Key) \ {{}}
      BY <1>1 DEF Admitted, TypeOK
    <2>2. withdrawn' \in [Key -> Ages]
      BY <1>1, AdmissionBounds DEF Admitted, TypeOK
    <2>3. UNCHANGED <<mover, groups, disk, keys, conf, users, resolved, since, stored, req>>
      BY <1>1 DEF memory
    <2>4. TypeOK
      BY DEF Admitted
    <2>5. QED
      BY <2>1, <2>2, <2>3, <2>4 DEF TypeOK, Whose, stored
  <1>4. KeysDated'
    <2>1. \A j \in published' : withdrawn'[j] = 0
      BY <1>1, <1>2 DEF Admitted, KeysDated, TypeOK
    <2>2. ASSUME keys.age <= TTL, NEW j \in keys.set
          PROVE  withdrawn'[j] <= keys.age + FetchLimit
      BY <1>2, <2>2, AdmissionAssumption DEF Admitted, KeysDated, TypeOK
    <2>3. QED
      BY <1>1, <2>1, <2>2 DEF KeysDated
  <1>5. ASSUME NEW r \in Request PROVE Sound(req[r])'
    <2>1. /\ UNCHANGED <<req, since, guessed>> /\ Sound(req[r]) /\ req[r] \in Local
          /\ req[r].age \in Nat /\ req[r].reply \in SUBSET Key
      BY <1>1 DEF memory, stored, Admitted, TypeOK, Local
    <2>2. ASSUME req[r].pc \in {"fetch", "forced"}, NEW j \in req[r].reply
          PROVE  withdrawn'[j] <= req[r].age
      <3>1. withdrawn[j] <= req[r].age
        BY <2>1, <2>2 DEF Sound, Dated
      <3>2. QED
        BY <1>2, <2>1, <3>1
    <2>3. Dated(req[r])'
      BY <1>1, <2>1, <2>2 DEF Sound, Dated
    <2>4. QED
      BY <2>1, <2>3 DEF Sound, Whole, Follows, Whose
  <1>6. \A u \in User : Remembered(u, users[u], resolved[u])'
    BY <1>1 DEF Admitted, Remembered, Follows, memory
  <1>7. QED
    BY <1>1, <1>3, <1>4, <1>5, <1>6 DEF Admitted, OwnSession, Whose, memory, stored

LEMMA WithdrawStep ==
    ASSUME Admitted, NEW k \in Key, Withdraw(k)
    PROVE  Admitted'
  <1>1. /\ published # {k} /\ k \in published /\ published' = published \ {k}
        /\ req' = [r \in Request |->
                     IF req[r].key = k THEN [req[r] EXCEPT !.valid = FALSE] ELSE req[r]]
        /\ UNCHANGED <<mover, withdrawn, groups, disk, keys, memory, stored>>
    BY DEF Withdraw
  <1>2. published' \in (SUBSET Key) \ {{}}
    BY <1>1 DEF Admitted, TypeOK
  <1>3. ASSUME NEW r \in Request PROVE req'[r] \in Local /\ Sound(req[r])'
    <2>1. /\ req[r] \in Local /\ Sound(req[r])
          /\ UNCHANGED <<since, withdrawn, guessed>>
      BY <1>1 DEF Admitted, TypeOK, memory, stored
    <2>2. CASE req[r].key = k
      <3> DEFINE q == [req[r] EXCEPT !.valid = FALSE]
      <3>1. req'[r] = q
        BY <1>1, <2>2
      <3>2. /\ q \in Local /\ q.pc = req[r].pc /\ q.user = req[r].user /\ q.key = req[r].key
            /\ q.sid = req[r].sid /\ q.read = req[r].read /\ q.late = req[r].late
            /\ q.valid = FALSE /\ q.as = req[r].as /\ q.reply = req[r].reply
            /\ q.age = req[r].age
        BY <2>1 DEF Local
      <3> HIDE DEF q
      <3>3. QED
        BY <2>1, <3>1, <3>2 DEF Sound, Whole, Dated, Follows, Whose
    <2>3. CASE req[r].key # k
      <3>1. req'[r] = req[r]
        BY <1>1, <2>3
      <3>2. QED
        BY <1>1, <2>1, <2>3, <3>1 DEF Sound, Whole, Dated, Follows, Whose
    <2>4. QED
      BY <2>2, <2>3
  <1>4. req' \in [Request -> Local]
    BY <1>1, <1>3
  <1>5. TypeOK'
    BY <1>1, <1>2, <1>4 DEF Admitted, TypeOK, memory, stored
  <1>6. \A u \in User : Remembered(u, users[u], resolved[u])'
    BY <1>1 DEF Admitted, Remembered, Follows, memory
  <1>7. QED
    BY <1>1, <1>3, <1>5, <1>6 DEF Admitted, OwnSession, KeysDated, memory, Whose, stored

LEMMA LapseStep ==
    ASSUME Admitted, NEW i \in User \cup TransportId, Lapse(i)
    PROVE  Admitted'
  <1>1. /\ sessions' = [sessions EXCEPT ![i] = NoOne]
        /\ UNCHANGED <<outside, keys, memory, guessed, req>>
    BY DEF Lapse
  <1>2. TypeOK'
    BY <1>1 DEF Admitted, TypeOK, outside, azure, memory
  <1>3. OwnSession'
    BY <1>1 DEF Admitted, TypeOK, OwnSession, Whose
  <1>4. \A u \in User : Remembered(u, users[u], resolved[u])'
    BY <1>1 DEF Admitted, Remembered, Follows, memory
  <1>5. QED
    BY <1>1, <1>2, <1>3, <1>4, RequestsKept, KeysKept DEF Admitted, outside, memory, Whose

LEMMA TickStep ==
    ASSUME Admitted, Tick
    PROVE  Admitted'
  <1>1. /\ \A r \in Request : Fetching(r) => req[r].age < FetchLimit
        /\ keys' = [keys EXCEPT !.age = IF @ <= TTL THEN @ + 1 ELSE @]
        /\ withdrawn' = [k \in Key |->
                           IF k \notin published /\ withdrawn[k] <= TTL + FetchLimit
                           THEN withdrawn[k] + 1 ELSE withdrawn[k]]
        /\ req' = [r \in Request |->
                     IF Fetching(r) THEN [req[r] EXCEPT !.age = @ + 1] ELSE req[r]]
        /\ UNCHANGED <<mover, published, groups, disk, memory, stored>>
    BY DEF Tick
  <1>2. \A k \in Key : /\ withdrawn[k] \in Nat /\ withdrawn'[k] \in Ages
                       /\ withdrawn'[k] <= withdrawn[k] + 1
                       /\ k \in published => withdrawn'[k] = withdrawn[k]
    BY <1>1, AdmissionAssumption DEF Admitted, TypeOK, Ages
  <1>3. /\ keys.set \in SUBSET Key /\ keys.age \in Nat /\ keys'.set = keys.set
        /\ keys'.age = (IF keys.age <= TTL THEN keys.age + 1 ELSE keys.age)
        /\ keys' \in [set : SUBSET Key, age : 0 .. TTL + 1]
    BY <1>1, AdmissionAssumption DEF Admitted, TypeOK
  <1>4. ASSUME NEW r \in Request PROVE req'[r] \in Local /\ Sound(req[r])'
    <2>1. /\ req[r] \in Local /\ Sound(req[r])
          /\ UNCHANGED <<since, published, guessed>>
      BY <1>1 DEF Admitted, TypeOK, memory, stored
    <2>2. CASE Fetching(r)
      <3> DEFINE q == [req[r] EXCEPT !.age = @ + 1]
      <3>1. req'[r] = q
        BY <1>1, <2>2
      <3>2. req[r].age \in 0 .. FetchLimit /\ req[r].age < FetchLimit
            /\ req[r].age \in Nat /\ req[r].reply \in SUBSET Key
        BY <1>1, <2>1, <2>2 DEF Local
      <3>3. req[r].age + 1 \in 0 .. FetchLimit
        BY <3>2, AdmissionAssumption
      <3>4. /\ q \in Local /\ q.pc = req[r].pc /\ q.user = req[r].user /\ q.key = req[r].key
            /\ q.sid = req[r].sid /\ q.read = req[r].read /\ q.late = req[r].late
            /\ q.valid = req[r].valid /\ q.as = req[r].as /\ q.reply = req[r].reply
            /\ q.failed = req[r].failed /\ q.age = req[r].age + 1
        BY <2>1, <3>3 DEF Local
      <3> HIDE DEF q
      <3>5. \A k \in req[r].reply : withdrawn'[k] <= req[r].age + 1
        <4>1. \A k \in req[r].reply : withdrawn[k] <= req[r].age
          BY <2>1, <2>2 DEF Sound, Dated, Fetching
        <4>2. ASSUME NEW k \in req[r].reply PROVE withdrawn'[k] <= req[r].age + 1
          <5>1. PICK w \in Nat : w = withdrawn[k] /\ withdrawn'[k] <= w + 1
            BY <1>2, <3>2
          <5>2. withdrawn'[k] \in Nat
            BY <1>2, <3>2, AdmissionBounds
          <5>3. w <= req[r].age
            BY <4>1, <5>1
          <5>4. QED
            BY <3>2, <5>1, <5>2, <5>3
        <4>3. QED
          BY <4>2
      <3>6. QED
        BY <2>1, <3>1, <3>4, <3>5 DEF Sound, Whole, Dated, Follows, Whose
    <2>3. CASE ~Fetching(r)
      <3>1. req'[r] = req[r]
        BY <1>1, <2>3
      <3>2. QED
        BY <2>1, <2>3, <3>1 DEF Sound, Whole, Dated, Follows, Fetching, Whose
    <2>4. QED
      BY <2>2, <2>3
  <1>5. req' \in [Request -> Local]
    BY <1>1, <1>4
  <1>6. withdrawn' \in [Key -> Ages]
    BY <1>1, <1>2
  <1>7. TypeOK'
    BY <1>1, <1>3, <1>5, <1>6 DEF Admitted, TypeOK, memory, stored
  <1>8. KeysDated'
    <2>1. \A k \in published : withdrawn'[k] = 0
      BY <1>2 DEF Admitted, KeysDated, TypeOK
    <2>2. ASSUME keys'.age <= TTL, NEW k \in keys.set
          PROVE  withdrawn'[k] <= keys'.age + FetchLimit
      <3>1. keys.age <= TTL /\ keys'.age = keys.age + 1
        BY <1>3, <2>2, AdmissionAssumption
      <3>2. withdrawn[k] <= keys.age + FetchLimit
        BY <2>2, <3>1 DEF Admitted, KeysDated
      <3>3. PICK w \in Nat : w = withdrawn[k] /\ withdrawn'[k] <= w + 1
        BY <1>2, <1>3
      <3>4. withdrawn'[k] \in Nat
        BY <1>2, <1>3, AdmissionBounds
      <3>5. QED
        BY <1>3, <3>1, <3>2, <3>3, <3>4, AdmissionAssumption
    <2>3. QED
      BY <1>1, <1>3, <2>1, <2>2 DEF KeysDated
  <1>9. \A u \in User : Remembered(u, users[u], resolved[u])'
    BY <1>1 DEF Admitted, Remembered, Follows, memory
  <1>10. QED
    BY <1>1, <1>4, <1>7, <1>8, <1>9 DEF Admitted, OwnSession, memory, Whose, stored

-----------------------------------------------------------------------------
LEMMA InitAdmitted == Init => Admitted
  <1>1. SUFFICES ASSUME Init PROVE Admitted
    OBVIOUS
  <1>2. PICK k \in Key : published = {k}
    BY <1>1 DEF Init
  <1>3. PICK lists \in Listed : /\ disk = [version |-> 1, lists |-> lists, valid |-> TRUE]
                               /\ users = Load(lists, 1)
    BY <1>1 DEF Init
  <1>4. Listed \subseteq SUBSET User
    <2>1. Visitors \subseteq User
      BY <1>1, AdmissionAssumption DEF Visitors, Init
    <2>2. QED
      BY <2>1 DEF Listed
  <1>5. /\ users \in [User -> Profile]
        /\ \A u \in User : /\ users[u] # NoProfile => users[u].conf = 1
                          /\ users[u].from # "epicor"
    BY <1>3, LoadIsTyped, AdmissionBounds
  <1>6. Unresolved \in Resolution
    BY AdmissionBounds DEF Unresolved, Resolution
  <1>7. /\ mover \in DOMAIN Visits /\ withdrawn = [j \in Key |-> 0]
        /\ keys = [set |-> {}, age |-> 0] /\ groups = 1 /\ conf = 1
        /\ resolved = [u \in User |-> Unresolved]
        /\ since = [u \in User |-> [groups |-> 0, excused |-> FALSE]]
        /\ sessions = [i \in User \cup TransportId |-> NoOne] /\ guessed = {}
        /\ req = [r \in Request |-> Idle]
    BY <1>1 DEF Init
  <1>8. TypeOK
    <2>1. disk \in [version : 1 .. MaxConfig, lists : SUBSET User, valid : BOOLEAN]
      BY <1>3, <1>4, AdmissionBounds
    <2>2. req \in [Request -> Local]
      BY <1>7, IdleIsSound
    <2>3. withdrawn \in [Key -> Ages] /\ keys \in [set : SUBSET Key, age : 0 .. TTL + 1]
      BY <1>7, AdmissionBounds
    <2>4. since \in [User -> [groups : 0 .. MaxGroups, excused : BOOLEAN]]
      BY <1>7, AdmissionBounds
    <2>5. /\ resolved \in [User -> Resolution]
          /\ sessions \in [User \cup TransportId -> User \cup {NoOne}]
          /\ guessed \subseteq User \X User
      BY <1>6, <1>7
    <2>6. published \in (SUBSET Key) \ {{}}
      BY <1>2
    <2>7. mover \in DOMAIN Visits /\ groups \in 1 .. MaxGroups /\ conf \in 1 .. MaxConfig
      BY <1>7, AdmissionBounds
    <2>8. users \in [User -> Profile]
      BY <1>5
    <2>9. QED
      BY <2>1, <2>2, <2>3, <2>4, <2>5, <2>6, <2>7, <2>8 DEF TypeOK
  <1>9. KeysDated
    BY <1>2, <1>7 DEF KeysDated
  <1>10. OwnSession /\ \A u \in User : since[u].groups <= groups
    BY <1>7 DEF OwnSession
  <1>11. \A u \in User : Remembered(u, users[u], resolved[u])
    BY <1>5, <1>7 DEF Remembered
  <1>12. \A r \in Request : Sound(req[r])
    BY <1>7, IdleIsSound
  <1>13. QED
    BY <1>8, <1>9, <1>10, <1>11, <1>12 DEF Admitted

LEMMA NextAdmitted == Admitted /\ [Next]_vars => Admitted'
  <1>1. SUFFICES ASSUME Admitted, [Next]_vars PROVE Admitted'
    OBVIOUS
  <1>2. ASSUME NEW r \in Request, NEW u \in User, NEW k \in Key,
               NEW sid \in User \cup TransportId, Arrive(r, u, k, sid)
        PROVE  Admitted'
    BY <1>1, <1>2, ArriveStep
  <1>3. ASSUME NEW r \in Request,
               \/ AzureServes(r) \/ Fetched(r) \/ FetchFails(r)
               \/ EpicorReads(r) \/ Identified(r) \/ NotIdentified(r)
               \/ Resolved(r) \/ NotResolved(r) \/ Done(r)
        PROVE  Admitted'
    BY <1>1, <1>3, AzureServesStep, FetchedStep, FetchFailsStep, EpicorReadsStep,
       IdentifiedStep, NotIdentifiedStep, ResolvedStep, NotResolvedStep, DoneStep
  <1>4. ASSUME NEW u \in User, HotSwap(u) \/ EvictUser(u) PROVE Admitted'
    BY <1>1, <1>4, HotSwapStep, EvictStep
  <1>5. CASE Reload \/ EditFile \/ ChangeGroups \/ Tick
    BY <1>1, <1>5, ReloadStep, EditFileStep, ChangeGroupsStep, TickStep
  <1>6. ASSUME NEW k \in Key, Publish(k) \/ Withdraw(k) PROVE Admitted'
    BY <1>1, <1>6, PublishStep, WithdrawStep
  <1>7. ASSUME NEW i \in User \cup TransportId, Lapse(i) PROVE Admitted'
    BY <1>1, <1>7, LapseStep
  <1>8. CASE UNCHANGED vars
    <2>1. UNCHANGED <<outside, keys, memory, stored, req>>
      BY <1>8 DEF vars
    <2>2. TypeOK'
      BY <1>1, <2>1 DEF Admitted, TypeOK, outside, azure, memory, stored
    <2>3. \A u \in User : Remembered(u, users[u], resolved[u])'
      BY <1>1, <2>1 DEF Admitted, Remembered, Follows, memory
    <2>4. QED
      BY <1>1, <2>1, <2>2, <2>3, RequestsKept, KeysKept
         DEF Admitted, OwnSession, outside, memory, Whose, stored
  <1>9. QED
    BY <1>1, <1>2, <1>3, <1>4, <1>5, <1>6, <1>7, <1>8 DEF Next

(* The inductive invariant: Admitted.                                      *)
THEOREM AdmittedAlways == Spec => []Admitted
  BY InitAdmitted, NextAdmitted, PTL DEF Spec

-----------------------------------------------------------------------------
(* Every variable of Admission keeps its type.                             *)
THEOREM AdmissionTypeCorrect == Spec => []TypeOK
  BY AdmittedAlways, PTL DEF Admitted

(* However Azure rotates its keys and the answers to overlapping fetches   *)
(* arrive, nobody with a key that is served is signed out, but by a fetch  *)
(* of the request's own that failed.                                       *)
THEOREM ServedKeysAreAccepted == Spec => []ValidAccepted
  <1>1. Admitted => ValidAccepted
    BY DEF Admitted, Sound, ValidAccepted
  <1>2. QED
    BY <1>1, AdmittedAlways, PTL

(* A withdrawn key is accepted for the time to live of the cache and the   *)
(* time-out of a fetch, and no longer.                                     *)
THEOREM WithdrawnKeysDoExpire == Spec => []WithdrawnKeysExpire
  <1>1. Admitted => WithdrawnKeysExpire
    BY DEF Admitted, Sound, WithdrawnKeysExpire
  <1>2. QED
    BY <1>1, AdmittedAlways, PTL

(* What is remembered of a user was worked out by the configuration in     *)
(* force, although resolutions wait for Epicor while it is reloaded.       *)
THEOREM ConfigIsInForce == Spec => []ConfigInForce
  <1>1. Admitted => ConfigInForce
    BY DEF Admitted, Remembered, ConfigInForce
  <1>2. QED
    BY <1>1, AdmittedAlways, PTL

(* A profile from Epicor is not older than its user's last eviction or     *)
(* reload, but for an answer that was around at the time.                  *)
THEOREM ProfilesFollowEvictions == Spec => []ProfileFollowsEviction
  <1>1. Admitted => ProfileFollowsEviction
    BY DEF Admitted, Remembered, Follows, ProfileFollowsEviction
  <1>2. QED
    BY <1>1, AdmittedAlways, PTL

(* However session ids are shared or guessed, a request runs in a session  *)
(* of its own user's, or in one that another has made under that user's    *)
(* address: sending an id never takes a session over.                      *)
THEOREM SessionsAreCallers == Spec => []SessionIsCallers
  <1>1. Admitted => SessionIsCallers
    BY DEF Admitted, Sound, Whose, SessionIsCallers
  <1>2. QED
    BY <1>1, AdmittedAlways, PTL

\* A token that is checked leaves the memory alone.
LEMMA CheckingKeepsMemory ==
    ASSUME NEW r, NEW q, NEW set, Check(r, q, set) \/ Recheck(r, q, set) \/ Refuse(r, q)
    PROVE  UNCHANGED memory
  BY DEF Check, Recheck, Refuse, Admit

LEMMA ProvidingKeepsProfiles ==
    ASSUME TypeOK, NEW r \in Request, NEW q, NEW resolution,
           Provide(r, q, resolution) \/ UNCHANGED users
    PROVE  \A u \in User : users[u] # NoProfile => users'[u] = users[u]
  <1>1. CASE users' = users
    BY <1>1
  <1>2. CASE users' # users
    <2> DEFINE p == [from |-> "epicor", conf |-> resolution.conf,
                     groups |-> resolution.groups, swapped |-> FALSE]
    <2>1. users[q.user] = NoProfile /\ users' = [users EXCEPT ![q.user] = p]
      BY <1>2 DEF Provide
    <2> HIDE DEF p
    <2>2. \A u \in User : u # q.user => users'[u] = users[u]
      BY <2>1 DEF TypeOK
    <2>3. QED
      BY <2>1, <2>2
  <1>3. QED
    BY <1>1, <1>2

LEMMA RequestsKeepProfiles ==
    ASSUME TypeOK, NEW r \in Request,
           \/ \E u \in User, k \in Key, sid \in User \cup TransportId : Arrive(r, u, k, sid)
           \/ AzureServes(r) \/ Fetched(r) \/ FetchFails(r)
           \/ EpicorReads(r) \/ Identified(r) \/ NotIdentified(r)
           \/ Resolved(r) \/ NotResolved(r) \/ Done(r)
    PROVE  \A u \in User : users[u] # NoProfile => users'[u] = users[u]
  <1>1. ASSUME UNCHANGED memory
        PROVE  \A u \in User : users[u] # NoProfile => users'[u] = users[u]
    BY <1>1 DEF memory
  <1>2. ASSUME NEW u \in User, NEW k \in Key, NEW sid \in User \cup TransportId,
               Arrive(r, u, k, sid)
        PROVE  UNCHANGED memory
    BY <1>2, CheckingKeepsMemory DEF Arrive
  <1>3. Fetched(r) => UNCHANGED memory
    BY CheckingKeepsMemory DEF Fetched
  <1>4. FetchFails(r) => UNCHANGED memory
    BY CheckingKeepsMemory DEF FetchFails
  <1>5. AzureServes(r) \/ EpicorReads(r) \/ NotResolved(r) \/ Done(r) => UNCHANGED memory
    BY DEF AzureServes, EpicorReads, NotResolved, Done
  <1>6. CASE Identified(r)
    BY <1>6, ProvidingKeepsProfiles DEF Identified
  <1>7. CASE NotIdentified(r)
    <2>1. \/ UNCHANGED users
          \/ \E q, resolution : Provide(r, q, resolution)
      BY <1>7 DEF NotIdentified, Legacy
    <2>2. QED
      BY <2>1, ProvidingKeepsProfiles
  <1>8. CASE Resolved(r)
    <2>1. \/ UNCHANGED users
          \/ \E q, resolution : Provide(r, q, resolution)
      BY <1>8 DEF Resolved, Legacy
    <2>2. QED
      BY <2>1, ProvidingKeepsProfiles
  <1>9. QED
    BY <1>1, <1>2, <1>3, <1>4, <1>5, <1>6, <1>7, <1>8

(* Only a reload or an eviction takes a profile away; a resolution that was*)
(* under way never replaces one.                                           *)
THEOREM ProfilesAreKept == Spec => ProfilesKept
  <1> DEFINE Kept == \A u \in User :
                users[u] # NoProfile =>
                   \/ users'[u] \in {users[u], [users[u] EXCEPT !.swapped = TRUE]}
                   \/ Reload
                   \/ EvictUser(u)
  <1>1. TypeOK /\ [Next]_vars => [Kept]_vars
    <2>1. SUFFICES ASSUME TypeOK, Next PROVE Kept
      OBVIOUS
    <2>2. SUFFICES ASSUME NEW u \in User, users[u] # NoProfile, ~Reload, ~EvictUser(u)
                   PROVE  users'[u] \in {users[u], [users[u] EXCEPT !.swapped = TRUE]}
      OBVIOUS
    <2>3. ASSUME NEW r \in Request,
               \/ \E v \in User, k \in Key, sid \in User \cup TransportId : Arrive(r, v, k, sid)
               \/ AzureServes(r) \/ Fetched(r) \/ FetchFails(r)
               \/ EpicorReads(r) \/ Identified(r) \/ NotIdentified(r)
               \/ Resolved(r) \/ NotResolved(r) \/ Done(r)
          PROVE  users'[u] = users[u]
      BY <2>1, <2>2, <2>3, RequestsKeepProfiles
    <2>4. ASSUME NEW v \in User, HotSwap(v)
          PROVE  users'[u] \in {users[u], [users[u] EXCEPT !.swapped = TRUE]}
      <3>1. users' = [users EXCEPT ![v].swapped = TRUE]
        BY <2>4 DEF HotSwap
      <3>2. users'[u] = IF u = v THEN [users[u] EXCEPT !.swapped = TRUE] ELSE users[u]
        BY <2>1, <3>1 DEF TypeOK
      <3>3. QED
        BY <3>2
    <2>5. ASSUME NEW v \in User, EvictUser(v) PROVE users'[u] = users[u]
      <3>1. users' = [users EXCEPT ![v] = NoProfile] /\ u # v
        BY <2>2, <2>5 DEF EvictUser
      <3>2. QED
        BY <2>1, <3>1 DEF TypeOK
    <2>6. CASE \/ EditFile \/ ChangeGroups \/ (\E k \in Key : Publish(k) \/ Withdraw(k))
               \/ (\E i \in User \cup TransportId : Lapse(i)) \/ Tick
      <3>1. UNCHANGED memory
        BY <2>6 DEF EditFile, ChangeGroups, Publish, Withdraw, Lapse, Tick
      <3>2. QED
        BY <3>1 DEF memory
    <2>7. QED
      BY <2>1, <2>2, <2>3, <2>4, <2>5, <2>6 DEF Next
  <1>2. QED
    BY <1>1, AdmissionTypeCorrect, PTL DEF Spec, ProfilesKept

-----------------------------------------------------------------------------
(* RequestPath.                                                            *)

\* The failures that the breaker drops are failures it had.
LEMMA PrunedFacts ==
    ASSUME failures \in Seq(0 .. Window + 1)
    PROVE  /\ Pruned \in Seq(0 .. Window + 1)
           /\ Len(Pruned) \in Nat /\ Len(Pruned) <= Len(failures)
  <1>1. DOMAIN failures = 1 .. Len(failures) /\ Len(failures) \in Nat
    OBVIOUS
  <1>2. /\ IsFiniteSet(1 .. Len(failures))
        /\ Cardinality(1 .. Len(failures)) = Len(failures)
    BY <1>1, FS_Interval
  <1>3. Old \subseteq 1 .. Len(failures)
    BY <1>1 DEF Old
  <1>4. /\ IsFiniteSet(Old) /\ Cardinality(Old) \in Nat
        /\ Cardinality(Old) <= Len(failures)
    BY <1>2, <1>3, FS_Subset, FS_CardinalityType
  <1>5. \A i \in Cardinality(Old) + 1 .. Len(failures) : failures[i] \in 0 .. Window + 1
    <2>1. \A i \in 1 .. Len(failures) : failures[i] \in 0 .. Window + 1
      BY ElementOfSeq, Zenon
    <2>2. Cardinality(Old) + 1 .. Len(failures) \subseteq 1 .. Len(failures)
      BY <1>1, <1>4
    <2>3. QED
      BY <2>1, <2>2
  <1>6. /\ Pruned \in Seq(0 .. Window + 1)
        /\ Len(Pruned) = IF Cardinality(Old) + 1 <= Len(failures)
                         THEN Len(failures) - Cardinality(Old) ELSE 0
    BY <1>1, <1>4, <1>5, SubSeqProperties DEF Pruned
  <1>7. QED
    BY <1>1, <1>4, <1>6

LEMMA FunctionsAreSeqs ==
    ASSUME NEW S, NEW n \in Nat
    PROVE  [1 .. n -> S] \subseteq Seq(S)
  <1>1. Seq(S) = UNION {[1 .. k -> S] : k \in Nat}
    BY SeqDef
  <1>2. QED
    BY <1>1

LEMMA InToolFacts ==
    ASSUME NEW S \in SUBSET Handler
    PROVE  /\ IsFiniteSet(S) /\ Cardinality(S) \in Nat
           /\ Cardinality(S) <= Cardinality(Handler)
           /\ Cardinality(Handler) \in Nat
  BY RequestPathAssumption, FS_Subset, FS_CardinalityType

LEMMA PathTypeInit == PathInit => PathTypeOK
  <1> SUFFICES ASSUME PathInit PROVE PathTypeOK
    OBVIOUS
  <1>1. failures \in Seq(0 .. Window + 1)
    BY EmptySeq DEF PathInit
  <1>2. QED
    BY <1>1 DEF PathInit, PathTypeOK

LEMMA PathTypeStep == PathTypeOK /\ [PathNext]_pathVars => PathTypeOK'
  <1> SUFFICES ASSUME PathTypeOK, [PathNext]_pathVars PROVE PathTypeOK'
    OBVIOUS
  <1> USE RequestPathAssumption DEF PathTypeOK
  <1>1. ASSUME NEW r \in Handler, Prime(r) PROVE PathTypeOK'
    BY <1>1 DEF Prime
  <1>2. ASSUME NEW r \in Handler, Waited(r) PROVE PathTypeOK'
    BY <1>2 DEF Waited
  <1>3. ASSUME NEW r \in Handler, Call(r) PROVE PathTypeOK'
    BY <1>3, PrunedFacts DEF Call
  <1>4. ASSUME NEW r \in Handler, Succeed(r) PROVE PathTypeOK'
    BY <1>4 DEF Succeed
  <1>5. ASSUME NEW r \in Handler, Fail(r) PROVE PathTypeOK'
    BY <1>5 DEF Fail
  <1>6. ASSUME NEW r \in Handler, Gone(r) PROVE PathTypeOK'
    BY <1>6 DEF Gone
  <1>7. ASSUME NEW t \in Task, PrimeEnds(t) PROVE PathTypeOK'
    BY <1>7 DEF PrimeEnds
  <1>8. ASSUME NEW t \in Task, Forget(t) PROVE PathTypeOK'
    BY <1>8 DEF Forget
  <1>9. CASE PathTick
    <2>1. failures' \in Seq(0 .. Window + 1)
      <3>1. /\ Len(failures) \in Nat /\ DOMAIN failures = 1 .. Len(failures)
            /\ \A i \in 1 .. Len(failures) : failures[i] \in 0 .. Window + 1
        BY ElementOfSeq
      <3>2. failures' \in [1 .. Len(failures) -> 0 .. Window + 1]
        BY <1>9, <3>1 DEF PathTick
      <3>3. QED
        BY <3>1, <3>2, FunctionsAreSeqs
    <2>2. QED
      BY <1>9, <2>1 DEF PathTick
  <1>10. CASE UNCHANGED pathVars
    BY <1>10 DEF pathVars
  <1>11. QED
    BY <1>1, <1>2, <1>3, <1>4, <1>5, <1>6, <1>7, <1>8, <1>9, <1>10 DEF PathNext

(* Every reachable state of the requests, the priming tasks and the        *)
(* breaker is well typed.                                                  *)
THEOREM PathTypeCorrect == PathSpec => []PathTypeOK
  BY PathTypeInit, PathTypeStep, PTL DEF PathSpec

-----------------------------------------------------------------------------
(* A request that leaves its tool makes room for one failure.              *)
LEMMA LeavesTool ==
    ASSUME PathTypeOK, NEW r \in Handler, stage[r] = "tool",
           stage' = [stage EXCEPT ![r] = "idle"]
    PROVE  Cardinality(InTool') = Cardinality(InTool) - 1
  <1>1. InTool' = InTool \ {r} /\ r \in InTool
    BY DEF InTool, PathTypeOK
  <1>2. QED
    BY <1>1, InToolFacts, FS_RemoveElement DEF InTool

LEMMA StormStep == PathTypeOK /\ StormBounded /\ [PathNext]_pathVars => StormBounded'
  <1> SUFFICES ASSUME PathTypeOK, StormBounded, [PathNext]_pathVars PROVE StormBounded'
    OBVIOUS
  <1> DEFINE in == Cardinality(InTool)
  <1>a. /\ IsFiniteSet(InTool) /\ in \in Nat /\ in' \in Nat
        /\ in' <= Cardinality(Handler) /\ Cardinality(Handler) \in Nat
        /\ Len(failures) \in Nat /\ Threshold \in Nat \ {0}
    BY InToolFacts, RequestPathAssumption DEF InTool, PathTypeOK
  <1>b. ASSUME UNCHANGED failures, in' <= in PROVE StormBounded'
    BY <1>a, <1>b DEF StormBounded
  <1>c. ASSUME InTool' \subseteq InTool PROVE in' <= in
    BY <1>c, <1>a, FS_Subset
  <1>1. ASSUME NEW r \in Handler, Prime(r) PROVE StormBounded'
    <2>1. InTool' \subseteq InTool /\ UNCHANGED failures
      BY <1>1 DEF Prime, InTool, PathTypeOK
    <2>2. QED
      BY <2>1, <1>b, <1>c
  <1>2. ASSUME NEW r \in Handler, Waited(r) PROVE StormBounded'
    <2>1. InTool' \subseteq InTool /\ UNCHANGED failures
      BY <1>2 DEF Waited, InTool, PathTypeOK
    <2>2. QED
      BY <2>1, <1>b, <1>c
  <1>3. ASSUME NEW r \in Handler, Call(r) PROVE StormBounded'
    <2>1. /\ Len(Pruned) \in Nat /\ Len(Pruned) <= Len(failures)
          /\ failures' = Pruned
      BY <1>3, PrunedFacts DEF PathTypeOK, Call
    <2>2. CASE Len(Pruned) < Threshold
      BY <2>1, <2>2, <1>a DEF StormBounded
    <2>3. CASE Len(Pruned) >= Threshold
      <3>1. stage' = [stage EXCEPT ![r] = "idle"]
        BY <1>3, <2>1, <2>3, <1>a DEF Call
      <3>2. InTool' \subseteq InTool
        BY <3>1 DEF InTool, PathTypeOK
      <3>3. in' <= in
        BY <3>2, <1>c
      <3>4. QED
        BY <3>3, <2>1, <1>a DEF StormBounded
    <2>4. QED
      BY <2>1, <2>2, <2>3, <1>a
  <1>4. ASSUME NEW r \in Handler, Succeed(r) PROVE StormBounded'
    <2>1. in' = in - 1 /\ Len(failures') = 0
      BY <1>4, LeavesTool DEF Succeed
    <2>2. QED
      BY <2>1, <1>a DEF StormBounded
  <1>5. ASSUME NEW r \in Handler, Fail(r) PROVE StormBounded'
    <2>1. in' = in - 1
      BY <1>5, LeavesTool DEF Fail
    <2>2. Len(failures') = Len(failures) + 1
      BY <1>5 DEF Fail, PathTypeOK
    <2>3. QED
      BY <2>1, <2>2, <1>a DEF StormBounded
  <1>6. ASSUME NEW r \in Handler, Gone(r) PROVE StormBounded'
    <2>1. InTool' \subseteq InTool /\ UNCHANGED failures
      BY <1>6 DEF Gone, InTool, PathTypeOK
    <2>2. QED
      BY <2>1, <1>b, <1>c
  <1>7. ASSUME NEW t \in Task, PrimeEnds(t) \/ Forget(t) PROVE StormBounded'
    <2>1. UNCHANGED <<stage, failures>>
      BY <1>7 DEF PrimeEnds, Forget
    <2>2. InTool' = InTool
      BY <2>1 DEF InTool
    <2>3. QED
      BY <2>1, <2>2, <1>b, <1>c
  <1>8. CASE PathTick
    <2>1. Len(failures') = Len(failures) /\ UNCHANGED stage
      BY <1>8 DEF PathTick, PathTypeOK
    <2>2. InTool' = InTool
      BY <2>1 DEF InTool
    <2>3. QED
      BY <2>1, <2>2, <1>a DEF StormBounded
  <1>9. CASE UNCHANGED pathVars
    <2>1. InTool' = InTool /\ UNCHANGED failures
      BY <1>9 DEF pathVars, InTool
    <2>2. QED
      BY <2>1, <1>b, <1>c
  <1>10. QED
    BY <1>1, <1>2, <1>3, <1>4, <1>5, <1>6, <1>7, <1>8, <1>9 DEF PathNext

LEMMA StormInit == PathInit => StormBounded
  <1> SUFFICES ASSUME PathInit PROVE StormBounded
    OBVIOUS
  <1>1. InTool = {} /\ Len(failures) = 0
    BY DEF PathInit, InTool
  <1>2. Cardinality(InTool) = 0 /\ Cardinality(Handler) \in Nat
    BY <1>1, FS_EmptySet, RequestPathAssumption, FS_CardinalityType
  <1>3. QED
    BY <1>1, <1>2, RequestPathAssumption DEF StormBounded

(* However many requests overlap, the failures the breaker counts and the  *)
(* calls in the tool together stay below the threshold and one per request.*)
THEOREM StormsAreBounded == PathSpec => []StormBounded
  <1>1. PathTypeOK /\ StormBounded /\ [PathNext]_pathVars => (PathTypeOK /\ StormBounded)'
    BY PathTypeStep, StormStep
  <1>2. PathInit => PathTypeOK /\ StormBounded
    BY PathTypeInit, StormInit
  <1>3. QED
    BY <1>1, <1>2, PTL DEF PathSpec

-----------------------------------------------------------------------------
(* OnePrime is not inductive: a running task has to be the registered one. *)
Registered == ~crossed => \A t \in Running : t = registered

LEMMA RegisteredStep == PathTypeOK /\ Registered /\ [PathNext]_pathVars => Registered'
  <1> SUFFICES ASSUME PathTypeOK, Registered, [PathNext]_pathVars, ~crossed',
                      NEW t \in Running'
               PROVE  t = registered'
    BY DEF Registered
  <1> USE RequestPathAssumption DEF PathTypeOK, Registered, Running
  <1>1. ASSUME NEW r \in Handler, Prime(r) PROVE t = registered'
    BY <1>1 DEF Prime, Primable
  <1>2. ASSUME NEW r \in Handler,
               Waited(r) \/ Call(r) \/ Succeed(r) \/ Fail(r) \/ Gone(r)
        PROVE  t = registered'
    BY <1>2 DEF Waited, Call, Succeed, Fail, Gone
  <1>3. ASSUME NEW u \in Task, PrimeEnds(u) PROVE t = registered'
    BY <1>3 DEF PrimeEnds
  <1>4. ASSUME NEW u \in Task, Forget(u) PROVE t = registered'
    BY <1>4 DEF Forget
  <1>5. CASE PathTick \/ UNCHANGED pathVars
    BY <1>5 DEF PathTick, pathVars
  <1>6. QED
    BY <1>1, <1>2, <1>3, <1>4, <1>5 DEF PathNext

(* The rebuild of a user is one task at a time, until a callback removes   *)
(* the entry of a newer task.                                              *)
THEOREM PrimesAreShared == PathSpec => []OnePrime
  <1>1. PathInit => Registered
    BY DEF PathInit, Registered, Running
  <1>2. Registered => OnePrime
    BY DEF Registered, OnePrime
  <1>3. QED
    BY <1>1, <1>2, PathTypeCorrect, RegisteredStep, PTL DEF PathSpec
=============================================================================
