------------------------------ MODULE Admission ------------------------------
(***************************************************************************)
(* What an authenticated request passes before it is served: the check of  *)
(* its token against Azure's keys (auth/oauth.py), its user's profile      *)
(* (rbac/user_map.py), resolved from Epicor if it is not known             *)
(* (server.py, _provision_user; rbac/epicor_user_resolver.py), its session *)
(* (auth/session.py), and the admin endpoints that change profiles.        *)
(*                                                                         *)
(* A token is abstracted to its user and the key it is signed with; its    *)
(* other claims are taken to be in order.  A session id is whatever the    *)
(* client sends: one that the MCP transport has issued, its user's address,*)
(* which is the default, or somebody else's.  Time is in ages.             *)
(***************************************************************************)
EXTENDS Naturals

CONSTANTS
    Request,        \* bound: requests under way at a time
    User,
    TransportId,    \* mcp-session-id headers
    Key,            \* the signing keys Azure ever has
    NoOne,
    TTL,            \* _JWKS_CACHE_TTL_SECONDS
    FetchLimit,     \* the time-out of a key fetch
    MaxGroups,      \* bound: versions of Epicor's user records
    MaxConfig,      \* bound: versions of users.json
    Visits          \* bound: by what moves in a behaviour, the users that come
                    \* and the session ids they bring

ASSUME AdmissionAssumption ==
    /\ Visits \in [{"keys", "profiles", "sessions"} ->
                       SUBSET (User \X (User \cup TransportId))]
    /\ TTL \in Nat /\ FetchLimit \in Nat
    /\ MaxGroups \in Nat \ {0} /\ MaxConfig \in Nat \ {0}
    /\ NoOne \notin User \cup Key /\ User \cap TransportId = {}

VARIABLES
    mover,          \* bound: "keys": Azure's keys and time move; "profiles":
                    \* Epicor's users, the configuration and the administrators
    published,      \* Azure: the keys it serves
    withdrawn,      \* a ghost: for how long a key has not been served
    keys,           \* _JWKSCache
    groups,         \* Epicor: the version of its user records
    disk,           \* users.json: its version, the users it lists, its validity
    conf,           \* the version of users.json in memory
    users,          \* UserMap._users
    resolved,       \* EpicorUserResolver._cache
    since,          \* a ghost: of each user's last eviction or reload, the version
                    \* of the user records, and whether an older answer was around
    sessions,       \* SessionStore._sessions: whose each session is
    guessed,        \* a ghost: whose sessions have been under whose address
    req             \* the local state of each request

azure == <<published, withdrawn>>
memory == <<conf, users, resolved, since>>
outside == <<mover, azure, groups, disk>>
stored == <<sessions, guessed>>
vars == <<outside, keys, memory, stored, req>>

Ages == 0 .. TTL + FetchLimit + 1

\* UserProfile: where it comes from, of which configuration and user record;
\* `swapped`: an admin has changed its access level in memory.
Profile == [from : {"none", "file", "epicor"}, conf : 0 .. MaxConfig,
            groups : 0 .. MaxGroups, swapped : BOOLEAN]
NoProfile == [from |-> "none", conf |-> 0, groups |-> 0, swapped |-> FALSE]
Configured(c) == [NoProfile EXCEPT !.from = "file", !.conf = c]

\* resolve_user's result: the user record it read (0: none cached), the group
\* map it used, and whether a group of it is mapped to a department.
Resolution == [groups : 0 .. MaxGroups, conf : 0 .. MaxConfig, mapped : BOOLEAN]
Unresolved == [groups |-> 0, conf |-> 0, mapped |-> FALSE]

\* pc names the await.  reply and read are answers that have not arrived: the
\* keys of a fetch, the version of a user record.  valid: the token's key has
\* been served since the request began; failed: a fetch of its own failed; late:
\* for how long its key had been withdrawn when it was accepted by keys fetched.
Pc == {"idle", "fetch", "forced", "identity", "userfile", "serving", "refused", "denied"}
Local == [pc : Pc, user : User \cup {NoOne}, key : Key \cup {NoOne},
          sid : User \cup TransportId \cup {NoOne}, age : 0 .. FetchLimit,
          reply : SUBSET Key, read : 0 .. MaxGroups, valid : BOOLEAN,
          failed : BOOLEAN, late : Ages, as : User \cup {NoOne}]
Idle == [pc |-> "idle", user |-> NoOne, key |-> NoOne, sid |-> NoOne, age |-> 0,
         reply |-> {}, read |-> 0, valid |-> FALSE, failed |-> FALSE, late |-> 0,
         as |-> NoOne]

TypeOK ==
    /\ mover \in DOMAIN Visits
    /\ published \in (SUBSET Key) \ {{}}
    /\ withdrawn \in [Key -> Ages]
    /\ keys \in [set : SUBSET Key, age : 0 .. TTL + 1]
    /\ groups \in 1 .. MaxGroups
    /\ disk \in [version : 1 .. MaxConfig, lists : SUBSET User, valid : BOOLEAN]
    /\ conf \in 1 .. MaxConfig
    /\ users \in [User -> Profile]
    /\ resolved \in [User -> Resolution]
    /\ since \in [User -> [groups : 0 .. MaxGroups, excused : BOOLEAN]]
    /\ sessions \in [User \cup TransportId -> User \cup {NoOne}]
    /\ guessed \subseteq User \X User
    /\ req \in [Request -> Local]

Load(lists, c) == [u \in User |-> IF u \in lists THEN Configured(c) ELSE NoProfile]

\* Bound: whom users.json lists.
Visitors == {v[1] : v \in Visits[mover]}
Listed == IF mover = "profiles" THEN SUBSET Visitors ELSE {Visitors}

Init ==
    /\ mover \in DOMAIN Visits
    /\ \E k \in Key : published = {k}
    /\ withdrawn = [k \in Key |-> 0]
    /\ keys = [set |-> {}, age |-> 0]
    /\ groups = 1
    /\ \E lists \in Listed :
           /\ disk = [version |-> 1, lists |-> lists, valid |-> TRUE]
           /\ users = Load(lists, 1)
    /\ conf = 1
    /\ resolved = [u \in User |-> Unresolved]
    /\ since = [u \in User |-> [groups |-> 0, excused |-> FALSE]]
    /\ sessions = [i \in User \cup TransportId |-> NoOne]
    /\ guessed = {}
    /\ req = [r \in Request |-> Idle]

Set(r, q) == req' = [req EXCEPT ![r] = q]

-----------------------------------------------------------------------------
(* Session and profile.                                                    *)

\* A session is made under an address that is not its user's.
Guess(user, key) == IF key \in User \ {user} THEN {<<user, key>>} ELSE {}

\* Mutant: whoever's the session is.
ServeAnySession(r, q) ==
    LET owner == IF sessions[q.sid] = NoOne THEN q.user ELSE sessions[q.sid]
    IN /\ sessions' = [sessions EXCEPT ![q.sid] = owner]
       /\ guessed' = guessed \cup Guess(q.user, q.sid)
       /\ Set(r, [Idle EXCEPT !.pc = "serving", !.user = q.user, !.as = owner,
                              !.late = q.late])

\* auth_middleware, from the profile on: a session of another user's is left
\* alone and the user's own key is used, unlooked whose session is under that;
\* a session that is missing is created, under whatever key was sent.
Serve(r, q) ==
    LET key   == IF sessions[q.sid] \in {NoOne, q.user} THEN q.sid ELSE q.user
        owner == IF sessions[key] = NoOne THEN q.user ELSE sessions[key]
    IN /\ sessions' = [sessions EXCEPT ![key] = owner]
       /\ guessed' = guessed \cup Guess(q.user, key)
       /\ Set(r, [Idle EXCEPT !.pc = "serving", !.user = q.user, !.as = owner,
                              !.late = q.late])

Deny(r, q) == Set(r, [Idle EXCEPT !.pc = "denied"]) /\ UNCHANGED stored

\* Mutant: the profile is stored whether or not there is one by now.
ProvideAlways(r, q, resolution) ==
    /\ users' = [users EXCEPT ![q.user] =
                    [from |-> "epicor", conf |-> resolution.conf,
                     groups |-> resolution.groups, swapped |-> FALSE]]
    /\ Serve(r, q)

\* get_or_create_user_from_claims: a profile that is there by now is kept.
Provide(r, q, resolution) ==
    /\ users' = IF users[q.user] # NoProfile THEN users
                ELSE [users EXCEPT ![q.user] =
                        [from |-> "epicor", conf |-> resolution.conf,
                         groups |-> resolution.groups, swapped |-> FALSE]]
    /\ Serve(r, q)

\* _provision_user, with what resolve_user has returned.
Legacy(r, q, resolution) ==
    \/ resolution.mapped /\ Provide(r, q, resolution)
    \/ ~resolution.mapped /\ Deny(r, q) /\ UNCHANGED users

\* The token is accepted.  A user without a profile is looked up in Epicor.
Accepted(q) == [Idle EXCEPT !.user = q.user, !.sid = q.sid,
                            !.late = IF q.failed THEN 0 ELSE withdrawn[q.key]]
Admit(r, q) ==
    /\ \/ users[q.user] # NoProfile /\ Serve(r, Accepted(q))
       \/ users[q.user] = NoProfile /\ Set(r, [Accepted(q) EXCEPT !.pc = "identity"])
                                    /\ UNCHANGED stored
    /\ UNCHANGED memory

Refuse(r, q) ==
    /\ Set(r, [Idle EXCEPT !.pc = "refused", !.valid = q.valid, !.failed = q.failed])
    /\ UNCHANGED <<stored, memory>>

-----------------------------------------------------------------------------
(* The token.                                                              *)

\* Mutant: the keys are kept for good.
FreshForever == keys.set # {}

\* _fetch_jwks: neither is_empty nor is_expired.
Fresh == keys.set # {} /\ keys.age <= TTL

\* Mutant: a key that is not among the cached ones is not looked for again.
CheckOnce(r, q, set) ==
    \/ q.key \in set /\ Admit(r, q)
    \/ q.key \notin set /\ Refuse(r, q)

\* validate_token, with the keys at hand: a key that is not among them is
\* looked for once more, in a forced fetch.
Check(r, q, set) ==
    \/ q.key \in set /\ Admit(r, q)
    \/ /\ q.key \notin set
       /\ Set(r, [q EXCEPT !.pc = "forced", !.age = 0, !.reply = {}])
       /\ UNCHANGED <<stored, memory>>

Recheck(r, q, set) ==
    \/ q.key \in set /\ Admit(r, q)
    \/ q.key \notin set /\ Refuse(r, q)

\* A request with a bearer token; Azure still serves its key, or has withdrawn it.
Arrive(r, u, k, sid) ==
    LET q == [Idle EXCEPT !.user = u, !.key = k, !.sid = sid, !.valid = (k \in published)]
    IN /\ req[r].pc = "idle" /\ <<u, sid>> \in Visits[mover]
       /\ \/ Fresh /\ Check(r, q, keys.set)
          \/ /\ ~Fresh
             /\ Set(r, [q EXCEPT !.pc = "fetch"])
             /\ UNCHANGED <<stored, memory>>
       /\ UNCHANGED <<outside, keys>>

\* Azure answers a fetch; the answer is on its way.
AzureServes(r) ==
    /\ req[r].pc \in {"fetch", "forced"} /\ req[r].reply = {}
    /\ Set(r, [req[r] EXCEPT !.reply = published])
    /\ UNCHANGED <<outside, keys, memory, stored>>

\* It arrives and is cached, over whatever has been cached in between.
Fetched(r) ==
    /\ req[r].pc \in {"fetch", "forced"} /\ req[r].reply # {}
    /\ keys' = [set |-> req[r].reply, age |-> 0]
    /\ \/ req[r].pc = "fetch" /\ Check(r, req[r], req[r].reply)
       \/ req[r].pc = "forced" /\ Recheck(r, req[r], req[r].reply)
    /\ UNCHANGED outside

\* An HTTP error falls back to the cached keys, however old; without any, and
\* after an answer without keys, the request is refused.
FetchFails(r) ==
    LET q == [req[r] EXCEPT !.failed = TRUE]
    IN /\ \/ /\ req[r].pc = "fetch" /\ keys.set # {}
             /\ Check(r, q, keys.set)
          \/ /\ req[r].pc = "forced" /\ keys.set # {}
             /\ Recheck(r, q, keys.set)
          \/ req[r].pc \in {"fetch", "forced"} /\ Refuse(r, q)
       /\ UNCHANGED <<outside, keys>>

-----------------------------------------------------------------------------
(* The profile, resolved from Epicor.                                      *)

EpicorReads(r) ==
    /\ req[r].pc \in {"identity", "userfile"} /\ req[r].read = 0
    /\ Set(r, [req[r] EXCEPT !.read = groups])
    /\ UNCHANGED <<outside, keys, memory, stored>>

\* fetch_user has found an enabled user with a mapped group.
Identified(r) ==
    /\ req[r].pc = "identity" /\ req[r].read # 0
    /\ Provide(r, req[r], [groups |-> req[r].read, conf |-> conf, mapped |-> TRUE])
    /\ UNCHANGED <<outside, keys, conf, resolved, since>>

\* It has not, or it failed, or there is no authorization client: the
\* deprecated resolver is asked, and may have an answer in its cache.
NotIdentified(r) ==
    LET u == req[r].user
        q == [req[r] EXCEPT !.read = 0]
    IN /\ req[r].pc = "identity"
       /\ \/ resolved[u] # Unresolved /\ Legacy(r, q, resolved[u])
          \/ /\ resolved[u] = Unresolved
             /\ Set(r, [q EXCEPT !.pc = "userfile"])
             /\ UNCHANGED <<stored, users>>
       /\ UNCHANGED <<outside, keys, conf, resolved, since>>

\* resolve_user has found the user, and maps its groups by the map of now.
Resolved(r) ==
    /\ req[r].pc = "userfile" /\ req[r].read # 0
    /\ \E mapped \in BOOLEAN :
           LET resolution == [groups |-> req[r].read, conf |-> conf, mapped |-> mapped]
           IN /\ resolved' = [resolved EXCEPT ![req[r].user] = resolution]
              /\ Legacy(r, req[r], resolution)
    /\ UNCHANGED <<outside, keys, conf, since>>

NotResolved(r) ==
    /\ req[r].pc = "userfile"
    /\ Deny(r, req[r])
    /\ UNCHANGED <<outside, keys, memory>>

\* The response is sent, or the client has gone.
Done(r) ==
    /\ req[r].pc # "idle"
    /\ Set(r, Idle)
    /\ UNCHANGED <<outside, keys, memory, stored>>

-----------------------------------------------------------------------------
(* The admin endpoints.                                                    *)

\* An answer about the user is on its way from Epicor.
Read(u) == \E r \in Request : req[r].user = u /\ req[r].read # 0

\* POST /admin/users/{email}/access
HotSwap(u) ==
    /\ mover = "profiles"
    /\ users[u] # NoProfile
    /\ users' = [users EXCEPT ![u].swapped = TRUE]
    /\ UNCHANGED <<outside, keys, conf, resolved, since, stored, req>>

\* POST /admin/users/{email}/evict; without a profile it is answered 404.
EvictUser(u) ==
    /\ mover = "profiles"
    /\ users[u] # NoProfile
    /\ users' = [users EXCEPT ![u] = NoProfile]
    /\ since' = [since EXCEPT ![u] =
                    [groups |-> groups, excused |-> Read(u) \/ resolved[u] # Unresolved]]
    /\ UNCHANGED <<outside, keys, conf, resolved, stored, req>>

\* Mutant: the resolver keeps what it has resolved by the former group map.
ReloadKeepingResolver ==
    /\ mover = "profiles"
    /\ disk.valid
    /\ conf' = disk.version
    /\ users' = Load(disk.lists, disk.version)
    /\ since' = [u \in User |-> [groups |-> groups, excused |-> Read(u)]]
    /\ UNCHANGED <<outside, keys, resolved, stored, req>>

\* Mutant: profiles that the file does not list are kept.
ReloadMerging ==
    /\ mover = "profiles"
    /\ disk.valid
    /\ conf' = disk.version
    /\ users' = [u \in User |-> IF u \in disk.lists THEN Configured(disk.version) ELSE users[u]]
    /\ since' = [u \in User |-> [groups |-> groups, excused |-> Read(u)]]
    /\ resolved' = [u \in User |-> Unresolved]
    /\ UNCHANGED <<outside, keys, stored, req>>

\* POST /admin/reload: a file that is not valid is refused and changes nothing.
Reload ==
    /\ mover = "profiles"
    /\ disk.valid
    /\ conf' = disk.version
    /\ users' = Load(disk.lists, disk.version)
    /\ since' = [u \in User |-> [groups |-> groups, excused |-> Read(u)]]
    /\ resolved' = [u \in User |-> Unresolved]
    /\ UNCHANGED <<outside, keys, stored, req>>

-----------------------------------------------------------------------------
(* The environment.                                                        *)

EditFile ==
    /\ mover = "profiles"
    /\ disk.version < MaxConfig
    /\ \E lists \in Listed, valid \in BOOLEAN :
           disk' = [version |-> disk.version + 1, lists |-> lists, valid |-> valid]
    /\ UNCHANGED <<mover, azure, groups, keys, memory, stored, req>>

ChangeGroups ==
    /\ mover = "profiles"
    /\ groups < MaxGroups
    /\ groups' = groups + 1
    /\ UNCHANGED <<mover, azure, disk, keys, memory, stored, req>>

\* Azure begins to serve a key, for good or again.
Publish(k) ==
    /\ mover = "keys"
    /\ k \notin published
    /\ published' = published \cup {k}
    /\ withdrawn' = [withdrawn EXCEPT ![k] = 0]
    /\ UNCHANGED <<mover, groups, disk, keys, memory, stored, req>>

Withdraw(k) ==
    /\ mover = "keys"
    /\ k \in published /\ published # {k}
    /\ published' = published \ {k}
    /\ req' = [r \in Request |->
                  IF req[r].key = k THEN [req[r] EXCEPT !.valid = FALSE] ELSE req[r]]
    /\ UNCHANGED <<mover, withdrawn, groups, disk, keys, memory, stored>>

\* A session that has been idle for _SESSION_TTL_SECONDS is dropped, by the
\* clean-up or when it is next asked for.
Lapse(i) ==
    /\ mover = "sessions"
    /\ sessions[i] # NoOne
    /\ sessions' = [sessions EXCEPT ![i] = NoOne]
    /\ UNCHANGED <<outside, keys, memory, guessed, req>>

Fetching(r) == req[r].pc \in {"fetch", "forced"}

\* Time passes; a fetch that is due to time out does so first.
Tick ==
    /\ mover = "keys"
    /\ \A r \in Request : Fetching(r) => req[r].age < FetchLimit
    /\ keys' = [keys EXCEPT !.age = IF @ <= TTL THEN @ + 1 ELSE @]
    /\ withdrawn' = [k \in Key |->
                        IF k \notin published /\ withdrawn[k] <= TTL + FetchLimit
                        THEN withdrawn[k] + 1 ELSE withdrawn[k]]
    /\ req' = [r \in Request |->
                  IF Fetching(r) THEN [req[r] EXCEPT !.age = @ + 1] ELSE req[r]]
    /\ UNCHANGED <<mover, published, groups, disk, memory, stored>>

Next ==
    \/ \E r \in Request :
        \/ \E u \in User, k \in Key, sid \in User \cup TransportId : Arrive(r, u, k, sid)
        \/ AzureServes(r) \/ Fetched(r) \/ FetchFails(r)
        \/ EpicorReads(r) \/ Identified(r) \/ NotIdentified(r)
        \/ Resolved(r) \/ NotResolved(r) \/ Done(r)
    \/ \E u \in User : HotSwap(u) \/ EvictUser(u)
    \/ Reload
    \/ EditFile
    \/ ChangeGroups
    \/ \E k \in Key : Publish(k) \/ Withdraw(k)
    \/ \E i \in User \cup TransportId : Lapse(i)
    \/ Tick

Spec == Init /\ [][Next]_vars

-----------------------------------------------------------------------------
(* A rotation of Azure's keys signs nobody out: a token whose key Azure has*)
(* served since the request began is refused only if a fetch of that       *)
(* request's own has failed (oauth.py:121-125).                            *)
ValidAccepted ==
    \A r \in Request : req[r].pc = "refused" => ~req[r].valid \/ req[r].failed

(* A key that Azure has withdrawn is accepted for no longer than the cache *)
(* lasts and a fetch takes, in whatever order the fetches of overlapping   *)
(* requests arrive, unless the request could not reach Azure               *)
(* (oauth.py:149-155).                                                     *)
WithdrawnKeysExpire ==
    \A r \in Request : req[r].late <= TTL + FetchLimit

(* What is remembered of a user, the profile or the resolver's answer, was *)
(* worked out by the configuration in force, although a resolution may     *)
(* wait for Epicor while it is reloaded (epicor_user_resolver.py:172-175). *)
ConfigInForce ==
    \A u \in User :
        /\ users[u] # NoProfile => users[u].conf = conf
        /\ resolved[u] # Unresolved => resolved[u].conf = conf

(* An eviction or a reload makes a user be resolved anew (server.py:1512,   *)
(* 1555): a profile from Epicor is older only if an answer about the user  *)
(* was on its way at the time, or, at an eviction, in the resolver's cache,*)
(* which an eviction leaves alone.                                         *)
ProfileFollowsEviction ==
    \A u \in User :
        users[u].from = "epicor" =>
            users[u].groups >= since[u].groups \/ since[u].excused

(* Only a reload or an eviction takes a profile away: one that is          *)
(* configured, or whose access an admin has changed, is not replaced by a  *)
(* resolution that was under way (user_map.py:113-115).                    *)
ProfilesKept ==
    [][\A u \in User :
         users[u] # NoProfile =>
            \/ users'[u] \in {users[u], [users[u] EXCEPT !.swapped = TRUE]}
            \/ Reload
            \/ EvictUser(u)]_vars

(* Nobody runs in another's session by sending the id of it: a request runs*)
(* in a session of its own user's, although users may bring the same       *)
(* transport id and each other's addresses, and sessions lapse and are made*)
(* again; or else in one that the other has made under its user's address  *)
(* (server.py:1239-1257).                                                  *)
SessionIsCallers ==
    \A r \in Request :
        req[r].pc = "serving" =>
            req[r].as = req[r].user \/ <<req[r].as, req[r].user>> \in guessed

(* A session id is a lookup key, never an identity (server.py:1243-1250).  *)
(* The code does not meet it: the session under the caller's own address,  *)
(* its fallback, is not checked for its owner (1256-1257).                 *)
SessionIsOwn ==
    \A r \in Request : req[r].pc = "serving" => req[r].as = req[r].user
=============================================================================
