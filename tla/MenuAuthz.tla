------------------------------ MODULE MenuAuthz ------------------------------
(***************************************************************************)
(* The per-user authorization snapshot cache of rbac/menu_authz.py         *)
(* (class MenuAuthorizer) on one asyncio event loop.                       *)
(*                                                                         *)
(* An action is the code between two awaits.  A flight is one build Task   *)
(* (_build_snapshot); an admin is one running refresh_tenant; a caller is  *)
(* one coroutine awaiting ensure_snapshot.  Epicor is the environment: it  *)
(* stamps each user's identity, and the tenant's menu and security rows,   *)
(* with a version that grows with every change, and a snapshot remembers   *)
(* the versions it was computed from.                                      *)
(***************************************************************************)
EXTENDS Integers, Sequences

CONSTANTS
    Emails,         \* lower-cased e-mails, the keys of every cache
    Flights,        \* names for build Tasks; a name is reused once forgotten
    Admins,         \* names for running refresh_tenant calls
    Callers,        \* names for coroutines awaiting ensure_snapshot
    None,           \* Python's None
    TTL,            \* ttl_seconds
    Grace,          \* stale_grace_seconds
    MaxClock,       \* bound: the clock stops here
    MaxGeneration,  \* bound: no eviction is asked for from here on
    MaxIdentity,    \* bound: changes of one user's record
    MaxRows,        \* bound: changes of the tenant's rows
    Kinds,          \* bound: the kinds of user that occur
    Publishing      \* bound: whether the map file comes and goes

ASSUME TimesAssumption == TTL \in Nat /\ Grace \in Nat
ASSUME BoundsAssumption ==
    /\ MaxClock \in Nat /\ MaxGeneration \in Nat
    /\ MaxIdentity \in Nat /\ MaxRows \in Nat
    /\ Kinds \subseteq {"scoped", "all", "refused"}
    /\ Publishing \in BOOLEAN
ASSUME NamesAssumption ==
    /\ Flights \cap Admins = {}
    /\ None \notin Emails \cup Flights \cup Admins

VARIABLES
    clock,        \* self._clock()
    identity,     \* Epicor: each e-mail's UserFile row, as fetch_user decides it
    rows,         \* Epicor: version of the Menu and Security tables
    mapFile,      \* menu_security.db can be read (published, not unreadable)
    mapLoaded,    \* MenuMapStore._loaded
    snapshots,    \* self._snapshots
    flights,      \* self._flights
    generation,   \* self._generation
    tenant,       \* self._tenant_menus, _tenant_security, _tenant_fetched_at
    lock,         \* self._lock: its holder, then its FIFO waiters
    task,         \* the local state of each build and each refresh
    caller,       \* the local state of each awaiting coroutine
    evicted,      \* ghost: Epicor's versions at the last eviction of each e-mail
    refreshed,    \* ghost: menu version the last admin refresh fetched
    crawled       \* ghost: the pairs of menu and security rows some crawl read whole

epicor == <<identity, rows, mapFile>>
cache  == <<snapshots, flights, generation>>
crawl  == <<tenant, lock, mapLoaded>>
ghosts == <<evicted, refreshed, crawled>>
vars   == <<clock, epicor, cache, crawl, task, caller, ghosts>>

Tasks == Flights \cup Admins

-----------------------------------------------------------------------------
(* Values *)

\* fetch_user: an enabled scoped user, a SecurityMgr, or nobody / disabled.
IdentityKind == {"scoped", "all", "refused"}
Identity     == [kind : IdentityKind, ver : Nat]

\* UserAuthzSnapshot.  "all" is allow_all; "refused" is is_error from a live
\* answer; "unreachable" is is_error with fetch_failed; "none" is no snapshot.
\* at is computed_at, the stamp every age is counted from; computed is a ghost,
\* the time Epicor's answers really were turned into this snapshot.
SnapshotKind == {"none", "scoped", "all", "refused", "unreachable"}
Snapshot == [kind : SnapshotKind, user : Nat, menus : Nat, security : Nat,
             at : Nat, stale : BOOLEAN, computed : Nat]
NoSnapshot == [kind |-> "none", user |-> 0, menus |-> 0, security |-> 0,
               at |-> 0, stale |-> FALSE, computed |-> 0]

Granting(s) == s.kind \in {"scoped", "all"}
Answering(s) == s.kind \in IdentityKind

Tenant   == [menus : Nat, security : Nat, at : Int]
NoTenant == [menus |-> 0, security |-> 0, at |-> -1]

\* pc names what the coroutine is suspended on: its first turn ("made"), the
\* user query ("user", then "identity" once Epicor has answered it), the lock,
\* the two table reads ("menus", "security", then "rows" once both are read),
\* or nothing ("done": its callbacks are queued, "released": they ran).
Pc == {"idle", "made", "user", "identity", "lock", "menus", "security", "rows",
       "done", "released"}
Task == [pc : Pc, email : Emails \cup {None}, gen : Nat, now : Nat,
         cached : Snapshot, user : Identity, menus : Nat, security : Nat,
         result : Snapshot]
NoIdentity == [kind |-> "refused", ver |-> 0]
IdleTask == [pc |-> "idle", email |-> None, gen |-> 0, now |-> 0,
             cached |-> NoSnapshot, user |-> NoIdentity, menus |-> 0,
             security |-> 0, result |-> NoSnapshot]

\* A caller awaits a flight, or (flight = None) has its answer in hand.  floor
\* is a ghost: the identity version its e-mail was last evicted at when it called.
Caller == [email : Emails \cup {None}, flight : Flights \cup {None},
           floor : Nat, answer : Snapshot]
IdleCaller == [email |-> None, flight |-> None, floor |-> 0, answer |-> NoSnapshot]

Awaiting(f) == {c \in Callers : caller[c].flight = f}
Building(f) == task[f].pc \notin {"idle", "done", "released"}
Crawling(x) == task[x].pc \in {"menus", "security", "rows"}

-----------------------------------------------------------------------------
Init ==
    /\ clock = 0
    /\ identity \in [Emails -> [kind : Kinds, ver : {0}]]
    /\ rows = 0
    /\ mapFile \in BOOLEAN
    /\ Publishing \/ mapFile = TRUE
    /\ mapLoaded = mapFile
    /\ snapshots = [e \in Emails |-> NoSnapshot]
    /\ flights = [e \in Emails |-> None]
    /\ generation = 0
    /\ tenant = NoTenant
    /\ lock = <<>>
    /\ task = [x \in Tasks |-> IdleTask]
    /\ caller = [c \in Callers |-> IdleCaller]
    /\ evicted = [e \in Emails |-> [user |-> 0, rows |-> 0]]
    /\ refreshed = 0
    /\ crawled = {}

-----------------------------------------------------------------------------
(* The environment: time passes, Epicor's administrators edit users, menus *)
(* and groups, the nightly job publishes the menu -> service map.          *)

Tick ==
    /\ clock < MaxClock
    /\ clock' = clock + 1
    /\ UNCHANGED <<epicor, cache, crawl, task, caller, ghosts>>

ChangeIdentity(e, k) ==
    /\ identity[e].ver < MaxIdentity
    /\ identity' = [identity EXCEPT ![e] = [kind |-> k, ver |-> @.ver + 1]]
    /\ UNCHANGED <<clock, rows, mapFile, cache, crawl, task, caller, ghosts>>

ChangeRows ==
    /\ rows < MaxRows
    /\ rows' = rows + 1
    /\ UNCHANGED <<clock, identity, mapFile, cache, crawl, task, caller, ghosts>>

PublishMap ==
    /\ Publishing
    /\ mapFile' \in BOOLEAN \ {mapFile}
    /\ UNCHANGED <<clock, identity, rows, cache, crawl, task, caller, ghosts>>

-----------------------------------------------------------------------------
(* Pure parts *)

Fresh(s)         == clock - s.at <= TTL
TenantFresh(now) == tenant.at >= 0 /\ now - tenant.at <= TTL

\* compute_snapshot, given the identity and the tenant rows the build holds.
ComputeSnapshot(user, menus, security, loaded) ==
    IF user.kind = "scoped" /\ loaded
    THEN [kind |-> "scoped", user |-> user.ver, menus |-> menus,
          security |-> security, at |-> clock, stale |-> FALSE,
          computed |-> clock]
    ELSE [kind |-> IF user.kind = "all" THEN "all" ELSE "refused",
          user |-> user.ver, menus |-> 0, security |-> 0, at |-> clock,
          stale |-> FALSE, computed |-> clock]

\* Mutant: the answer served stale is stamped anew.
FetchFailureRestamped(cached, now) ==
    IF Granting(cached) /\ now - cached.at <= Grace
    THEN [cached EXCEPT !.stale = TRUE, !.at = clock]
    ELSE [kind |-> "unreachable", user |-> 0, menus |-> 0, security |-> 0,
          at |-> clock, stale |-> FALSE, computed |-> clock]

\* _fetch_failure: the cached answer within grace, else fail closed.
FetchFailure(cached, now) ==
    IF Granting(cached) /\ now - cached.at <= Grace
    THEN [cached EXCEPT !.stale = TRUE]
    ELSE [kind |-> "unreachable", user |-> 0, menus |-> 0, security |-> 0,
          at |-> clock, stale |-> FALSE, computed |-> clock]

\* Mutant: the write is not guarded by the generation.
CacheSnapshotUnguarded(f, snap) ==
    /\ snapshots' = [snapshots EXCEPT ![task[f].email] = snap]
    /\ task' = [task EXCEPT ![f] = [IdleTask EXCEPT !.pc = "done",
                                      !.email = task[f].email, !.gen = task[f].gen,
                                      !.now = task[f].now, !.result = snap]]
    /\ UNCHANGED <<flights, generation>>

\* _cache_snapshot, and the end of the build with snap as its result.
CacheSnapshot(f, snap) ==
    /\ snapshots' = IF task[f].gen = generation
                    THEN [snapshots EXCEPT ![task[f].email] = snap]
                    ELSE snapshots
    /\ task' = [task EXCEPT ![f] = [IdleTask EXCEPT !.pc = "done",
                                      !.email = task[f].email, !.gen = task[f].gen,
                                      !.now = task[f].now, !.result = snap]]
    /\ UNCHANGED <<flights, generation>>

\* A task forgets its locals once its callbacks ran and nobody awaits it.
AfterCallbacks(f, waiting) ==
    IF waiting = {} THEN IdleTask ELSE [task[f] EXCEPT !.pc = "released"]

-----------------------------------------------------------------------------
(* ensure_snapshot *)

Hit(e) == Answering(snapshots[e]) /\ Fresh(snapshots[e])

\* Mutant: no single-flight registry.
JoinableNever(e) == FALSE

Joinable(e) == flights[e] # None /\ task[flights[e]].pc # "done"

ServeCached(c, e) ==
    /\ caller[c] = IdleCaller
    /\ Hit(e)
    /\ caller' = [caller EXCEPT ![c] = [email |-> e, flight |-> None,
                     floor |-> evicted[e].user, answer |-> snapshots[e]]]
    /\ UNCHANGED <<clock, epicor, cache, crawl, task, ghosts>>

JoinFlight(c, e) ==
    /\ caller[c] = IdleCaller
    /\ ~Hit(e)
    /\ Joinable(e)
    /\ caller' = [caller EXCEPT ![c] = [email |-> e, flight |-> flights[e],
                     floor |-> evicted[e].user, answer |-> NoSnapshot]]
    /\ UNCHANGED <<clock, epicor, cache, crawl, task, ghosts>>

StartFlight(c, e) ==
    /\ caller[c] = IdleCaller
    /\ ~Hit(e)
    /\ ~Joinable(e)
    /\ \E f \in Flights :
        /\ task[f] = IdleTask
        /\ task' = [task EXCEPT ![f] = [IdleTask EXCEPT !.pc = "made",
                                          !.email = e, !.gen = generation]]
        /\ flights' = [flights EXCEPT ![e] = f]
        /\ caller' = [caller EXCEPT ![c] = [email |-> e, flight |-> f,
                         floor |-> evicted[e].user, answer |-> NoSnapshot]]
    /\ UNCHANGED <<clock, epicor, snapshots, generation, crawl, ghosts>>

\* The done-callback _release: it only removes its own registry entry.
Release(f) ==
    /\ task[f].pc = "done"
    /\ flights' = [e \in Emails |->
                     IF e = task[f].email /\ flights[e] = f THEN None ELSE flights[e]]
    /\ task' = [task EXCEPT ![f] = AfterCallbacks(f, Awaiting(f))]
    /\ UNCHANGED <<clock, epicor, snapshots, generation, crawl, caller, ghosts>>

\* shield's callback runs after _release; the awaiting coroutine gets the result.
Answer(c) ==
    /\ caller[c].flight # None
    /\ task[caller[c].flight].pc = "released"
    /\ LET f == caller[c].flight IN
        /\ caller' = [caller EXCEPT ![c].flight = None, ![c].answer = task[f].result]
        /\ task' = [task EXCEPT ![f] = AfterCallbacks(f, Awaiting(f) \ {c})]
    /\ UNCHANGED <<clock, epicor, cache, crawl, ghosts>>

\* The coroutine uses its answer and is gone.
Return(c) ==
    /\ caller[c] # IdleCaller
    /\ caller[c].flight = None
    /\ caller' = [caller EXCEPT ![c] = IdleCaller]
    /\ UNCHANGED <<clock, epicor, cache, crawl, task, ghosts>>

\* A client disconnects or a wait_for expires; the shield spares the build.
Abandon(c) ==
    /\ caller[c].flight # None
    /\ caller' = [caller EXCEPT ![c] = IdleCaller]
    /\ LET f == caller[c].flight IN
        task' = IF task[f].pc = "released"
                THEN [task EXCEPT ![f] = AfterCallbacks(f, Awaiting(f) \ {c})]
                ELSE task
    /\ UNCHANGED <<clock, epicor, cache, crawl, ghosts>>

-----------------------------------------------------------------------------
(* _build_snapshot *)

BeginBuild(f) ==
    /\ task[f].pc = "made"
    /\ task' = [task EXCEPT ![f].pc = "user", ![f].now = clock,
                            ![f].cached = snapshots[task[f].email]]
    /\ UNCHANGED <<clock, epicor, cache, crawl, caller, ghosts>>

EpicorReadsUser(f) ==
    /\ task[f].pc = "user"
    /\ task' = [task EXCEPT ![f].pc = "identity",
                            ![f].user = identity[task[f].email]]
    /\ UNCHANGED <<clock, epicor, cache, crawl, caller, ghosts>>

\* Inside the lock and not fresh: maybe_reload, then fetch_menus is awaited.
StartCrawl(x, t, queue) ==
    /\ mapLoaded' = mapFile
    /\ lock' = queue
    /\ task' = [task EXCEPT ![x] = [t EXCEPT !.pc = "menus"]]
    /\ UNCHANGED <<tenant, cache>>

\* The identity arrives: only a scoped one goes on to _get_tenant.
UseIdentity(f) ==
    /\ task[f].pc = "identity"
    /\ LET t == task[f] IN
        \/ /\ t.user.kind # "scoped"
           /\ CacheSnapshot(f, ComputeSnapshot(t.user, 0, 0, mapLoaded))
           /\ UNCHANGED crawl
        \/ /\ t.user.kind = "scoped"
           /\ lock = <<>>
           /\ TenantFresh(t.now)
           /\ CacheSnapshot(f, ComputeSnapshot(t.user, tenant.menus,
                                               tenant.security, mapLoaded))
           /\ UNCHANGED crawl
        \/ /\ t.user.kind = "scoped"
           /\ lock = <<>>
           /\ ~TenantFresh(t.now)
           /\ StartCrawl(f, t, <<f>>)
        \/ /\ t.user.kind = "scoped"
           /\ lock # <<>>
           /\ lock' = Append(lock, f)
           /\ task' = [task EXCEPT ![f].pc = "lock"]
           /\ UNCHANGED <<tenant, mapLoaded, cache>>
    /\ UNCHANGED <<clock, epicor, caller, ghosts>>

\* Mutant: no second look at the shared rows once the lock is held.
EnterLockUnchecked(x) ==
    /\ task[x].pc = "lock"
    /\ lock # <<>>
    /\ Head(lock) = x
    /\ StartCrawl(x, task[x], lock)
    /\ UNCHANGED <<clock, epicor, caller, ghosts>>

\* The lock is handed to x, first in its queue: re-check, then crawl.
EnterLock(x) ==
    /\ task[x].pc = "lock"
    /\ lock # <<>>
    /\ Head(lock) = x
    /\ \/ /\ x \in Flights
          /\ TenantFresh(task[x].now)
          /\ CacheSnapshot(x, ComputeSnapshot(task[x].user, tenant.menus,
                                              tenant.security, mapLoaded))
          /\ lock' = Tail(lock)
          /\ UNCHANGED <<tenant, mapLoaded>>
       \/ /\ x \in Admins \/ ~TenantFresh(task[x].now)
          /\ StartCrawl(x, task[x], lock)
    /\ UNCHANGED <<clock, epicor, caller, ghosts>>

\* Mutant: the menu rows are stored before the security rows have come.
EpicorReadsMenusEager(x) ==
    /\ task[x].pc = "menus"
    /\ task' = [task EXCEPT ![x].pc = "security", ![x].menus = rows]
    /\ tenant' = [tenant EXCEPT !.menus = rows]
    /\ UNCHANGED <<clock, epicor, cache, lock, mapLoaded, caller, ghosts>>

\* Epicor reads the Menu table, then (a later request) the Security table.
EpicorReadsMenus(x) ==
    /\ task[x].pc = "menus"
    /\ task' = [task EXCEPT ![x].pc = "security", ![x].menus = rows]
    /\ UNCHANGED <<clock, epicor, cache, crawl, caller, ghosts>>

EpicorReadsSecurity(x) ==
    /\ task[x].pc = "security"
    /\ task' = [task EXCEPT ![x].pc = "rows", ![x].security = rows]
    /\ crawled' = crawled \cup {<<task[x].menus, rows>>}
    /\ UNCHANGED <<clock, epicor, cache, crawl, caller, evicted, refreshed>>

\* _get_tenant's three writes, stamped with the time the BUILD began.
StoreTenant(x) ==
    /\ tenant' = [menus |-> task[x].menus, security |-> task[x].security,
                  at |-> task[x].now]
    /\ lock' = Tail(lock)
    /\ UNCHANGED mapLoaded

FinishCrawl(f) ==
    /\ task[f].pc = "rows"
    /\ StoreTenant(f)
    /\ CacheSnapshot(f, ComputeSnapshot(task[f].user, task[f].menus,
                                        task[f].security, mapLoaded))
    /\ UNCHANGED <<clock, epicor, caller, ghosts>>

\* Mutant: a failed crawl leaves the lock held.
FailFetchHolding(f) ==
    /\ task[f].pc \in {"user", "menus", "security"}
    /\ CacheSnapshot(f, FetchFailure(task[f].cached, task[f].now))
    /\ UNCHANGED <<clock, epicor, crawl, caller, ghosts>>

\* Any exception out of fetch_user, fetch_menus or fetch_security_rows; async
\* with releases the lock, and no tenant field has been written yet.
FailFetch(f) ==
    /\ task[f].pc \in {"user", "menus", "security"}
    /\ lock' = IF task[f].pc = "user" THEN lock ELSE Tail(lock)
    /\ CacheSnapshot(f, FetchFailure(task[f].cached, task[f].now))
    /\ UNCHANGED <<clock, epicor, tenant, mapLoaded, caller, ghosts>>

-----------------------------------------------------------------------------
(* Eviction and the forced refresh *)

\* Mutant: the registered build stays joinable.
EvictKeepingFlight(e) ==
    /\ generation < MaxGeneration
    /\ snapshots' = [snapshots EXCEPT ![e] = NoSnapshot]
    /\ generation' = generation + 1
    /\ evicted' = [evicted EXCEPT ![e] = [user |-> identity[e].ver, rows |-> rows]]
    /\ UNCHANGED <<clock, epicor, flights, crawl, task, caller, refreshed, crawled>>

\* evict: one user's snapshot and registered build, and a new generation.
Evict(e) ==
    /\ generation < MaxGeneration
    /\ snapshots' = [snapshots EXCEPT ![e] = NoSnapshot]
    /\ flights' = [flights EXCEPT ![e] = None]
    /\ generation' = generation + 1
    /\ evicted' = [evicted EXCEPT ![e] = [user |-> identity[e].ver, rows |-> rows]]
    /\ UNCHANGED <<clock, epicor, crawl, task, caller, refreshed, crawled>>

\* evict_all's assignments (the tenant rows stay).
DropAll ==
    /\ snapshots' = [e \in Emails |-> NoSnapshot]
    /\ flights' = [e \in Emails |-> None]
    /\ generation' = generation + 1
    /\ evicted' = [e \in Emails |-> [user |-> identity[e].ver, rows |-> rows]]

EvictAll ==
    /\ generation < MaxGeneration
    /\ DropAll
    /\ UNCHANGED <<clock, epicor, crawl, task, caller, refreshed, crawled>>

\* POST /admin/authz/refresh: refresh_tenant with force, then evict_all.
RefreshTenant(x) ==
    /\ generation < MaxGeneration
    /\ task[x].pc = "idle"
    /\ LET t == [IdleTask EXCEPT !.pc = "lock", !.now = clock] IN
        \/ /\ lock = <<>>
           /\ StartCrawl(x, t, <<x>>)
        \/ /\ lock # <<>>
           /\ lock' = Append(lock, x)
           /\ task' = [task EXCEPT ![x] = t]
           /\ UNCHANGED <<tenant, mapLoaded, cache>>
    /\ UNCHANGED <<clock, epicor, caller, ghosts>>

\* Mutant: the refresh leaves the snapshots to their TTL.
FinishRefreshOnly(x) ==
    /\ task[x].pc = "rows"
    /\ StoreTenant(x)
    /\ refreshed' = task[x].menus
    /\ task' = [task EXCEPT ![x] = IdleTask]
    /\ UNCHANGED <<clock, epicor, cache, caller, evicted, crawled>>

\* evict_all follows the awaited refresh without a suspension point.
FinishRefresh(x) ==
    /\ task[x].pc = "rows"
    /\ StoreTenant(x)
    /\ DropAll
    /\ refreshed' = task[x].menus
    /\ task' = [task EXCEPT ![x] = IdleTask]
    /\ UNCHANGED <<clock, epicor, caller, crawled>>

\* The endpoint answers 502 and evicts nothing.
FailRefresh(x) ==
    /\ task[x].pc \in {"menus", "security"}
    /\ lock' = Tail(lock)
    /\ task' = [task EXCEPT ![x] = IdleTask]
    /\ UNCHANGED <<clock, epicor, cache, tenant, mapLoaded, caller, ghosts>>

-----------------------------------------------------------------------------
Environment ==
    \/ Tick
    \/ ChangeRows
    \/ PublishMap
    \/ \E e \in Emails, k \in Kinds : ChangeIdentity(e, k)

\* The steps of one build: what the event loop and Epicor's replies drive.
BuildStep(f) ==
    \/ BeginBuild(f)
    \/ EpicorReadsUser(f)
    \/ UseIdentity(f)
    \/ EnterLock(f)
    \/ EpicorReadsMenus(f)
    \/ EpicorReadsSecurity(f)
    \/ FinishCrawl(f)
    \/ FailFetch(f)
    \/ Release(f)

RefreshStep(x) ==
    \/ EnterLock(x)
    \/ EpicorReadsMenus(x)
    \/ EpicorReadsSecurity(x)
    \/ FinishRefresh(x)
    \/ FailRefresh(x)

Ensure(c, e) == ServeCached(c, e) \/ JoinFlight(c, e) \/ StartFlight(c, e)

CallerStep(c) ==
    \/ \E e \in Emails : Ensure(c, e)
    \/ Answer(c)
    \/ Return(c)
    \/ Abandon(c)

Next ==
    \/ Environment
    \/ \E f \in Flights : BuildStep(f)
    \/ \E x \in Admins : RefreshStep(x) \/ RefreshTenant(x)
    \/ \E c \in Callers : CallerStep(c)
    \/ \E e \in Emails : Evict(e)
    \/ EvictAll

Spec == Init /\ [][Next]_vars

-----------------------------------------------------------------------------
(* Type invariant: every field of the authorizer and of its Tasks.         *)
TypeOK ==
    /\ clock \in Nat
    /\ identity \in [Emails -> Identity]
    /\ rows \in Nat
    /\ mapFile \in BOOLEAN
    /\ mapLoaded \in BOOLEAN
    /\ snapshots \in [Emails -> Snapshot]
    /\ flights \in [Emails -> Flights \cup {None}]
    /\ generation \in Nat
    /\ tenant \in Tenant
    /\ lock \in Seq(Tasks)
    /\ task \in [Tasks -> Task]
    /\ caller \in [Callers -> Caller]
    /\ evicted \in [Emails -> [user : Nat, rows : Nat]]
    /\ refreshed \in Nat
    /\ crawled \subseteq Nat \X Nat

(* A cached answer about a user was read from Epicor after the user's last *)
(* eviction: a build running when an admin evicts cannot put the old       *)
(* answer, or a stale copy of it, back (menu_authz.py:142-151, 428-441).   *)
EvictionBarrier ==
    \A e \in Emails :
        Answering(snapshots[e]) => snapshots[e].user >= evicted[e].user

(* Whoever asks after an eviction is answered from identity data read      *)
(* after it, although builds begun earlier still run and answer their own  *)
(* callers (evict's docstring, menu_authz.py:500-510).                     *)
AnswerAfterEviction ==
    \A c \in Callers :
        LET f == caller[c].flight
            s == IF f = None THEN caller[c].answer ELSE task[f].result
        IN Answering(s) => s.user >= caller[c].floor

(* Single flight: of one generation, a user has at most one running build  *)
(* and it is the registered one, so one build at a time can write a user's *)
(* snapshot, even while a finished build lingers for a loop tick.          *)
SingleFlight ==
    \A f \in Flights :
        Building(f) /\ task[f].gen = generation => flights[task[f].email] = f

(* An Epicor outage never prolongs access: whoever is answered with a      *)
(* grant, from the cache or by a build, is answered with one that Epicor's *)
(* answers really gave no longer ago than the TTL, or the grace if it is   *)
(* served stale, however often a stale grant is served, cached again, hit  *)
(* and found by the next failing build (menu_authz.py:342-362, 322-323).   *)
(* And only a grant is ever served stale.                                  *)
GraceBound ==
    /\ \A e \in Emails :
        Hit(e) /\ Granting(snapshots[e]) => clock - snapshots[e].computed <= TTL
    /\ \A f \in Flights :
        LET s == task[f].result IN
        /\ Granting(s) => task[f].now - s.computed <= IF s.stale THEN Grace ELSE 0
        /\ s.stale => Granting(s)

(* The shared rows are one crawl's: whatever fails, queues, is evicted or  *)
(* is forced in between, the rows the tenant holds, and the rows a cached  *)
(* grant was computed from, are a pair that one crawl read in one hold of  *)
(* the lock, never the menus of one and the security rows of another.      *)
TenantPair ==
    /\ tenant.at >= 0 => <<tenant.menus, tenant.security>> \in crawled
    /\ \A e \in Emails :
        snapshots[e].kind = "scoped" =>
            <<snapshots[e].menus, snapshots[e].security>> \in crawled

(* The crawl lock: at most one crawl is under way, by the lock's holder.   *)
OneCrawl ==
    \A x \in Tasks : Crawling(x) => lock # <<>> /\ Head(lock) = x

(* After POST /admin/authz/refresh has succeeded, no cached snapshot is    *)
(* computed from menu rows older than the ones it fetched                  *)
(* (server.py:1609-1616), whatever builds straddle the refresh.            *)
RefreshPropagates ==
    \A e \in Emails :
        snapshots[e].kind = "scoped" => snapshots[e].menus >= refreshed

(* Neither the rows nor their age stamp ever run backwards: a build that   *)
(* waited long for the lock does not overwrite newer rows with older ones. *)
TenantForward ==
    [][tenant'.menus >= tenant.menus /\ tenant'.at >= tenant.at]_vars

(* What the admin endpoints say of an eviction: "instant propagation of an *)
(* Epicor menu/group change ahead of the TTL window" (server.py:1538-1539).*)
(* A cached grant is computed from menu rows as new as the last eviction.  *)
(* The code does not meet it: an eviction leaves the rows to their TTL.    *)
EvictionPropagatesMenus ==
    \A e \in Emails :
        snapshots[e].kind = "scoped" => snapshots[e].menus >= evicted[e].rows

(* Every coroutine awaiting a snapshot is answered, whatever Epicor does.  *)
CallersAnswered == \A c \in Callers : caller[c].flight # None ~> caller[c].flight = None
=============================================================================
