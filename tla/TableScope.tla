----------------------------- MODULE TableScope -----------------------------
(***************************************************************************)
(* The table gate of discovery/authz.py (class TableAuthorizer, mode gate  *)
(* or boost) on top of MenuAuthz, and the admin endpoints of server.py     *)
(* that evict both caches.  A gate is a coroutine inside scope_for: a tool *)
(* call, or the middleware's _prime_table_scope.  The other callers await  *)
(* ensure_snapshot only (the middleware's _ensure_snapshot_safe).          *)
(***************************************************************************)
EXTENDS MenuAuthz

CONSTANT Gates
ASSUME GatesAssumption == Gates \subseteq Callers

VARIABLES
    pinned,     \* TableAuthorizer._cache: the snapshot each scope projects
    late        \* ghost: whose pin was made by a call begun before their last eviction

pins      == <<pinned, late>>
scopeVars == <<vars, pins>>

ScopeInit ==
    /\ Init
    /\ pinned = [e \in Emails |-> NoSnapshot]
    /\ late = {}

-----------------------------------------------------------------------------
(* scope_for                                                               *)

\* A pinned scope is returned at once, without consulting the snapshot.
ScopeHit(c, e) ==
    /\ caller[c] = IdleCaller
    /\ pinned[e] # NoSnapshot
    /\ UNCHANGED scopeVars

ScopeFor(c, e) ==
    /\ pinned[e] = NoSnapshot
    /\ Ensure(c, e)
    /\ UNCHANGED pins

\* _project and the pin: an error snapshot gives UNAVAILABLE, and so does a
\* scoped one whose services have no entity set in the service index; only
\* UNLIMITED and SCOPED are pinned, for the life of the process.
ProjectScope(c) ==
    /\ LET s == caller[c].answer IN
        \/ \E e \in Emails :
            /\ caller[c].email = e
            /\ Granting(s)
            /\ pinned' = [pinned EXCEPT ![e] = s]
            /\ late' = IF caller[c].floor < evicted[e].user
                       THEN late \cup {e} ELSE late \ {e}
        \/ (s.kind # "all" /\ UNCHANGED pins)
    /\ Return(c)

\* wait_for gives up after snapshot_wait_s: UNAVAILABLE, and the build goes on.
ScopeTimeout(c) == Abandon(c) /\ UNCHANGED pins

GateStep(c) ==
    \/ \E e \in Emails : ScopeHit(c, e) \/ ScopeFor(c, e)
    \/ (Answer(c) /\ UNCHANGED pins)
    \/ ProjectScope(c)
    \/ ScopeTimeout(c)

-----------------------------------------------------------------------------
(* The admin endpoints *)

\* Mutant: the snapshots are evicted and the scopes they gave are left alone.
AdminEvictKeepingPin(e) ==
    /\ Evict(e)
    /\ late' = late \ {e}
    /\ UNCHANGED pinned

\* POST /admin/authz/evict/{email}, POST /admin/users/{email}/evict
AdminEvict(e) ==
    /\ Evict(e)
    /\ pinned' = [pinned EXCEPT ![e] = NoSnapshot]
    /\ late' = late \ {e}

DropPins ==
    /\ pinned' = [e \in Emails |-> NoSnapshot]
    /\ late' = {}

\* POST /admin/reload
AdminReload == EvictAll /\ DropPins

\* POST /admin/authz/refresh, after its await
AdminRefreshed(x) == FinishRefresh(x) /\ DropPins

RefreshProgress(x) ==
    \/ ((EnterLock(x) \/ EpicorReadsMenus(x) \/ EpicorReadsSecurity(x) \/ FailRefresh(x))
          /\ UNCHANGED pins)
    \/ AdminRefreshed(x)

ScopeNext ==
    \/ ((Environment \/ \E f \in Flights : BuildStep(f)) /\ UNCHANGED pins)
    \/ \E x \in Admins :
        (RefreshTenant(x) /\ UNCHANGED pins) \/ RefreshProgress(x)
    \/ \E c \in Callers \ Gates : CallerStep(c) /\ UNCHANGED pins
    \/ \E c \in Gates : GateStep(c)
    \/ \E e \in Emails : AdminEvict(e)
    \/ AdminReload

ScopeSpec == ScopeInit /\ [][ScopeNext]_scopeVars

\* The loop runs every ready callback, and every request to Epicor ends in a
\* reply or in the client's time-out.  Nothing obliges callers, admins or time,
\* nor a gate to give up.
ScopeFairSpec ==
    /\ ScopeSpec
    /\ \A f \in Flights : WF_scopeVars(BuildStep(f) /\ UNCHANGED pins)
    /\ \A x \in Admins : WF_scopeVars(RefreshProgress(x))
    /\ \A c \in Callers : WF_scopeVars(Answer(c) /\ UNCHANGED pins)

-----------------------------------------------------------------------------
ScopeTypeOK ==
    /\ TypeOK
    /\ pinned \in [Emails -> {s \in Snapshot : Granting(s) \/ s = NoSnapshot}]
    /\ late \subseteq Emails

(* An eviction takes the pinned scopes with it (server.py:1501-1503), and  *)
(* only a call that was already under way can bring old ones back: while a *)
(* user's pin was not made by a call begun before the user's last eviction,*)
(* it was derived from identity data read after that eviction, whatever    *)
(* builds, refreshes and other evictions cross it.                         *)
PinFollowsEviction ==
    \A e \in Emails :
        pinned[e] # NoSnapshot /\ e \notin late => pinned[e].user >= evicted[e].user

(* "every menu-snapshot eviction must take the table scopes with it -- a   *)
(* scope derived from an evicted snapshot would otherwise outlive it       *)
(* forever" (server.py:1501-1503): a pinned scope was derived from data    *)
(* read after the user's last eviction.  The code does not meet it: a call *)
(* that straddles the eviction pins what it was given before it.           *)
PinnedAfterEviction ==
    \A e \in Emails :
        pinned[e] # NoSnapshot => pinned[e].user >= evicted[e].user
=============================================================================
