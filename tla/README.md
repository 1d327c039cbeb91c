# TLA+ models of epicor-mcp

This directory is the formal model of the Epicor MCP server in
`src/epicor_mcp`: TLA+ modules for its stateful parts and for the algorithms whose
mistakes would be silent, TLC configurations that model-check them on small
instances, and TLAPS proofs that hold for every instance. `PROJECT.json` maps each
definition to the source lines it models.

The server is read-only towards Epicor except for one operation (saving a BAQ).
It is one asyncio process: one event loop, shared dictionaries, no database of
its own beyond an audit log and a refresh-token store. A coroutine runs
undisturbed from one `await` to the next, so **an action is the code between two
awaits**, and what has to be explored is what happens while it is suspended.

## 1. Inventory

| Part | State it keeps | Operations | Interacts with |
| --- | --- | --- | --- |
| Menu authorization cache (`rbac/menu_authz.py`) | `_snapshots`, `_flights`, `_generation`, the tenant's menu and security rows with their age, `_lock` | `ensure_snapshot`, the build task, `evict`, `evict_all`, `refresh_tenant` | Epicor (user, menu, security reads), map store, every request |
| Map store (`rbac/menu_map_store.py`) | the loaded map, the file's mtime | `maybe_reload`, lookups | nightly builder, through `os.replace` |
| Table scope (`discovery/authz.py`) | pinned scope per e-mail | `scope_for`, `evict`, `evict_all` | the authorization cache |
| Saved-BAQ writer (`baq_ops/save.py`, `wedge_server.py`) | nothing here; the BAQ at Epicor | probe, parse, snapshot, delete, `Update`, restore, verify | ad-hoc pipe, HTTP client, saved-BAQ runner |
| HTTP client (`epicor_client/http_client.py`) | a connection pool | `_request` with up to three attempts | Epicor |
| Cost governor (`sql/governor.py`) | a semaphore, spent seconds per session | `check_budget`, `inflight`, `record` | both query paths |
| Ad-hoc pipe (`sql/adhoc.py`) | none; a call's page and its two passes | bound, rewrite, parse, gates, Execute, page | governor, scope gate, deny-list, diagnosis |
| Empty-result diagnosis (`sql/diagnose_empty.py`) | `DomainCache`, shared between sessions when there is no authentication | count, list, relax, verdict | the pipe's probe runner |
| Cardinality test (`sql/grain.py`) | none | close over equalities and keys, judge | the pipe |
| Saved-BAQ runner (`baq_ops/saved_run.py`) | none | describe, gate, run | governor |
| OAuth proxy (`server.py`) | `_pending_auth`, `_refresh_cache`, SQLite tokens | authorize, callback, token | Azure AD, clients |
| Sessions and JWKS (`auth/`) | sessions (8 h), Azure's signing keys (1 h) | validate a token, refetch, create, look up, drop | the authentication middleware, Azure |
| Circuit breaker (`audit.py`) | failure times per user and tool | admit, record, clear | every tool call |
| Snapshot priming (`server.py`) | `_snapshot_tasks`, `_scope_prime_tasks` | prime with a bounded wait | authorization cache |
| Legacy reads (`tools/read.py`, `tools/_engine.py`) | services known to need GetRows | pages, cursors, scans, joins, counts | Epicor's OData and GetRows |
| User map and resolver (`rbac/user_map.py`, `rbac/epicor_user_resolver.py`) | profiles, resolved users | look up, provision, hot-swap, evict, reload | the authentication middleware, Epicor, admin endpoints |
| Other SQL analysis, discovery, indexes, formatting, the other legacy tools, bridge | read-only data | pure functions and reads | - |

Which behaviours are hard, and what makes each part correct:

* **Authorization cache.** An admin's eviction meets builds that are suspended in
  Epicor; many requests share one build and may be cancelled; Epicor may be
  down, and a stale answer may be served for a while; two table crawls under a
  lock must yield a pair that belongs together. Correct means: an eviction is a
  barrier, a build is single-flight, an outage neither prolongs access nor turns a
  refusal into a grant, and a refresh reaches every cached snapshot.
* **Table scope.** It pins for the life of the process, so an eviction must reach what
  is pinned, and what is pinned after it must not predate it.
* **Saves.** Epicor has no atomic replacement. A request may take effect and lose
  its reply; the client retries it; two users may save one id. Correct means:
  nothing is lost without being reported, a refusal writes nothing, and what is
  reported as saved, restored or verified is so.
* **Governor.** Slots and charges must survive timeouts, failures and
  disconnects; the line must be fair; a budget checked before and charged after
  can be overshot, but only by what is under way.
* **OAuth proxy.** A refresh deletes a token in one commit and stores its successor
  in another; refreshes of one token overlap, are repeated after a lost answer and
  meet restarts. Correct means: a user is signed out for a cause only, and a
  sign-in that is over stays over.
* **Admission.** Fetches of Azure's keys overlap, fail and arrive out of order while keys
  rotate; a user's profile is resolved at Epicor while admins evict, change or reload; two
  users may send one session id, or one the other's address. Correct means: a valid token is not refused and a withdrawn
  key not accepted for long, profiles are of the configuration in force and no older than
  an eviction, and a session id does not take over another user's session.
* **Request path.** The breaker reads its failures before the call and writes them
  after it; the wait for a snapshot is bounded, the snapshot is not. Correct means:
  a storm is bounded, a tripped breaker opens again, and no request hangs.
* **Query pipe.** A statement is rewritten after it has been gated, and gated
  again; a page must know whether it is all there is. Correct means: only gated
  text runs, and "complete" is true.
* **Diagnosis.** Probes fail, budgets run out halfway, listings are cached. Correct means:
  a lack of evidence is not taken for evidence, and nothing that is there is called a mistake.
* **Cardinality test.** A join that multiplies rows gives wrong totals and no
  error. Correct means: silence is never wrong, and a warning is about something
  that can happen.
* **Legacy reads.** Pages are cut, resized, resumed and fetched by two protocols
  that count differently. Correct means: no row is skipped or repeated, and an
  answer that calls itself complete is.

`PROJECT.json` lists every hazard at its line, with the properties that cover it
or the reason that none does.

## 2. Modules

| Module | Models | Uses |
| --- | --- | --- |
| `MenuAuthz` | `MenuAuthorizer`: callers, build tasks, the lock, the crawl, evictions, an admin's refresh, Epicor as environment | - |
| `TableScope` | the discovery authorizer and the admin endpoints, composed with `MenuAuthz` | `MenuAuthz` |
| `SaveBaq` | `save_as`: run, save, verify, with a retrying client and an Epicor that loses replies | - |
| `Governor` | the cost governor and the two paths that use it | - |
| `SignIns` | what a sign-in promises: opened once, renewed while open, closed for good | - |
| `OAuth` | the OAuth proxy, its clients, Azure's answers, restarts; implements `SignIns` | `SignIns` |
| `Admission` | token check and key cache, profiles and their resolution, sessions, the admin endpoints on profiles | - |
| `RequestPath` | the bounded wait for a snapshot and the circuit breaker | - |
| `QueryPipe` | one call of `run_sql`: passes, gates, page, probes | - |
| `Diagnosis` | `diagnose_empty` and its cache | - |
| `Grain` | the cardinality test, against the rows a result may hold | - |
| `Reads` | `epicor_read`: pages, cursors, scans, joins, counts | - |
| `*Proofs` (eight) | the theorems | the module proved about, `TLAPS` |
| `MC*` | symmetry sets and statement sets for TLC | the module checked |

### MenuAuthz

Epicor's state is abstracted to versions: `identity[e]` is a user's record and
its version, `rows` the version of the menu and security tables. A snapshot
carries the versions it was computed from, so "older than the eviction" is a
comparison of numbers. `task[f].pc` says where a build is suspended:
`made` (not yet run), `user` and `identity` (the user read, before and after
Epicor has answered), `lock`, `menus`, `security`, `rows` (the crawl), `done`
and `released` (finished, then its callbacks run, a loop tick later).
`lock` is the asyncio lock: the holder followed by its FIFO of waiters.
A caller shares the build through `asyncio.shield`, so it can be cancelled without
the build being so. `TenantFresh`, `FetchFailure` and `ComputeSnapshot` are the
code's branches. The ghosts: `evicted` and `refreshed` remember the last eviction and refresh, `crawled` the pairs
of rows that some crawl read, and a snapshot's `computed` when Epicor's answers really were turned into it, whatever
its stamp `at` says.

### TableScope

`Gates` are the callers that come from `scope_for`: they wait for the snapshot at
most `snapshot_wait_s`, then pin what they were given (`ProjectScope`) or leave
(`ScopeTimeout`). The admin endpoints evict both caches (`AdminEvict`,
`AdminReload`) or refresh and drop the pins (`AdminRefreshed`). The ghost `late` holds the users
whose pin was made by a call that had begun before their last eviction.

### SaveBaq

`store` is the definition Epicor holds for the one id all savers target. Each
attempt of a write is an action (`Send`) with three outcomes: a reply, a rejection,
or a lost reply with or without the effect; what follows depends on the reply
only. Reads retry inside one action, as they change nothing. `before`, `wrote`,
`ran` and `existed` are ghosts that say what really happened.

### Governor

A call's `pc` is its await; `permits` and `waiters` are `asyncio.Semaphore`;
`spend[s][a]` is what session `s` was charged `a` ages ago. `Tick` is the clock: it
waits while a timer is due (`Due`), as `asyncio.wait_for` fires at its time.
`RefuseSaved` and `RefuseSql` stand for every gate before Execute; the saved path charges
those exits (`_charge`), the ad-hoc one does not. `Reenter` is `run_sql` calling itself once with
the statement rewritten. The probes of an empty result are
Executes that hold no permit, as in the code.

### OAuth and SignIns

`login[s]` is where a sign-in's handshake stands, `held[s]` the token its client
has, `db` the tokens in `refresh_tokens.db`, `cache` the `_refresh_cache` with ages.
A token is a sign-in and a number, since uuid4 tokens are fresh. A refresh is a
request with its own `pc`: sent to Azure (`Refresh`), Azure's answer (`AzureAccepts`,
`AzureRefuses`, `AzureFails`), the delete-and-store (`Rotate`), the answer delivered or
lost. `Restart` takes the memory and every request under way, also between the
delete and the store. A client may send a token twice, and anyone may have a late
request for an old one. `cause` is a ghost that records what has happened to a
sign-in that may end it: Azure's refusal, a restart, an answer later than the cache
lasts, or a grant without a refresh token. The refinement
mapping (`Status`) reads a sign-in as open while a token of it is stored or a
request under it is at Azure; `ImplementsSignIns` is `SignIns!Spec` under it.

### Admission

`req[r].pc` is where a request waits: for Azure's keys (`fetch`, or `forced` after a key was not
found), for Epicor's authorization client (`identity`) or the older resolver (`userfile`). A fetch has two
steps, since Azure's answer and its arrival can be overtaken: `AzureServes` takes the keys of that
moment, `Fetched` caches them over whatever is there. `Check` and `Recheck` are the two lookups of a
token's key. `Provide` stores a profile unless one is there by now; `Legacy` is what follows the resolver, whose
answers `resolved` caches. A profile is abstracted to the configuration and the version of the user record
it was worked out from. `HotSwap`, `EvictUser` and `Reload` are the admin endpoints; what they do to
snapshots and scopes is in `TableScope`. The ghosts `withdrawn` and `since` date the keys and the evictions.
A token is a user and a key: its other claims are taken to be in order. A session id is
whatever the client sends (`server.py:1237`): one the transport has issued, the user's own address, which is the fallback,
or somebody else's address, which makes a session under it; the ghost `guessed` remembers whose. Dev mode, which serves without a token, is not modelled.

### RequestPath

The requests are those under one key of the breaker. `registered` is
`_snapshot_tasks[email]`; a task's done-callback (`Forget`) removes that entry
whosever it is, as in the code, and the ghost `crossed` records when it was a newer
task's. `failures` is the deque of ages. `Call` prunes and admits or refuses;
`Succeed` clears the deque the call was given; `Gone` is a disconnect, which the
breaker does not see.

### Reads

One client's chain of reads of a table whose rows others may insert and delete.
`got` is every row the chain has accounted for; `said` is what its last answer
claimed. OData pages by `$skip`/`$top`; GetRows by page number, so a skip
that is no multiple of the page is cut out of a page (`SkippedRows`, `ScanPage`). `Shown`
is the byte budget's halving. Five ways to a false "complete" exist in the code and are
carried as `flaws`, so that the properties speak of everything else: a cursor resumed
with another limit under GetRows (`relimited`), a scan that ends in an error
(`scan_error`), a join that stops at its limit (`stopped_early`), an answer moved to a
file (`offloaded`) and a count that could not be made (`uncounted`).
`epicor_read` is the earlier tool surface: the current server does not register it.

### QueryPipe

`ask` is the statement and page asked for, abstracted to its form, its row bound, its page
and the rows of its branches. A form is a select or one of the four set operations of two, and what each branch is to the
pass that bounds it: plain, distinct, a grand total, or `scalar`, which is taken for one. `Limit` is the bound of a branch,
`Branch` what it makes, `Combined` what the operation makes of two. Chains of three and a select over a set operation in a
derived table are left out. `tables` is what the text in hand reads, as
Epicor's parse of it says: the environment chooses it anew for the statement,
its rewritten form and each probe. `granted` is the caller's scope. `ParseReply` is
everything between the parse and the next await: the deny-list, the scope gate, the
rewrite of a long sort key that puts the statement through the pipe again
(`Reenter`), and the Execute. `Bound`, `Unreachable` and `Complete` are the paging arithmetic.
Its budget and slots are `Governor`'s, which ends a call whose Execute reports errors at once: the one or two Analyze
requests that follow are here only, and are neither charged nor given a slot by the code.

### Diagnosis

A predicate is abstracted to its kind: the test (an equality, a number, a list, a pattern, a comparison, a NULL
test, one without a literal, one that cannot be counted), whether its column is the table's own or one
whose values are looked up in a master (`authority`), whether its table is too large to list, and whether a sibling table is tried. `world[p]` is
the truth: whether it matches rows, whether a value of the column satisfies it, whether there are more values than a list
holds, and since when. `Count`, `List` and `Having` are probes and each may
fail; `cache` is the `DomainCache` with its TTL (0 is for ever), its entry for ranges and its entry for values of each column, and its
clearing when full. `Present` is the code's own test of a value against a listing, `Likely` its accusation. Diagnoses follow one another
and share the cache with those of others (`Others`), which separate sessions do only in auth mode `none`. The install constant,
which answers a Company predicate without a probe, is left out.

### Grain

A statement is its sources' candidate keys, which of them are LEFT JOINed, and the
equalities of each ON and of the WHERE, a comparison with a constant being an equality of a
column with itself. The code sweeps over equalities and tables until nothing
changes; here `Learn` and `Determine` are one inference each, in any order, so what
is shown does not depend on the order of the sweeps. `Judge` comes when nothing is left
to infer; a tie between the smallest gaps is a choice.

The reference is independent of the test: a `Pair` is two rows of a result, described
by the columns on which they agree and the sources they have no row of; `Result`
says which pairs a statement admits, in an install of one company. The
rules that choose which sources must be fixed (aggregates over several sources, sibling
crosses, duplicate projections) are not modelled: `fixed` is any nonempty set of sources with
a known key. FULL and RIGHT joins are not modelled.

## 3. What is checked

| Run | Question | Instance |
| --- | --- | --- |
| `authz_identity` | overlapping callers and builds, eviction, outage: is the eviction a barrier, are builds single-flight, who is answered with what | 1 user, 2 builds, 2 callers |
| `authz_rows` | crawls, refresh, failures: are the rows, and those a grant came from, one crawl's; do they move forward, reach every snapshot | 1 user, 2 builds, 1 admin, 1 caller |
| `scope_pins` | does an eviction take the pins with it, is what is pinned after it newer, is whoever awaits a snapshot answered | 1 user, 2 builds, 1 admin, a gate and a caller |
| `save_pair` | two saves of one id, lost replies, cancellation: are losses reported, refusals clean; does an undisturbed save's block tell the truth; does every save return | 2 saves, 2 attempts, 1 old definition |
| `governor_calls` | are slots conserved, is the line fair, overshoot bounded, work charged; do budgets recover | 2 calls, 2 sessions, 1 slot |
| `oauth_refresh` | is nobody signed out without a cause, does a sign-in that is over stay over | 1 sign-in, 4 tokens, 3 requests, a cache of 1 age |
| `admission_requests` | are rotations survived and withdrawn keys dropped, are profiles of the configuration in force, no older than an eviction and never overwritten, does an id take over a session | 2 requests; 2 keys, a cache and a fetch of 1 age; 2 configurations, 2 user records; 2 users and 1 shared session id, one user sending the other's address |
| `path_storm` | are failures and the calls that may add to them bounded, does the breaker reopen, does any request hang | 3 requests, 2 tasks, threshold 2, window 1 |
| `reads_exact` | is what is called complete the table, are rows skipped or repeated | 1 chain, up to 6 rows, 2 writes, limits 1, 2, 4, pages of 3 |
| `query_pages` | does only gated text run, is "complete" true, are refused pages empty | 11 forms (4 selects, 7 set operations), bounds 1 and 5, page sizes 2 and 3, pages 1 to 3, 2 probes |
| `diagnosis_empty` | is a mistake called a correct empty answer, a present value accused | 2 predicates, 7 kinds, budgets 2 and 3, a TTL of 1 age, 1 write or diagnosis of others |
| `grain_fanout` | is a multiplying join passed over in silence, is a warning about nothing | 3 sources of 3 columns, up to 2 equalities in an ON, 1 in the WHERE |

All hold.

**Bounds.** *Authorization:* one user, two builds, two callers and one admin: the hazards of the
cache need one build before an eviction and one after it, and a caller for
each; other users share nothing with this one but the generation, the rows and the
lock, which admins and `evict_all` move too. `MaxClock`, `MaxGeneration`,
`MaxIdentity` and `MaxRows` bound how often time, evictions and Epicor's data move;
one change on each side of an eviction is what the properties tell apart. The runs
split the dimensions: identity with grace, rows with an admin's crawl. TTL 0 makes
every second request rebuild. *Saves:* two savers and one earlier definition, two
attempts (a first and a retry). An
"undisturbed" save is one before the other has begun. *Governor:* two calls and one slot,
so there is a line; ages are as coarse as a timeout; the window is longer than any
call, so that overshoot adds up inside it; `AgeBound` caps a call's age beyond
every bound that the properties mention. *OAuth:* sign-ins share nothing but the process, so
one is enough; three requests are two that cross and a late repetition; four tokens
are three rotations, one more than the cache remembers. *Request path:* more
requests than the threshold, so that calls under way outlive the trip; two tasks, so that
an old one's callback can meet a new one. *Reads:* six rows are two full pages of a
scan, or a page, a halved one and a rest; the limits cover smaller than, unequal to and larger than a page.
*Pipe:* a row bound below and above the largest page, branches that are empty, short, full,
too long or with duplicates; every kind of select, every set operation of two plain ones, and three of unlike branches,
of which one bound is the sum, one unknown and one not kept. *Diagnosis:* two predicates are enough for one to be
counted, the other not; the seven kinds are the ways through the listing (a range, a small and a large table, a sibling, a
master's values for an equality and for a list) and two that have none. *Admission:* `mover` says what moves in a behaviour: Azure's keys and time, or
Epicor's user records, the configuration and the admins, or sessions. The three meet only in that one request passes through them in
turn; `Visits` gives the first two one user, and the third two users that share an id, of whom one sends the other's address. Two
requests are two whose fetches or resolutions cross; `FetchLimit` takes httpx's time-outs as one
bound on a fetch. *Grain:* three sources make chains and siblings; keys
of one and two columns besides the company's, two alternative keys, and none.

**Fairness.** `TableScope!ScopeFairSpec`: the steps of each build, those of a refresh under way and
each caller's wake-up are weakly fair, since the event loop runs what is ready and
httpx bounds each request by a timeout. Cancellation, a gate's own timeout, evictions, new requests and
refreshes, and Epicor's edits are never fair: a caller is answered although it does not give up.
`SaveBaq!FairSpec`: every save's own
steps; cancellation is not fair. `Governor!FairSpec`: some
call that can go on does, the clock does, and `NonZeno`: if the system goes on for ever, so does the clock. That is an assumption
about time, not about the scheduler; a `Tick` is within reach of every state, because calls can be
cancelled. `RequestPath!PathFairSpec`: the clock, and each request's own
steps; a snapshot's task is not fair, since that it may never end is the point of the bounded
wait. `SignIns`, `OAuth`, `Admission`, `QueryPipe`, `Diagnosis`, `Grain` and `Reads` state no liveness.

**Deadlock.** It is checked except for `SaveBaq`, `QueryPipe` and `Grain`, whose calls
come to an end.

Every property has a mutant in its module: a definition changed the way
a plausible bug would, under which TLC finds the property violated.

## 4. What is proved

The proofs hold for any number of users, builds, callers, admins, savers, attempts, requests,
tokens, probes, keys, chains of reads, sources and columns, for any TTL, grace, threshold, window,
row bound and page size, without bounds on time. They rest only on the modules' named
assumptions (`TimesAssumption`, `BoundsAssumption`, `NamesAssumption`,
`SaversAssumption`, `AttemptsAssumption`, `RequestPathAssumption`,
`PipeAssumption`, `GrainAssumption`, `PolicyAssumption`, `CallsAssumption`, `GatesAssumption`,
`DiagnosisAssumption`, `AdmissionAssumption`, `ReadsAssumption`): times and bounds are naturals, sets that
are counted are finite, `None` is nobody, names do not overlap, there is a largest limit.

*MenuAuthzProofs.* `TypeOK` is not inductive: releasing the lock takes its `Tail`, which
is a sequence only if the task that releases it is at its head, and writing the
cache needs the task's e-mail. `Shape == TypeOK /\ OneCrawl /\ TaskOK` is. It
gives `TypeCorrect` and `CrawlsAreSerialized`. `EvictionBarrier` is not inductive either: it has
to say what a build carries that may still write. `Barrier` adds that a build of the current
generation holds no data older than the eviction that began
that generation (`RegisteredSince`), that a registered build is of the
current generation, and that a caller's floor is met by what it awaits
(`CallersSince`). The proof has one step per action; the shared work (a
build ends, an entry is forgotten, the lock is queued for) is in lemmas.
`EvictionIsABarrier`, `AnswersFollowEvictions` and `BuildsAreSingleFlight` follow.
The rows need `RowsInv`, which has three parts: the lock's queue has each waiting task once,
and nobody who waits ahead of a refresh began later (`Order`); what a crawl has read
lies between the stored rows and Epicor's, and no stamp is newer than its crawler's (`Stored`);
a build of the current generation holds nothing older than the refresh (`Following`). It
gives `RowsMoveForward` and `RefreshesPropagate`. `RowsAreOneCrawls` and `GraceIsBounded` need `Provenance`, which says of every stored or remembered snapshot that
it is what it says (`Sound`): a grant's stamp, which hits and failing builds go by, is the time it was really worked out, and a scoped grant's
rows are a pair that some crawl read, as are the tenant's and those of a build that has finished its crawl (`WholeRows`).
The table scopes come last. A step of `TableScope` is a step of `MenuAuthz` that may also pin
or drop a pin (`ScopeStepIsStep`), so `ScopesUseTheCache` carries every invariant of the
cache over. `PinsFollowEvictions` needs both: an eviction drops the pin, and a call that began after it pins what
`AnswersFollowEvictions` says it was given; a pin that is neither is one `late` names.

*SaveBaqProofs.* `LossIsReported` speaks of the end of all calls. `LossIsOwed`, its
inductive form, says that whenever the definition is gone, some call is still between
its delete and its report, or has reported, or was cancelled. `AllClean` says what
each call's local state implies about its writes, and yields
`RefusalsWriteNothing`. What a save's block claims is promised only to a save that is
alone: `Solo` follows such a save from its probe on, saying at each step what Epicor holds
and what the snapshot is. An attempt whose reply was lost leaves `Solo` true of the
next attempt (`SoloSend`). `SavesAreStored`, `RestoresArePrevious` and
`VerifiedDefinitionsRan` follow.

*RequestProofs.* The admission of a request and the path behind it. None of the admission's properties is
inductive: each says what is remembered, and what is remembered comes from an answer that was under way
while keys, configuration and user records moved on. `Admitted` is inductive. It says of a waiting request that
the keys Azure has answered with were withdrawn no longer ago than the fetch has lasted (`Dated`), and that a
user record it has read is no older than that user's last eviction, but for one that was under way or cached
then (`Follows`); of the key cache that what it holds was withdrawn no longer ago than its age and one fetch
(`KeysDated`); of a profile and a cached resolution that they are of the configuration in force
and follow the evictions (`Remembered`); of a session that it is its user's, or another's who made it under that user's address (`OwnSession`). It gives `ServedKeysAreAccepted`,
`WithdrawnKeysDoExpire`, `ConfigIsInForce`, `ProfilesFollowEvictions` and `SessionsAreCallers`;
`ProfilesAreKept` is the action property from the same invariant.
`StormBounded` is inductive with the type invariant, by
cardinalities: a call that is let through had fewer failures than the threshold, a
failure moves a call into the deque. `PrimesAreShared` needs `Registered`: until a callback
has removed a newer task's entry, a running task is the registered one.

*PagingProofs.* The two ways to a result in pages. In `QueryPipe`, the scope of a pass must be the caller's: the
invariant ties `granted` and the calls sent so far to where the pass stands (`Behind`), and gives
`OnlyGatedTextRuns` and `CallsAreBounded` (two parses, one run, two analyses, and the probes of a run that is told). What an answer says is
a matter of arithmetic (`Honest`): a page that is not full ends at the last row of what the bounded statement makes
(`CompletePage`), which is what was asked for unless the server cut a branch (`UncutIsAsked`), and a cut branch
fills the page it is cut at (`CutIsFull`), unless the operation removes rows; the bound a refusal is computed from is one the rows keep
(`BoundKept`), whatever a set operation removes. `CompletePagesAreWhole` and `RefusedPagesAreEmpty` follow. In
`Reads`, the properties speak of chains that have ended a read; a chain resumes from a cursor, so `Accounted` says
what is known of it meanwhile: what it has is the beginning of the table, a plain read waits for the row after those
it has, a cursor points there, a count has nothing yet, a scan has said nothing yet. The lemmas are about pages:
a page of GetRows less the rows before the offset is what follows the offset (`ScanPageFacts`), at whatever row of the page
the offset falls, and a page is short only at the end of the table, judged as it came. `CompleteReadsAreWhole` and `ReadsArePrefixes` follow.

*OAuthProofs.* `Implements` is the refinement: the initial states map to `SignIns!Init`,
and every action of the proxy maps to `Open`, `Renew`, `Close` or a stutter. The
invariant says whose tokens are whose (`Owned`), that nothing is kept of a sign-in that has
not begun (`Begun`), and that tokens given and requests under way stay within the bound (`Room`).
`SignOutsHaveCauses` rests on `Excused`: the token that a client holds or is about to be given is in the
database, or is a fresh entry of the cache whose own successor is stored, or cached for at least as
long, or there is a cause.

*GrainProofs.* `FanoutsAreFound`: the invariant `Sound` says that what the test has inferred
holds of every pair, for the sources that both rows have; for plain LEFT JOINs
nothing flows back through an ON. A source that only one of the rows has would
have to differ in something its ON refers to, which leads to an earlier source
of that kind; the least one gives the contradiction. `WarningsArePossible` builds
the pair: from the closure, agree on what is known and on nothing else, which is a
result because nothing more can be inferred.

*GovernorProofs.* `SlotsConserved` needs what a timeout or a cancellation does to the line:
taking a call out of a sequence without repetitions leaves every other call in it once
(`Line`). A free permit and an execution are one slot (`Slots`): an action moves
one call, so the cardinality changes by one when the permits do. `WorkIsCharged` charges a
call its age; the invariant `Dated` says that the age covers the work Epicor has done
for it, which a bounded age must not break. `BoundedWait` needs to know when a call in the line will be
served. The invariant `Timed` gives each place in the line its round (`LineInTime`): the place is no further back than the free
slots, the executions that will have run out of time by then, and a round's worth for every round before; and
each state of a call has its own limit (`OwnTime`). `BoundedOvershoot` is about what calls admitted
under the budget can still be charged: `Afforded` keeps that back for every call under way (`Reserved`), less for one that has
been charged and now diagnoses, so that charging takes from what was kept back. Sums over the window are compared at the least age at which
they would differ.

*DiagnosisProofs.* A verdict "matches" stays true, since others only add rows
(`Truthful`), and "correct" is said when some predicate was counted and none is dead: `NoFalseEmpty`. For
`AccusedIsAbsent`, a dead predicate of a table's own column was absent when it was counted, so what it matches was added since
(`Absent`); of a master, `Dated` says of every kept listing, under either key, that a value it lacks has been there for no
longer than the listing has been kept. That the
first dead predicate exists is by well-foundedness of the order of suspicion.

Each also proves its module's type invariant. `ScopeTypeOK`, which
also says that only grants are pinned, `OneCrawl` and `CallsBounded` are proved and not run.

Every invariant and action property of the runs, and the refinement of `SignIns`, is proved. Only model-checked: the liveness
properties (`CallersAnswered`, `SaveReturns`, `BudgetRecovers`, `Reopens`, `NotBlocked`), since the prover
has no ENABLED. No module declares a RECURSIVE operator. What a recursive function computes is in general out of the
prover's reach, as it needs induction; of the two in the models, what `Total` adds up is compared by the least counterexample
to an equation over the window, and `Shown`'s halving matters to the reads only by what `PageSays` makes of it.

## 5. Known departures

Where a text of the repository promises what the code does not do, the
properties are stated of the rest. Those named here are in the modules with that
remark, checked by no run; adding one to the named run's configuration reproduces a
counterexample. The others are visible in the models as exceptions.

| Text | What the code does | Property (run) |
| --- | --- | --- |
| `server.py:1538`: an eviction propagates a menu change at once | the tenant's rows stay cached until their TTL | `EvictionPropagatesMenus` (`authz_rows`) |
| `server.py:1501`: an eviction takes the table scopes with it | a call that straddles it pins what it was given before | `PinnedAfterEviction` (`scope_pins`) |
| `save.py:483`: a definition that could not be deleted is reported intact | a lost reply to the delete counts as a delete | `IntactIsReported` (`save_pair`) |
| `wedge_server.py:507`: nothing was written | the delete may have taken effect, or an `Update` whose reply is lost | `NothingWritten` (`save_pair`) |
| `save.py:15`: a collision is refused | a failed probe reads as absence | `CollisionRefused` (`save_pair`) |
| `governor.py:47`: concurrent Executes per process | probes hold no slot | `InflightCapped` (`governor_calls`) |
| `docs/design.md:125`: a later page of a bounded statement is refused | a bound above `MAX_PAGE_SIZE` is clamped and the page told as complete | `LaterPagesHonest` (`query_pages`) |
| `diagnose_empty.py:1089`: a value of the master list is not called a typo | a list, a pattern or a comparison is accused although its values are listed (1100, 1196-1200) | `ListedIsSpared` (`diagnosis_empty`) |
| `diagnose_empty.py:726`, 1498: "correct" is said when every predicate was measured | predicates whose probes failed are passed over once one matches (1500), and so is a HAVING that could not be checked (1524) | `CorrectIsChecked` (`diagnosis_empty`) |
| `server.py:1243`: a guessed session id does not lead to another user | sending a user's address makes a session under it, which that user's requests then run in (1237, 1256-1257) | `SessionIsOwn` (`admission_requests`) |

Also: a late second refresh of one token is answered `invalid_grant` although the
first one's answer is cached (`server.py:1986`, `2016`); any answer of Azure's
but 200, an outage as well, deletes the token (`server.py:2016`); an evicted user may be resolved from
the resolver's cache, which an eviction leaves alone, or keep the profile of a resolution that was under way
(`server.py:1537`, against the note at 1551), and the endpoint evicts nothing of a user without a profile, who may have a
snapshot (1529); an answer of Azure's without keys refuses a request although keys are cached (`oauth.py:126`); a cancelled call is neither counted nor
logged (`audit.py:419`); a done-callback removes a newer task's entry (`server.py:1050`); the
five flaws of `Reads`; a set operation whose branches the server cut, and that removes rows, may leave less than a page and is
told as complete (`transpile.py:1682-1725`), and a select whose aggregates all stand in subqueries or windows is taken for a grand
total, so that its later pages are refused (`transpile.py:493-494`, 1799-1802); the Analyze requests after a failed Execute
are neither charged nor given a slot (`adhoc.py:1060-1062`, 1383-1421). In `grain.py`, an equality in the ON of a LEFT JOIN is
read as a condition of the whole result (304-308), so that a join that is not `Plain` and
multiplies rows can look safe, against the comment at 335; and a source that lacks only
Company goes on as if free, as does the choice between two gaps of one size (456), so that a warning beyond it may be
about nothing.

## 6. What is not modelled

* The set algebra of `compute_snapshot` and of the enforcer: data, a function of
  one snapshot.
* Most of SQL analysis (transpiling, lint, column and domain checks, rewrites),
  ranking, formatting, indexes, name resolution, the legacy aggregation and BAQ
  builders: stateless functions of text, whose correctness is a matter of SQL's grammar or of wording,
  and which a small instance does not stand for. They are most of the repository's
  lines, which is why the map covers about a tenth of them.
* A write that takes effect after its client gave up on all its attempts.
* Several processes: sessions and the OAuth handshake are in memory, so the server is
  one process by design.
* Hazards with no property: the departures in the table's first, fifth, sixth and seventh rows, which the
  code does not keep, and the save that is cancelled between its delete and its `Update` (`save.py:519`), of which the code
  promises nothing. The last three rows are exceptions to `AccusedIsAbsent`, `NoFalseEmpty` and `SessionIsCallers`, which hold of the rest.
* The parts named `not_modelled` in `PROJECT.json`, with the reason for each.

## 7. Plan

Done: `MenuAuthz`, `SaveBaq`, `Governor`, `RequestPath`, `QueryPipe`, `Diagnosis`, `OAuth` with
`SignIns`, `TableScope`, `Grain`, `Reads` and `Admission`, with proofs. Left, in this order:

1. An abstract `Entitlement` specification (a user's answers follow the evictions)
   that `MenuAuthz` implements by a refinement mapping.
2. The rules of `grain.py` that choose what must be fixed; FULL and RIGHT joins.
3. `forum_live`'s cache and its own breaker (a failed fallback search is cached as no results).
4. The legacy rule layer of `read.py` and the saved-BAQ runner's gate.
