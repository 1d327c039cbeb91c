--------------------------- MODULE MenuAuthzProofs ---------------------------
(***************************************************************************)
(* Proofs about MenuAuthz, for any e-mails, any number of builds, admins   *)
(* and callers, any TTL and grace, and no bound on time or evictions, and  *)
(* about TableScope, which implements it.                                  *)
(***************************************************************************)
EXTENDS TableScope, SequenceTheorems, TLAPS

-----------------------------------------------------------------------------
(* The values the build computes are snapshots, as new as what it read.    *)

LEMMA NullTypes ==
    /\ NoSnapshot \in Snapshot /\ ~Answering(NoSnapshot)
    /\ NoIdentity \in Identity
    /\ IdleTask \in Task
    /\ IdleCaller \in Caller
    /\ NoTenant \in Tenant
  BY DEF NoSnapshot, Snapshot, SnapshotKind, NoIdentity, Identity, IdentityKind,
         IdleTask, Task, Pc, IdleCaller, Caller, NoTenant, Tenant, Answering

\* compute_snapshot carries the version of the identity it was given.
LEMMA ComputeType ==
    ASSUME clock \in Nat, NEW user \in Identity, NEW menus \in Nat,
           NEW security \in Nat, NEW loaded \in BOOLEAN
    PROVE  LET s == ComputeSnapshot(user, menus, security, loaded) IN
           s \in Snapshot /\ s.user = user.ver
  BY DEF ComputeSnapshot, Snapshot, SnapshotKind, Identity, IdentityKind

\* A fetch failure answers with the cached data or with no answer at all.
LEMMA FailureType ==
    ASSUME clock \in Nat, NEW cached \in Snapshot, NEW now \in Nat
    PROVE  LET s == FetchFailure(cached, now) IN
           /\ s \in Snapshot
           /\ Answering(s) => Answering(cached) /\ s.user = cached.user
  BY DEF FetchFailure, Snapshot, SnapshotKind, Answering, Granting, IdentityKind

-----------------------------------------------------------------------------
(* Type correctness *)

\* What the end of a build assigns.
LEMMA CacheSnapshotType ==
    ASSUME TypeOK, NEW f \in Flights, NEW snap \in Snapshot,
           task[f].email \in Emails, CacheSnapshot(f, snap)
    PROVE  /\ snapshots' \in [Emails -> Snapshot]
           /\ task' \in [Tasks -> Task]
           /\ flights' \in [Emails -> Flights \cup {None}]
           /\ generation' \in Nat
  BY NullTypes DEF CacheSnapshot, TypeOK, Tasks, Task, Pc, IdleTask

\* A Task that exists was made for an e-mail, in a generation already reached.
TaskOK ==
    \A f \in Flights :
        task[f].pc # "idle" => task[f].email \in Emails /\ task[f].gen <= generation

\* TypeOK is not inductive alone: Tail(lock) is a sequence only when the task
\* that releases the lock holds it, and the cache is only written for e-mails.
Shape == TypeOK /\ OneCrawl /\ TaskOK

LEMMA ShapeInit == Init => Shape
  <1> SUFFICES ASSUME Init PROVE Shape
    OBVIOUS
  <1>1. Kinds \subseteq IdentityKind
    BY BoundsAssumption DEF IdentityKind
  <1>2. identity \in [Emails -> Identity]
    BY <1>1 DEF Init, Identity
  <1>3. mapFile \in BOOLEAN /\ mapLoaded \in BOOLEAN
    BY Zenon DEF Init
  <1>8. lock \in Seq(Tasks)
    BY DEF Init
  <1>4. \A x \in Tasks : task[x].pc = "idle"
    BY DEF Init, IdleTask
  <1>5. TypeOK
    BY <1>2, <1>3, <1>8, NullTypes DEF Init, TypeOK
  <1>6. OneCrawl /\ TaskOK
    BY <1>4 DEF OneCrawl, TaskOK, Crawling, Tasks
  <1>7. QED
    BY <1>5, <1>6 DEF Shape

\* A build's end keeps Shape when the lock is left alone.
LEMMA ShapeCache ==
    ASSUME Shape, NEW f \in Flights, NEW snap \in Snapshot,
           task[f].pc # "idle", CacheSnapshot(f, snap)
    PROVE  /\ snapshots' \in [Emails -> Snapshot]
           /\ task' \in [Tasks -> Task]
           /\ flights' \in [Emails -> Flights \cup {None}]
           /\ generation' \in Nat
           /\ TaskOK'
           /\ \A x \in Tasks : Crawling(x)' => Crawling(x) /\ x # f
  <1>1. task[f].email \in Emails
    BY DEF Shape, TaskOK
  <1>2. /\ snapshots' \in [Emails -> Snapshot]
        /\ task' \in [Tasks -> Task]
        /\ flights' \in [Emails -> Flights \cup {None}]
        /\ generation' \in Nat
    BY <1>1, CacheSnapshotType DEF Shape
  <1>3. f \in Tasks /\ task \in [Tasks -> Task]
    BY DEF Tasks, Shape, TypeOK
  <1>4. /\ task'[f].pc = "done"
        /\ task'[f].email = task[f].email
        /\ task'[f].gen = task[f].gen
        /\ \A x \in Tasks : x # f => task'[x] = task[x]
    BY <1>3 DEF CacheSnapshot, IdleTask
  <1>5. TaskOK'
    BY <1>1, <1>4 DEF TaskOK, Shape, CacheSnapshot, Tasks
  <1>6. \A x \in Tasks : Crawling(x)' => Crawling(x) /\ x # f
    BY <1>4 DEF Crawling
  <1>7. QED
    BY <1>2, <1>5, <1>6

\* Forgetting a released build keeps Shape.
LEMMA ShapeForget ==
    ASSUME Shape, NEW f \in Flights, task[f].pc = "released", NEW waiting,
           task' = [task EXCEPT ![f] = AfterCallbacks(f, waiting)],
           caller' \in [Callers -> Caller],
           UNCHANGED <<clock, epicor, cache, crawl, ghosts>>
    PROVE  Shape'
  <1>1. f \in Tasks /\ task[f] \in Task /\ task \in [Tasks -> Task]
    BY DEF Tasks, Shape, TypeOK
  <1>2. AfterCallbacks(f, waiting) \in Task
    BY <1>1, NullTypes DEF AfterCallbacks, Task, Pc
  <1>3. /\ ~Crawling(f)'
        /\ task'[f].pc # "idle" => task'[f].email = task[f].email /\ task'[f].gen = task[f].gen
        /\ \A x \in Tasks : x # f => task'[x] = task[x]
    BY <1>1 DEF AfterCallbacks, Crawling, IdleTask, Task
  <1>4. TypeOK'
    BY <1>1, <1>2 DEF TypeOK, Shape, epicor, cache, crawl, ghosts
  <1>5. OneCrawl'
    BY <1>3 DEF OneCrawl, Crawling, Shape, crawl
  <1>6. TaskOK'
    BY <1>3 DEF TaskOK, Shape, cache, Tasks
  <1>7. QED
    BY <1>4, <1>5, <1>6 DEF Shape

\* Reading the Menu or the Security table keeps Shape.
LEMMA ShapeRead ==
    ASSUME Shape, NEW x \in Tasks, EpicorReadsMenus(x) \/ EpicorReadsSecurity(x)
    PROVE  Shape'
  <1>1. task[x] \in Task /\ task \in [Tasks -> Task] /\ rows \in Nat
    BY DEF Shape, TypeOK
  <1>2. task' \in [Tasks -> Task]
    BY <1>1 DEF EpicorReadsMenus, EpicorReadsSecurity, Task, Pc
  <1>3. /\ Crawling(x)
        /\ task'[x].pc # "idle"
        /\ task'[x].email = task[x].email
        /\ task'[x].gen = task[x].gen
        /\ \A y \in Tasks : y # x => task'[y] = task[y]
    BY <1>1 DEF EpicorReadsMenus, EpicorReadsSecurity, Crawling, Task
  <1>4. /\ UNCHANGED <<clock, epicor, cache, crawl, caller, evicted, refreshed>>
        /\ crawled' \subseteq Nat \X Nat
    BY <1>1 DEF EpicorReadsMenus, EpicorReadsSecurity, ghosts, Shape, TypeOK, Task
  <1>5. TypeOK'
    BY <1>2, <1>4 DEF TypeOK, Shape, epicor, cache, crawl
  <1>6. OneCrawl'
    BY <1>3, <1>4 DEF OneCrawl, Crawling, Shape, crawl
  <1>7. TaskOK'
    BY <1>3, <1>4 DEF TaskOK, Shape, cache, Tasks, Crawling
  <1>8. QED
    BY <1>5, <1>6, <1>7 DEF Shape

\* A new generation leaves every Task older than it.
LEMMA ShapeOlder ==
    ASSUME Shape, TypeOK', generation' = generation + 1, UNCHANGED <<task, lock>>
    PROVE  Shape'
  <1>1. \A f \in Flights : task[f].gen \in Nat
    BY DEF Shape, TypeOK, Task, Tasks
  <1>2. generation \in Nat
    BY DEF Shape, TypeOK
  <1>3. OneCrawl'
    BY DEF Shape, OneCrawl, Crawling
  <1>4. TaskOK'
    BY <1>1, <1>2 DEF Shape, TaskOK
  <1>5. QED
    BY <1>3, <1>4 DEF Shape

\* What evict_all assigns.
LEMMA DropAllType ==
    ASSUME TypeOK, DropAll
    PROVE  /\ snapshots' \in [Emails -> Snapshot]
           /\ flights' \in [Emails -> Flights \cup {None}]
           /\ generation' \in Nat
           /\ evicted' \in [Emails -> [user : Nat, rows : Nat]]
  <1>1. \A e \in Emails : identity[e].ver \in Nat
    BY DEF TypeOK, Identity
  <1>2. QED
    BY <1>1, NullTypes DEF DropAll, TypeOK

\* A build ends without touching the crawl.
LEMMA ShapeCacheCrawl ==
    ASSUME Shape, NEW f \in Flights, NEW snap \in Snapshot, task[f].pc # "idle",
           CacheSnapshot(f, snap), UNCHANGED <<clock, epicor, caller, ghosts, crawl>>
    PROVE  Shape'
  <1>1. /\ snapshots' \in [Emails -> Snapshot]
        /\ task' \in [Tasks -> Task]
        /\ flights' \in [Emails -> Flights \cup {None}]
        /\ generation' \in Nat
        /\ TaskOK'
        /\ \A x \in Tasks : Crawling(x)' => Crawling(x) /\ x # f
    BY ShapeCache
  <1>2. TypeOK'
    BY <1>1 DEF Shape, TypeOK, epicor, ghosts, crawl
  <1>3. OneCrawl'
    BY <1>1 DEF Shape, OneCrawl, crawl
  <1>4. QED
    BY <1>1, <1>2, <1>3 DEF Shape

\* A build ends and releases the lock it holds; nobody else is crawling.
LEMMA ShapeLeave ==
    ASSUME Shape, NEW f \in Flights, NEW snap \in Snapshot, task[f].pc # "idle",
           CacheSnapshot(f, snap), lock # <<>>, Head(lock) = f, lock' = Tail(lock),
           tenant' \in Tenant, UNCHANGED <<clock, epicor, caller, ghosts, mapLoaded>>
    PROVE  Shape'
  <1>1. /\ snapshots' \in [Emails -> Snapshot]
        /\ task' \in [Tasks -> Task]
        /\ flights' \in [Emails -> Flights \cup {None}]
        /\ generation' \in Nat
        /\ TaskOK'
        /\ \A x \in Tasks : Crawling(x)' => Crawling(x) /\ x # f
    BY ShapeCache
  <1>2. lock' \in Seq(Tasks)
    BY DEF Shape, TypeOK
  <1>3. TypeOK'
    BY <1>1, <1>2 DEF Shape, TypeOK, epicor, ghosts
  <1>4. OneCrawl'
    BY <1>1 DEF Shape, OneCrawl
  <1>5. QED
    BY <1>1, <1>3, <1>4 DEF Shape

\* A task that holds the lock, or takes it when it is free, starts crawling.
LEMMA ShapeStart ==
    ASSUME Shape, NEW x \in Tasks, NEW t \in Task, NEW queue \in Seq(Tasks),
           queue # <<>>, Head(queue) = x, lock = <<>> \/ Head(lock) = x,
           StartCrawl(x, t, queue), UNCHANGED <<clock, epicor, caller, ghosts>>,
           x \in Flights => t.email \in Emails /\ t.gen <= generation
    PROVE  Shape'
  <1>1. /\ task' = [task EXCEPT ![x] = [t EXCEPT !.pc = "menus"]]
        /\ lock' = queue /\ mapLoaded' = mapFile /\ UNCHANGED <<tenant, cache>>
    BY DEF StartCrawl
  <1>2. task' \in [Tasks -> Task]
    BY <1>1 DEF Shape, TypeOK, Task, Pc
  <1>3. TypeOK'
    BY <1>1, <1>2 DEF Shape, TypeOK, epicor, cache, ghosts
  <1>4. /\ task'[x].email = t.email /\ task'[x].gen = t.gen
        /\ \A y \in Tasks : y # x => task'[y] = task[y]
    BY <1>1 DEF Shape, TypeOK, Task
  <1>5. OneCrawl'
    BY <1>1, <1>4 DEF Shape, OneCrawl, Crawling
  <1>6. TaskOK'
    BY <1>1, <1>4 DEF Shape, TaskOK, Tasks, cache
  <1>7. QED
    BY <1>3, <1>5, <1>6 DEF Shape

\* A task queues behind the lock's holder.
LEMMA ShapeQueue ==
    ASSUME Shape, NEW x \in Tasks, NEW t \in Task, lock # <<>>,
           lock' = Append(lock, x), t.pc = "lock", task' = [task EXCEPT ![x] = t],
           UNCHANGED <<tenant, mapLoaded, cache>>,
           UNCHANGED <<clock, epicor, caller, ghosts>>,
           x \in Flights => t.email \in Emails /\ t.gen <= generation
    PROVE  Shape'
  <1>0. lock \in Seq(Tasks)
    BY DEF Shape, TypeOK
  <1>1. /\ lock' \in Seq(Tasks) /\ lock' # <<>> /\ Head(lock') = Head(lock)
    BY <1>0, AppendProperties, HeadTailProperties
  <1>2. /\ task' \in [Tasks -> Task] /\ task'[x] = t
        /\ \A y \in Tasks : y # x => task'[y] = task[y]
    BY DEF Shape, TypeOK
  <1>3. TypeOK'
    BY <1>1, <1>2 DEF Shape, TypeOK, epicor, cache, ghosts
  <1>4. OneCrawl'
    BY <1>1, <1>2 DEF Shape, OneCrawl, Crawling
  <1>5. TaskOK'
    BY <1>2 DEF Shape, TaskOK, Tasks, cache
  <1>6. QED
    BY <1>3, <1>4, <1>5 DEF Shape

\* The next in the queue enters the lock.
LEMMA ShapeEnter ==
    ASSUME Shape, NEW x \in Tasks, EnterLock(x)
    PROVE  Shape'
  <1>1. /\ task[x].pc = "lock" /\ lock # <<>> /\ Head(lock) = x
        /\ UNCHANGED <<clock, epicor, caller, ghosts>>
    BY DEF EnterLock
  <1>2. /\ task[x] \in Task /\ lock \in Seq(Tasks) /\ clock \in Nat
        /\ mapLoaded \in BOOLEAN /\ tenant \in Tenant
        /\ tenant.menus \in Nat /\ tenant.security \in Nat /\ task[x].user \in Identity
    BY DEF Shape, TypeOK, Tenant, Task
  <1>3. CASE /\ x \in Flights
             /\ CacheSnapshot(x, ComputeSnapshot(task[x].user, tenant.menus,
                                                 tenant.security, mapLoaded))
             /\ lock' = Tail(lock)
             /\ UNCHANGED <<tenant, mapLoaded>>
    BY <1>1, <1>2, <1>3, ComputeType, ShapeLeave
  <1>4. CASE StartCrawl(x, task[x], lock)
    <2>1. x \in Flights => task[x].email \in Emails /\ task[x].gen <= generation
      BY <1>1 DEF Shape, TaskOK
    <2>2. QED
      BY <1>1, <1>2, <1>4, <2>1, ShapeStart
  <1>5. QED
    BY <1>3, <1>4 DEF EnterLock

LEMMA ShapeStep == Shape /\ [Next]_vars => Shape'
  <1> SUFFICES ASSUME Shape, [Next]_vars
               PROVE  Shape'
    OBVIOUS
  <1>a. TypeOK /\ OneCrawl /\ TaskOK
    BY DEF Shape
  <1> USE <1>a, NamesAssumption, NullTypes
  <1>1. CASE UNCHANGED vars
    BY <1>1 DEF vars, epicor, cache, crawl, ghosts, Shape, TypeOK, OneCrawl,
                Crawling, TaskOK
  <1>2. CASE Environment
    <2>1. identity' \in [Emails -> Identity]
      <3>1. ASSUME NEW e \in Emails, NEW k \in Kinds, ChangeIdentity(e, k)
            PROVE  identity' \in [Emails -> Identity]
        <4>1. k \in IdentityKind /\ identity[e].ver + 1 \in Nat
          BY BoundsAssumption DEF IdentityKind, TypeOK, Identity
        <4>2. [kind |-> k, ver |-> identity[e].ver + 1] \in Identity
          BY <4>1 DEF Identity
        <4>3. QED
          BY <3>1, <4>2 DEF ChangeIdentity, TypeOK
      <3>2. QED
        BY <1>2, <3>1 DEF Environment, Tick, ChangeRows, PublishMap, epicor, TypeOK
    <2>2. clock' \in Nat /\ rows' \in Nat
      BY <1>2 DEF Environment, Tick, ChangeIdentity, ChangeRows, PublishMap, epicor,
                  TypeOK
    <2>5. mapFile' \in BOOLEAN
      BY <1>2, Zenon DEF Environment, Tick, ChangeIdentity, ChangeRows, PublishMap,
                         epicor, TypeOK
    <2>3. UNCHANGED <<cache, crawl, task, caller, ghosts>>
      BY <1>2, Zenon DEF Environment, Tick, ChangeIdentity, ChangeRows, PublishMap
    <2>4. QED
      BY <2>1, <2>2, <2>3, <2>5 DEF cache, crawl, ghosts, Shape, TypeOK, OneCrawl, Crawling,
                              TaskOK
  <1>3. ASSUME NEW c \in Callers, NEW e \in Emails, Ensure(c, e)
        PROVE  Shape'
    <2>1. CASE ServeCached(c, e)
      BY <2>1 DEF ServeCached, epicor, cache, crawl, ghosts, Shape, TypeOK,
                  OneCrawl, Crawling, TaskOK, Caller
    <2>2. CASE JoinFlight(c, e)
      BY <2>2 DEF JoinFlight, Joinable, epicor, cache, crawl, ghosts, Shape, TypeOK,
                  OneCrawl, Crawling, TaskOK, Caller
    <2>3. CASE StartFlight(c, e)
      <3>1. PICK f \in Flights :
              /\ task[f] = IdleTask
              /\ task' = [task EXCEPT ![f] = [IdleTask EXCEPT !.pc = "made",
                                               !.email = e, !.gen = generation]]
              /\ flights' = [flights EXCEPT ![e] = f]
              /\ caller' = [caller EXCEPT ![c] = [email |-> e, flight |-> f,
                               floor |-> evicted[e].user, answer |-> NoSnapshot]]
        BY <2>3 DEF StartFlight
      <3>2. UNCHANGED <<clock, epicor, snapshots, generation, crawl, ghosts>>
        BY <2>3 DEF StartFlight
      <3>3. caller' \in [Callers -> Caller]
        BY <3>1 DEF TypeOK, Caller
      <3>4. task' \in [Tasks -> Task] /\ flights' \in [Emails -> Flights \cup {None}]
        BY <3>1 DEF TypeOK, Task, Tasks, Pc, IdleTask
      <3>5. TypeOK'
        BY <3>2, <3>3, <3>4 DEF TypeOK, epicor, crawl, ghosts
      <3>6. /\ task'[f].pc = "made" /\ task'[f].email = e /\ task'[f].gen = generation
            /\ \A x \in Tasks : x # f => task'[x] = task[x]
        BY <3>1 DEF TypeOK, Tasks, IdleTask
      <3>7. OneCrawl'
        BY <3>2, <3>6 DEF OneCrawl, Crawling, crawl
      <3>8. TaskOK'
        <4>1. generation' = generation /\ generation <= generation
          BY <3>2 DEF TypeOK
        <4>2. ASSUME NEW g \in Flights, task'[g].pc # "idle"
              PROVE  task'[g].email \in Emails /\ task'[g].gen <= generation
          <5>1. CASE g = f
            BY <3>6, <4>1, <5>1
          <5>2. CASE g # f
            BY <3>6, <4>2, <5>2 DEF TaskOK, Tasks
          <5>3. QED
            BY <5>1, <5>2
        <4>3. QED
          BY <4>1, <4>2 DEF TaskOK
      <3>9. QED
        BY <3>5, <3>7, <3>8 DEF Shape
    <2>4. QED
      BY <1>3, <2>1, <2>2, <2>3 DEF Ensure
  <1>4. ASSUME NEW c \in Callers, Answer(c) \/ Return(c) \/ Abandon(c)
        PROVE  Shape'
    <2>1. CASE Answer(c)
      <3> DEFINE f == caller[c].flight
      <3>1. f \in Flights /\ f \in Tasks /\ task[f] \in Task
        BY <2>1 DEF Answer, TypeOK, Caller, Tasks
      <3>2. /\ task' = [task EXCEPT ![f] = AfterCallbacks(f, Awaiting(f) \ {c})]
            /\ caller' = [caller EXCEPT ![c].flight = None, ![c].answer = task[f].result]
            /\ task[f].pc = "released"
            /\ UNCHANGED <<clock, epicor, cache, crawl, ghosts>>
        BY <2>1 DEF Answer
      <3> HIDE DEF f
      <3>3. caller' \in [Callers -> Caller]
        BY <3>1, <3>2 DEF TypeOK, Caller, Task
      <3>4. QED
        BY <3>1, <3>2, <3>3, ShapeForget
    <2>2. CASE Return(c)
      BY <2>2 DEF Return, epicor, cache, crawl, ghosts, Shape, TypeOK,
                  OneCrawl, Crawling, TaskOK
    <2>3. CASE Abandon(c)
      <3> DEFINE f == caller[c].flight
      <3>1. f \in Flights
        BY <2>3 DEF Abandon, TypeOK, Caller
      <3>2. /\ \/ task[f].pc = "released"
                  /\ task' = [task EXCEPT ![f] = AfterCallbacks(f, Awaiting(f) \ {c})]
               \/ task' = task
            /\ caller' = [caller EXCEPT ![c] = IdleCaller]
            /\ UNCHANGED <<clock, epicor, cache, crawl, ghosts>>
        BY <2>3 DEF Abandon
      <3> HIDE DEF f
      <3>3. caller' \in [Callers -> Caller]
        BY <3>2 DEF TypeOK
      <3>4. CASE task' = task
        BY <3>2, <3>3, <3>4 DEF epicor, cache, crawl, ghosts, Shape, TypeOK, OneCrawl,
                                Crawling, TaskOK
      <3>5. QED
        BY <3>1, <3>2, <3>3, <3>4, ShapeForget
    <2>4. QED
      BY <1>4, <2>1, <2>2, <2>3
  <1>5. ASSUME NEW f \in Flights, BuildStep(f)
        PROVE  Shape'
    <2>0. f \in Tasks /\ task[f] \in Task
      BY DEF Tasks, TypeOK
    <2>1. CASE BeginBuild(f)
      BY <2>0, <2>1 DEF BeginBuild, epicor, cache, crawl, ghosts, Shape, TypeOK,
                  OneCrawl, Crawling, TaskOK, Task, Pc, Tasks
    <2>2. CASE EpicorReadsUser(f)
      BY <2>0, <2>2 DEF EpicorReadsUser, epicor, cache, crawl, ghosts, Shape, TypeOK,
                  OneCrawl, Crawling, TaskOK, Task, Pc, Tasks
    <2>3. CASE UseIdentity(f)
      <3> DEFINE t == task[f]
      <3>0. /\ t.pc = "identity" /\ t.user \in Identity /\ t.now \in Nat
            /\ tenant.menus \in Nat /\ tenant.security \in Nat
            /\ clock \in Nat /\ mapLoaded \in BOOLEAN
            /\ UNCHANGED <<clock, epicor, caller, ghosts>>
        BY <2>0, <2>3 DEF UseIdentity, Task, TypeOK, Tenant
      <3>1. ASSUME NEW menus \in Nat, NEW security \in Nat, UNCHANGED crawl,
                   CacheSnapshot(f, ComputeSnapshot(t.user, menus, security, mapLoaded))
            PROVE  Shape'
        BY <3>0, <3>1, ComputeType, ShapeCacheCrawl
      <3>5. t \in Task /\ t.email \in Emails /\ t.gen <= generation
        BY <2>0, <3>0 DEF TaskOK
      <3>2. CASE lock = <<>> /\ StartCrawl(f, t, <<f>>)
        <4>1. <<f>> \in Seq(Tasks) /\ <<f>> # <<>> /\ Head(<<f>>) = f
          BY <2>0
        <4> HIDE DEF t
        <4>2. QED
          BY <2>0, <3>0, <3>2, <3>5, <4>1, ShapeStart
      <3>3. CASE /\ lock # <<>>
                 /\ lock' = Append(lock, f)
                 /\ task' = [task EXCEPT ![f].pc = "lock"]
                 /\ UNCHANGED <<tenant, mapLoaded, cache>>
        <4> DEFINE w == [t EXCEPT !.pc = "lock"]
        <4>1. w \in Task /\ w.pc = "lock" /\ w.email = t.email /\ w.gen = t.gen
          BY <3>5 DEF Task, Pc
        <4>2. task' = [task EXCEPT ![f] = w]
          BY <3>3
        <4> HIDE DEF t, w
        <4>3. QED
          BY <2>0, <3>0, <3>3, <3>5, <4>1, <4>2, ShapeQueue
      <3>4. QED
        BY <2>3, <3>0, <3>1, <3>2, <3>3 DEF UseIdentity
    <2>4. CASE EnterLock(f)
      BY <2>0, <2>4, ShapeEnter
    <2>5. CASE EpicorReadsMenus(f) \/ EpicorReadsSecurity(f)
      BY <2>0, <2>5, ShapeRead
    <2>6. CASE FinishCrawl(f)
      <3>1. /\ task[f].pc = "rows" /\ task[f].user \in Identity /\ task[f].now \in Nat
            /\ task[f].menus \in Nat /\ task[f].security \in Nat
            /\ clock \in Nat /\ mapLoaded \in BOOLEAN
            /\ UNCHANGED <<clock, epicor, caller, ghosts>>
        BY <2>0, <2>6 DEF FinishCrawl, Task, TypeOK
      <3>2. tenant' \in Tenant /\ UNCHANGED mapLoaded /\ lock' = Tail(lock)
        BY <2>6, <3>1 DEF FinishCrawl, StoreTenant, Tenant
      <3>3. lock # <<>> /\ Head(lock) = f
        BY <2>0, <3>1 DEF Crawling, OneCrawl
      <3> DEFINE s == ComputeSnapshot(task[f].user, task[f].menus, task[f].security,
                                      mapLoaded)
      <3>4. s \in Snapshot /\ CacheSnapshot(f, s)
        BY <2>6, <3>1, ComputeType DEF FinishCrawl
      <3> HIDE DEF s
      <3>5. QED
        BY <3>1, <3>2, <3>3, <3>4, ShapeLeave
    <2>7. CASE FailFetch(f)
      <3>1. /\ task[f].pc \in {"user", "menus", "security"}
            /\ task[f].cached \in Snapshot /\ task[f].now \in Nat /\ clock \in Nat
            /\ UNCHANGED <<clock, epicor, tenant, mapLoaded, caller, ghosts>>
        BY <2>0, <2>7 DEF FailFetch, Task, TypeOK
      <3> DEFINE s == FetchFailure(task[f].cached, task[f].now)
      <3>2. s \in Snapshot /\ CacheSnapshot(f, s)
        BY <2>7, <3>1, FailureType DEF FailFetch
      <3> HIDE DEF s
      <3>3. CASE task[f].pc = "user"
        BY <2>7, <3>1, <3>2, <3>3, ShapeCacheCrawl DEF FailFetch, crawl
      <3>4. CASE task[f].pc \in {"menus", "security"}
        <4>1. lock # <<>> /\ Head(lock) = f
          BY <2>0, <3>4 DEF Crawling, OneCrawl
        <4>3. lock' = Tail(lock) /\ tenant' \in Tenant
          BY <2>7, <3>1, <3>4 DEF FailFetch, TypeOK
        <4>2. QED
          BY <3>1, <3>2, <3>4, <4>1, <4>3, ShapeLeave
      <3>5. QED
        BY <3>1, <3>3, <3>4
    <2>8. CASE Release(f)
      BY <2>0, <2>8 DEF Release, AfterCallbacks, Awaiting, epicor, cache, crawl, ghosts, Shape, TypeOK,
                  OneCrawl, Crawling, TaskOK, Task, Pc, Tasks, IdleTask
    <2>9. QED
      BY <1>5, <2>1, <2>2, <2>3, <2>4, <2>5, <2>6, <2>7, <2>8 DEF BuildStep
  <1>6. ASSUME NEW x \in Admins, RefreshStep(x) \/ RefreshTenant(x)
        PROVE  Shape'
    <2>0. x \in Tasks /\ x \notin Flights /\ task[x] \in Task
      BY DEF Tasks, TypeOK
    <2>1. CASE EnterLock(x)
      BY <2>0, <2>1, ShapeEnter
    <2>2. CASE EpicorReadsMenus(x) \/ EpicorReadsSecurity(x)
      BY <2>0, <2>2, ShapeRead
    <2>3. CASE FinishRefresh(x)
      <3>1. /\ task[x].pc = "rows" /\ task[x].menus \in Nat
            /\ task[x].security \in Nat /\ task[x].now \in Nat
        BY <2>0, <2>3 DEF FinishRefresh, Task
      <3>2. lock # <<>> /\ Head(lock) = x
        BY <2>0, <3>1 DEF Crawling, OneCrawl
      <3>3. lock' \in Seq(Tasks)
        BY <2>3, <3>2 DEF FinishRefresh, StoreTenant, TypeOK
      <3>4. tenant' \in Tenant /\ refreshed' \in Nat
        BY <2>3, <3>1 DEF FinishRefresh, StoreTenant, Tenant
      <3>5. /\ snapshots' \in [Emails -> Snapshot]
            /\ flights' \in [Emails -> Flights \cup {None}]
            /\ generation' \in Nat /\ generation' = generation + 1
            /\ evicted' \in [Emails -> [user : Nat, rows : Nat]]
        BY <2>3, DropAllType DEF FinishRefresh, DropAll
      <3>6. TypeOK'
        BY <2>3, <3>3, <3>4, <3>5 DEF FinishRefresh, StoreTenant, TypeOK, epicor
      <3>7. \A y \in Tasks : task'[y] = IF y = x THEN IdleTask ELSE task[y]
        BY <2>0, <2>3 DEF FinishRefresh, TypeOK
      <3>8. OneCrawl'
        BY <3>2, <3>7 DEF OneCrawl, Crawling, IdleTask
      <3>9. \A f \in Flights : task'[f] = task[f] /\ task[f].gen \in Nat
        BY <2>0, <3>7 DEF Tasks, TypeOK, Task
      <3>12. generation \in Nat
        BY DEF TypeOK
      <3>10. TaskOK'
        BY <3>5, <3>9, <3>12 DEF TaskOK
      <3>11. QED
        BY <3>6, <3>8, <3>10 DEF Shape
    <2>4. CASE FailRefresh(x)
      <3>1. lock # <<>> /\ Head(lock) = x
        BY <2>0, <2>4 DEF FailRefresh, Crawling, OneCrawl
      <3>2. lock' \in Seq(Tasks)
        BY <2>4, <3>1 DEF FailRefresh, TypeOK
      <3>3. \A y \in Tasks : task'[y] = IF y = x THEN IdleTask ELSE task[y]
        BY <2>0, <2>4 DEF FailRefresh, TypeOK
      <3>4. task' \in [Tasks -> Task]
        BY <2>0, <2>4 DEF FailRefresh, TypeOK
      <3>5. TypeOK'
        BY <2>4, <3>2, <3>4 DEF FailRefresh, TypeOK, epicor, cache, ghosts
      <3>6. OneCrawl'
        BY <3>1, <3>3 DEF OneCrawl, Crawling, IdleTask
      <3>7. TaskOK'
        BY <2>0, <2>4, <3>3 DEF FailRefresh, TaskOK, Tasks, cache
      <3>8. QED
        BY <3>5, <3>6, <3>7 DEF Shape
    <2>5. CASE RefreshTenant(x)
      <3> DEFINE t == [IdleTask EXCEPT !.pc = "lock", !.now = clock]
      <3>1. t \in Task /\ t.pc = "lock"
        BY DEF Task, Pc, IdleTask, TypeOK
      <3>2. UNCHANGED <<clock, epicor, caller, ghosts>>
        BY <2>5 DEF RefreshTenant
      <3>3. <<x>> \in Seq(Tasks) /\ <<x>> # <<>> /\ Head(<<x>>) = x
        BY <2>0
      <3>4. \/ lock = <<>> /\ StartCrawl(x, t, <<x>>)
            \/ /\ lock # <<>> /\ lock' = Append(lock, x)
               /\ task' = [task EXCEPT ![x] = t]
               /\ UNCHANGED <<tenant, mapLoaded, cache>>
        BY <2>5 DEF RefreshTenant
      <3> HIDE DEF t
      <3>5. QED
        BY <2>0, <3>1, <3>2, <3>3, <3>4, ShapeStart, ShapeQueue
    <2>6. QED
      BY <1>6, <2>1, <2>2, <2>3, <2>4, <2>5 DEF RefreshStep
  <1>7. ASSUME NEW e \in Emails, Evict(e)
        PROVE  Shape'
    <2>1. identity[e].ver \in Nat
      BY DEF TypeOK, Identity
    <2>2. evicted' \in [Emails -> [user : Nat, rows : Nat]]
      BY <1>7, <2>1 DEF Evict, TypeOK
    <2>3. TypeOK'
      BY <1>7, <2>2 DEF Evict, TypeOK, epicor, crawl
    <2>4. QED
      BY <1>7, <2>3, ShapeOlder DEF Evict, crawl, Shape
  <1>8. CASE EvictAll
    <2>1. /\ snapshots' \in [Emails -> Snapshot]
          /\ flights' \in [Emails -> Flights \cup {None}]
          /\ generation' \in Nat
          /\ evicted' \in [Emails -> [user : Nat, rows : Nat]]
      BY <1>8, DropAllType DEF EvictAll
    <2>2. TypeOK'
      BY <1>8, <2>1 DEF EvictAll, TypeOK, epicor, crawl
    <2>3. QED
      BY <1>8, <2>2, ShapeOlder DEF EvictAll, DropAll, crawl, Shape
  <1>9. QED
    BY <1>1, <1>2, <1>3, <1>4, <1>5, <1>6, <1>7, <1>8 DEF Next, CallerStep

(* TypeOK holds of every behaviour.                                        *)
THEOREM TypeCorrect == Spec => []TypeOK
  <1>1. Shape => TypeOK
    BY DEF Shape
  <1>2. QED
    BY <1>1, ShapeInit, ShapeStep, PTL DEF Spec

(* Only the lock's holder crawls the tenant tables.                        *)
THEOREM CrawlsAreSerialized == Spec => []OneCrawl
  <1>1. Shape => OneCrawl
    BY DEF Shape
  <1>2. QED
    BY <1>1, ShapeInit, ShapeStep, PTL DEF Spec

-----------------------------------------------------------------------------
(* Eviction.  A build is as new as version v when all it holds about its   *)
(* user -- the cached copy it may serve stale, the identity it read, its   *)
(* result -- was read at version v or later.                               *)

HoldsIdentity(f) == task[f].pc \in {"identity", "lock", "menus", "security", "rows"}

Since(f, v) ==
    /\ Answering(task[f].cached) => task[f].cached.user >= v
    /\ HoldsIdentity(f) => task[f].user.ver >= v
    /\ Answering(task[f].result) => task[f].result.user >= v

IdentityForward == \A e \in Emails : identity[e].ver >= evicted[e].user

\* A registered build is its user's, and is as new as the user's last eviction.
RegisteredSince ==
    \A e \in Emails :
        flights[e] # None =>
            /\ task[flights[e]].pc \notin {"idle", "released"}
            /\ task[flights[e]].email = e
            /\ Since(flights[e], evicted[e].user)

\* What a caller awaits, or has in hand, is as new as the eviction it came after.
CallersSince ==
    \A c \in Callers :
        /\ caller[c].flight # None =>
              /\ caller[c].email \in Emails
              /\ task[caller[c].flight].pc # "idle"
              /\ task[caller[c].flight].email = caller[c].email
              /\ caller[c].floor <= evicted[caller[c].email].user
              /\ Since(caller[c].flight, caller[c].floor)
        /\ caller[c].flight = None /\ Answering(caller[c].answer) =>
              caller[c].answer.user >= caller[c].floor

\* Neither property is inductive alone: a cache write is safe because its build
\* is the registered one, and a registered build is safe because the cache was.
Barrier ==
    /\ EvictionBarrier
    /\ SingleFlight
    /\ IdentityForward
    /\ RegisteredSince
    /\ CallersSince

LEMMA BarrierInit == Init => Barrier
  <1> SUFFICES ASSUME Init PROVE Barrier
    OBVIOUS
  <1>1. /\ \A e \in Emails : /\ snapshots[e] = NoSnapshot /\ flights[e] = None
                             /\ evicted[e].user = 0 /\ identity[e].ver = 0
        /\ \A c \in Callers : caller[c] = IdleCaller
        /\ \A f \in Flights : task[f].pc = "idle"
    BY DEF Init, IdleTask, Tasks
  <1>2. QED
    BY <1>1, NullTypes
       DEF Barrier, EvictionBarrier, SingleFlight, IdentityForward, RegisteredSince,
           CallersSince, IdleCaller, Building

\* Steps that touch no build, no caller and no cache of snapshots.
LEMMA BarrierFrame ==
    ASSUME Shape, Barrier, \A f \in Flights : task'[f] = task[f],
           UNCHANGED <<cache, caller, evicted>>,
           \A e \in Emails : identity'[e].ver >= identity[e].ver,
           identity' \in [Emails -> Identity]
    PROVE  Barrier'
  <1>1. /\ \A e \in Emails : identity[e].ver \in Nat /\ identity'[e].ver \in Nat
                             /\ evicted[e].user \in Nat /\ flights[e] \in Flights \cup {None}
        /\ \A c \in Callers : caller[c].flight \in Flights \cup {None}
    BY DEF Shape, TypeOK, Identity, Caller
  <1>2. UNCHANGED <<snapshots, flights, generation, caller, evicted>>
    BY DEF cache
  <1>3. (EvictionBarrier /\ SingleFlight)'
    BY <1>2 DEF Barrier, EvictionBarrier, SingleFlight, Building
  <1>4. IdentityForward'
    BY <1>1, <1>2 DEF Barrier, IdentityForward
  <1>5. (RegisteredSince /\ CallersSince)'
    BY <1>1, <1>2 DEF Barrier, RegisteredSince, CallersSince, Since, HoldsIdentity
  <1>6. QED
    BY <1>3, <1>4, <1>5 DEF Barrier

\* An eviction of some users: a new generation makes every build old.
LEMMA BarrierEvict ==
    ASSUME Shape, Barrier, \A f \in Flights : task'[f] = task[f],
           UNCHANGED <<caller, identity>>, generation' = generation + 1,
           \A e \in Emails :
              \/ /\ snapshots'[e] = snapshots[e] /\ flights'[e] = flights[e]
                 /\ evicted'[e] = evicted[e]
              \/ /\ snapshots'[e] = NoSnapshot /\ flights'[e] = None
                 /\ evicted'[e].user = identity[e].ver
    PROVE  Barrier'
  <1>1. /\ \A e \in Emails : identity[e].ver \in Nat /\ evicted[e].user \in Nat
                             /\ flights[e] \in Flights \cup {None}
        /\ \A c \in Callers : caller[c] \in Caller
        /\ \A f \in Flights : task[f].gen \in Nat
        /\ generation \in Nat
    BY DEF Shape, TypeOK, Identity, Task, Tasks
  <1>2. \A e \in Emails : evicted'[e].user \in Nat /\ evicted'[e].user >= evicted[e].user
    BY <1>1 DEF Barrier, IdentityForward
  <1>3. EvictionBarrier' /\ IdentityForward'
    BY <1>1, NullTypes DEF Barrier, EvictionBarrier, IdentityForward
  <1>4. SingleFlight'
    BY <1>1 DEF SingleFlight, Building, Shape, TaskOK
  <1>5. RegisteredSince'
    BY <1>1 DEF Barrier, RegisteredSince, Since, HoldsIdentity
  <1>6. CallersSince'
    BY <1>1, <1>2 DEF Barrier, CallersSince, Since, HoldsIdentity, Caller
  <1>7. QED
    BY <1>3, <1>4, <1>5, <1>6 DEF Barrier

\* One build moves on: it stays as new as it was, and it writes the cache
\* only with its result and only in its own generation.
LEMMA BarrierBuild ==
    ASSUME Shape, Barrier, Shape', NEW f \in Flights, Building(f),
           \A g \in Flights : g # f => task'[g] = task[g],
           task'[f].email = task[f].email, task'[f].gen = task[f].gen,
           task'[f].pc \notin {"idle", "released"},
           UNCHANGED <<flights, generation, caller, evicted, identity>>,
           \/ snapshots' = snapshots
           \/ /\ task[f].gen = generation
              /\ snapshots' = [snapshots EXCEPT ![task[f].email] = task'[f].result],
           \A v \in Nat : v <= evicted[task[f].email].user /\ Since(f, v) => Since(f, v)'
    PROVE  Barrier'
  <1>1. /\ \A e \in Emails : evicted[e].user \in Nat /\ flights[e] \in Flights \cup {None}
        /\ \A c \in Callers : caller[c] \in Caller
        /\ task[f].email \in Emails
        /\ snapshots \in [Emails -> Snapshot]
    BY DEF Shape, TypeOK, TaskOK, Building
  <1>2. SingleFlight'
    BY DEF Barrier, SingleFlight, Building
  <1>3. IdentityForward'
    BY DEF Barrier, IdentityForward
  <1>4. RegisteredSince'
    BY <1>1 DEF Barrier, RegisteredSince, Since, HoldsIdentity
  <1>5. CallersSince'
    BY <1>1 DEF Barrier, CallersSince, Since, HoldsIdentity, Caller
  <1>6. EvictionBarrier'
    <2>1. CASE snapshots' = snapshots
      BY <2>1 DEF Barrier, EvictionBarrier
    <2>2. CASE /\ task[f].gen = generation
               /\ snapshots' = [snapshots EXCEPT ![task[f].email] = task'[f].result]
      <3>1. flights[task[f].email] = f
        BY <2>2 DEF Barrier, SingleFlight
      <3>2. Since(f, evicted[task[f].email].user)
        BY <1>1, <3>1, NamesAssumption DEF Barrier, RegisteredSince
      <3>3. Since(f, evicted[task[f].email].user)'
        <4>1. evicted[task[f].email].user <= evicted[task[f].email].user
          BY <1>1
        <4> DEFINE v == evicted[task[f].email].user
        <4>2. v \in Nat /\ v <= v /\ Since(f, v)
          BY <1>1, <3>2, <4>1
        <4>3. task'[f].email = task[f].email /\ evicted' = evicted
          OBVIOUS
        <4>4. /\ Answering(task'[f].cached) => task'[f].cached.user >= v
              /\ HoldsIdentity(f)' => task'[f].user.ver >= v
              /\ Answering(task'[f].result) => task'[f].result.user >= v
          BY <4>2 DEF Since, HoldsIdentity
        <4>5. QED
          BY <4>3, <4>4 DEF Since
      <3>4. QED
        BY <1>1, <2>2, <3>3 DEF Barrier, EvictionBarrier, Since
    <2>3. QED
      BY <2>1, <2>2
  <1>7. QED
    BY <1>2, <1>3, <1>4, <1>5, <1>6 DEF Barrier

\* The end of a build whose result is as new as what the build held.
LEMMA BarrierCache ==
    ASSUME Shape, Barrier, Shape', NEW f \in Flights, Building(f), NEW snap \in Snapshot,
           CacheSnapshot(f, snap), UNCHANGED <<epicor, caller, ghosts>>,
           \A v \in Nat : Since(f, v) => (Answering(snap) => snap.user >= v)
    PROVE  Barrier'
  <1>1. f \in Tasks /\ task \in [Tasks -> Task]
    BY DEF Shape, TypeOK, Tasks
  <1>2. /\ task'[f].pc = "done" /\ task'[f].email = task[f].email
        /\ task'[f].gen = task[f].gen /\ task'[f].result = snap
        /\ task'[f].cached = NoSnapshot
        /\ \A g \in Flights : g # f => task'[g] = task[g]
    BY <1>1 DEF CacheSnapshot, IdleTask, Tasks
  <1>3. UNCHANGED <<flights, generation, caller, evicted, identity>>
    BY DEF CacheSnapshot, epicor, ghosts
  <1>4. \/ snapshots' = snapshots
        \/ /\ task[f].gen = generation
           /\ snapshots' = [snapshots EXCEPT ![task[f].email] = task'[f].result]
    BY <1>2 DEF CacheSnapshot
  <1>5. ASSUME NEW v \in Nat, Since(f, v)
        PROVE  Since(f, v)'
    BY <1>2, <1>5, NullTypes DEF Since, HoldsIdentity
  <1>6. QED
    BY <1>2, <1>3, <1>4, <1>5, BarrierBuild

LEMMA BarrierBuildStep ==
    ASSUME Shape, Barrier, Shape', NEW f \in Flights, BuildStep(f), ~Release(f)
    PROVE  Barrier'
  <1>0. /\ f \in Tasks /\ task[f] \in Task /\ task \in [Tasks -> Task] /\ clock \in Nat
        /\ mapLoaded \in BOOLEAN /\ tenant.menus \in Nat /\ tenant.security \in Nat
        /\ task[f].user \in Identity /\ task[f].menus \in Nat /\ task[f].security \in Nat
        /\ task[f].cached \in Snapshot /\ task[f].now \in Nat
        /\ \A e \in Emails : /\ identity[e].ver \in Nat /\ evicted[e].user \in Nat
                             /\ snapshots[e] \in Snapshot /\ snapshots[e].user \in Nat
    BY DEF Shape, TypeOK, Tasks, Task, Tenant, Identity, Snapshot
  <1>1. ASSUME task[f].pc # "idle" PROVE task[f].email \in Emails
    BY <1>1 DEF Shape, TaskOK
  \* Steps that only change what f holds.
  <1>2. ASSUME NEW t \in Task, task' = [task EXCEPT ![f] = t], Building(f),
               t.email = task[f].email, t.gen = task[f].gen,
               t.pc \notin {"idle", "released"},
               UNCHANGED <<cache, caller, evicted, identity>>,
               \A v \in Nat : v <= evicted[task[f].email].user /\ Since(f, v) =>
                   /\ Answering(t.cached) => t.cached.user >= v
                   /\ t.pc \in {"identity", "lock", "menus", "security", "rows"}
                        => t.user.ver >= v
                   /\ Answering(t.result) => t.result.user >= v
        PROVE  Barrier'
    <2>1. task'[f] = t /\ \A g \in Flights : g # f => task'[g] = task[g]
      BY <1>0, <1>2 DEF Tasks
    <2>2. \A v \in Nat : v <= evicted[task[f].email].user /\ Since(f, v) => Since(f, v)'
      BY <1>2, <2>1 DEF Since, HoldsIdentity
    <2>3. UNCHANGED <<snapshots, flights, generation, caller, evicted, identity>>
      BY <1>2 DEF cache
    <2>4. QED
      BY <1>2, <2>1, <2>2, <2>3, BarrierBuild
  <1>3. CASE BeginBuild(f)
    <2> DEFINE t == [task[f] EXCEPT !.pc = "user", !.now = clock,
                                    !.cached = snapshots[task[f].email]]
    <2>1. task[f].pc = "made" /\ task[f].email \in Emails
      BY <1>1, <1>3 DEF BeginBuild
    <2>2. /\ t \in Task /\ t.email = task[f].email /\ t.gen = task[f].gen
          /\ t.pc = "user" /\ t.cached = snapshots[task[f].email]
          /\ t.result = task[f].result
      BY <1>0, <2>1 DEF Task, Pc
    <2>3. /\ task' = [task EXCEPT ![f] = t] /\ Building(f)
          /\ UNCHANGED <<cache, caller, evicted, identity>>
      BY <1>0, <1>3 DEF BeginBuild, Building, epicor, ghosts, Task
    <2> HIDE DEF t
    <2>4. ASSUME NEW v \in Nat, v <= evicted[task[f].email].user, Since(f, v)
          PROVE  /\ Answering(t.cached) => t.cached.user >= v
                 /\ Answering(t.result) => t.result.user >= v
      BY <1>0, <2>1, <2>2, <2>4 DEF Since, Barrier, EvictionBarrier
    <2>5. QED
      BY <1>2, <2>2, <2>3, <2>4
  <1>4. CASE EpicorReadsUser(f)
    <2> DEFINE t == [task[f] EXCEPT !.pc = "identity", !.user = identity[task[f].email]]
    <2>1. task[f].pc = "user" /\ task[f].email \in Emails
      BY <1>1, <1>4 DEF EpicorReadsUser
    <2>2. identity[task[f].email] \in Identity
      BY <2>1 DEF Shape, TypeOK
    <2>3. /\ t \in Task /\ t.email = task[f].email /\ t.gen = task[f].gen
          /\ t.pc = "identity" /\ t.cached = task[f].cached
          /\ t.user = identity[task[f].email] /\ t.result = task[f].result
      BY <1>0, <2>2 DEF Task, Pc
    <2>4. /\ task' = [task EXCEPT ![f] = t] /\ Building(f)
          /\ UNCHANGED <<cache, caller, evicted, identity>>
      BY <1>0, <1>4 DEF EpicorReadsUser, Building, epicor, ghosts, Task
    <2> HIDE DEF t
    <2>5. ASSUME NEW v \in Nat, v <= evicted[task[f].email].user, Since(f, v)
          PROVE  /\ Answering(t.cached) => t.cached.user >= v
                 /\ t.user.ver >= v
                 /\ Answering(t.result) => t.result.user >= v
      BY <1>0, <2>1, <2>3, <2>5 DEF Since, Barrier, IdentityForward
    <2>6. QED
      BY <1>2, <2>3, <2>4, <2>5
  \* Holding the identity, f goes on to the next await with nothing new about it.
  <1>5. ASSUME HoldsIdentity(f), NEW t \in Task, task' = [task EXCEPT ![f] = t],
               t.pc \in {"lock", "menus", "security", "rows"},
               t.email = task[f].email, t.gen = task[f].gen, t.user = task[f].user,
               t.cached = task[f].cached, t.result = task[f].result,
               UNCHANGED <<cache, caller, evicted, identity>>
        PROVE  Barrier'
    <2>1. Building(f)
      BY <1>5 DEF HoldsIdentity, Building
    <2>2. QED
      BY <1>2, <1>5, <2>1 DEF Since
  \* Holding the identity, f computes a snapshot from it.
  <1>6. ASSUME HoldsIdentity(f), NEW menus \in Nat, NEW security \in Nat,
               CacheSnapshot(f, ComputeSnapshot(task[f].user, menus, security, mapLoaded)),
               UNCHANGED <<epicor, caller, ghosts>>
        PROVE  Barrier'
    <2> DEFINE s == ComputeSnapshot(task[f].user, menus, security, mapLoaded)
    <2>1. s \in Snapshot /\ s.user = task[f].user.ver
      BY <1>0, ComputeType
    <2>2. Building(f) /\ CacheSnapshot(f, s)
      BY <1>6 DEF HoldsIdentity, Building
    <2> HIDE DEF s
    <2>3. \A v \in Nat : Since(f, v) => (Answering(s) => s.user >= v)
      BY <1>6, <2>1 DEF Since
    <2>4. QED
      BY <1>6, <2>1, <2>2, <2>3, BarrierCache
  <1>7. ASSUME HoldsIdentity(f), NEW queue, StartCrawl(f, task[f], queue),
               UNCHANGED <<epicor, caller, ghosts>>
        PROVE  Barrier'
    <2> DEFINE t == [task[f] EXCEPT !.pc = "menus"]
    <2>1. /\ t \in Task /\ t.pc = "menus" /\ t.email = task[f].email
          /\ t.gen = task[f].gen /\ t.user = task[f].user /\ t.cached = task[f].cached
          /\ t.result = task[f].result
      BY <1>0 DEF Task, Pc
    <2>2. task' = [task EXCEPT ![f] = t] /\ UNCHANGED <<cache, caller, evicted, identity>>
      BY <1>7 DEF StartCrawl, epicor, ghosts
    <2> HIDE DEF t
    <2>3. QED
      BY <1>5, <1>7, <2>1, <2>2
  <1>8. CASE UseIdentity(f)
    <2>1. HoldsIdentity(f) /\ UNCHANGED <<epicor, caller, ghosts>>
      BY <1>8 DEF UseIdentity, HoldsIdentity
    <2>2. CASE /\ task' = [task EXCEPT ![f].pc = "lock"] /\ UNCHANGED cache
      <3> DEFINE t == [task[f] EXCEPT !.pc = "lock"]
      <3>1. /\ t \in Task /\ t.pc = "lock" /\ t.email = task[f].email
            /\ t.gen = task[f].gen /\ t.user = task[f].user /\ t.cached = task[f].cached
            /\ t.result = task[f].result
        BY <1>0 DEF Task, Pc
      <3>2. task' = [task EXCEPT ![f] = t] /\ UNCHANGED <<evicted, identity>>
        BY <2>1, <2>2 DEF epicor, ghosts
      <3> HIDE DEF t
      <3>3. QED
        BY <1>5, <2>1, <2>2, <3>1, <3>2
    <2>3. QED
      BY <1>0, <1>6, <1>7, <1>8, <2>1, <2>2 DEF UseIdentity
  <1>9. CASE EnterLock(f)
    <2>1. HoldsIdentity(f) /\ UNCHANGED <<epicor, caller, ghosts>>
      BY <1>9 DEF EnterLock, HoldsIdentity
    <2>2. QED
      BY <1>0, <1>6, <1>7, <1>9, <2>1 DEF EnterLock
  <1>10. CASE EpicorReadsMenus(f) \/ EpicorReadsSecurity(f)
    <2>1. HoldsIdentity(f) /\ rows \in Nat
      BY <1>10 DEF EpicorReadsMenus, EpicorReadsSecurity, HoldsIdentity, Shape, TypeOK
    <2>2. PICK t \in Task :
            /\ t.pc \in {"security", "rows"} /\ t.email = task[f].email
            /\ t.gen = task[f].gen /\ t.user = task[f].user /\ t.cached = task[f].cached
            /\ t.result = task[f].result /\ task' = [task EXCEPT ![f] = t]
      <3>1. CASE EpicorReadsMenus(f)
        <4>1. [task[f] EXCEPT !.pc = "security", !.menus = rows] \in Task
          BY <1>0, <2>1 DEF Task, Pc
        <4>2. QED
          BY <1>0, <3>1, <4>1 DEF EpicorReadsMenus, Task
      <3>2. CASE EpicorReadsSecurity(f)
        <4>1. [task[f] EXCEPT !.pc = "rows", !.security = rows] \in Task
          BY <1>0, <2>1 DEF Task, Pc
        <4>2. QED
          BY <1>0, <3>2, <4>1 DEF EpicorReadsSecurity, Task
      <3>3. QED
        BY <1>10, <3>1, <3>2
    <2>3. UNCHANGED <<cache, caller, evicted, identity>>
      BY <1>10 DEF EpicorReadsMenus, EpicorReadsSecurity, epicor, ghosts
    <2>4. QED
      BY <1>5, <2>1, <2>2, <2>3
  <1>11. CASE FinishCrawl(f)
    <2>1. HoldsIdentity(f) /\ UNCHANGED <<epicor, caller, ghosts>>
      BY <1>11 DEF FinishCrawl, HoldsIdentity
    <2>2. QED
      BY <1>0, <1>6, <1>11, <2>1 DEF FinishCrawl
  <1>12. CASE FailFetch(f)
    <2> DEFINE s == FetchFailure(task[f].cached, task[f].now)
    <2>1. /\ s \in Snapshot
          /\ Answering(s) => Answering(task[f].cached) /\ s.user = task[f].cached.user
      BY <1>0, FailureType
    <2>2. /\ Building(f) /\ CacheSnapshot(f, s)
          /\ UNCHANGED <<epicor, caller, ghosts>>
      BY <1>12 DEF FailFetch, Building
    <2> HIDE DEF s
    <2>3. \A v \in Nat : Since(f, v) => (Answering(s) => s.user >= v)
      BY <2>1 DEF Since
    <2>4. QED
      BY <2>1, <2>2, <2>3, BarrierCache
  <1>13. QED
    BY <1>3, <1>4, <1>8, <1>9, <1>10, <1>11, <1>12 DEF BuildStep

\* A finished build is forgotten once nobody in waiting awaits it.
LEMMA AfterCallbacksHolds ==
    ASSUME Shape, NEW f \in Flights, NEW waiting,
           task' = [task EXCEPT ![f] = AfterCallbacks(f, waiting)]
    PROVE  /\ \A g \in Flights : g # f => task'[g] = task[g]
           /\ ~Building(f)'
           /\ waiting # {} => /\ task'[f].pc = "released"
                              /\ task'[f].email = task[f].email
                              /\ \A v \in Nat : Since(f, v) => Since(f, v)'
  <1>1. f \in Tasks /\ task[f] \in Task /\ task \in [Tasks -> Task]
    BY DEF Shape, TypeOK, Tasks
  <1>2. \A g \in Flights : g # f => task'[g] = task[g]
    BY <1>1 DEF Tasks
  <1>3. ~Building(f)'
    BY <1>1 DEF AfterCallbacks, Building, IdleTask, Task
  <1>4. ASSUME waiting # {}
        PROVE  /\ task'[f].pc = "released"
               /\ task'[f].email = task[f].email
               /\ task'[f].cached = task[f].cached
               /\ task'[f].result = task[f].result
    BY <1>1, <1>4 DEF AfterCallbacks, Task
  <1>5. ASSUME waiting # {}, NEW v \in Nat, Since(f, v)
        PROVE  Since(f, v)'
    BY <1>4, <1>5 DEF Since, HoldsIdentity
  <1>6. QED
    BY <1>2, <1>3, <1>4, <1>5

\* A caller while f is forgotten: it stays, it is gone, or it has f's answer.
LeavesOrStays(c, f, waiting) ==
    \/ /\ caller'[c] = caller[c]
       /\ caller[c].flight = f => waiting # {}
    \/ caller'[c] = IdleCaller
    \/ /\ caller[c].flight = f /\ caller'[c].flight = None
       /\ caller'[c].floor = caller[c].floor
       /\ caller'[c].answer = task[f].result

\* The done-callbacks of f run, or one of its awaiters leaves: whoever still
\* awaits f keeps it, and it is no longer registered.
LEMMA BarrierForget ==
    ASSUME Shape, Barrier, NEW f \in Flights, ~Building(f), NEW waiting,
           task' = [task EXCEPT ![f] = AfterCallbacks(f, waiting)],
           \A e \in Emails : flights'[e] # None => flights'[e] = flights[e] /\ flights[e] # f,
           \A e \in Emails : flights[e] # f => flights'[e] = flights[e],
           UNCHANGED <<snapshots, generation, evicted, identity>>,
           \A c \in Callers : LeavesOrStays(c, f, waiting)
    PROVE  Barrier'
  <1>1. /\ \A g \in Flights : g # f => task'[g] = task[g]
        /\ ~Building(f)'
        /\ waiting # {} => /\ task'[f].pc = "released"
                           /\ task'[f].email = task[f].email
                           /\ \A v \in Nat : Since(f, v) => Since(f, v)'
    BY AfterCallbacksHolds
  <1>2. /\ \A e \in Emails : evicted[e].user \in Nat /\ flights[e] \in Flights \cup {None}
        /\ \A c \in Callers : caller[c] \in Caller /\ caller[c].floor \in Nat
                               /\ caller[c].flight \in Flights \cup {None}
        /\ f # None
    BY NamesAssumption DEF Shape, TypeOK, Caller
  <1>3. EvictionBarrier' /\ IdentityForward'
    BY DEF Barrier, EvictionBarrier, IdentityForward
  <1>4. SingleFlight'
    <2>1. ASSUME NEW g \in Flights, Building(g)', task'[g].gen = generation'
          PROVE  flights'[task'[g].email] = g
      <3>1. g # f /\ task'[g] = task[g]
        BY <1>1, <2>1
      <3>2. flights[task[g].email] = g /\ task[g].email \in Emails
        BY <2>1, <3>1 DEF Barrier, SingleFlight, Building, Shape, TaskOK
      <3>3. QED
        BY <3>1, <3>2
    <2>2. QED
      BY <2>1 DEF SingleFlight
  <1>5. RegisteredSince'
    BY <1>1, <1>2 DEF Barrier, RegisteredSince, Since, HoldsIdentity
  <1>6. CallersSince'
    <2> SUFFICES ASSUME NEW c \in Callers
                 PROVE  /\ caller'[c].flight # None =>
                             /\ caller'[c].email \in Emails
                             /\ task'[caller'[c].flight].pc # "idle"
                             /\ task'[caller'[c].flight].email = caller'[c].email
                             /\ caller'[c].floor <= evicted'[caller'[c].email].user
                             /\ Since(caller[c].flight, caller[c].floor)'
                        /\ caller'[c].flight = None /\ Answering(caller'[c].answer) =>
                             caller'[c].answer.user >= caller'[c].floor
      BY DEF CallersSince
    <2>1. CASE caller'[c] = caller[c] /\ caller[c].flight # f
      BY <1>1, <1>2, <2>1 DEF Barrier, CallersSince, Since, HoldsIdentity
    <2>2. CASE caller'[c] = caller[c] /\ caller[c].flight = f /\ waiting # {}
      <3>1. /\ caller[c].email \in Emails /\ task[f].email = caller[c].email
            /\ caller[c].floor <= evicted[caller[c].email].user
            /\ Since(f, caller[c].floor)
        BY <1>2, <2>2 DEF Barrier, CallersSince
      <3> DEFINE v == caller[c].floor
      <3>2. /\ Answering(task'[f].cached) => task'[f].cached.user >= v
            /\ HoldsIdentity(f)' => task'[f].user.ver >= v
            /\ Answering(task'[f].result) => task'[f].result.user >= v
        BY <1>1, <1>2, <2>2, <3>1 DEF Since, HoldsIdentity
      <3>3. QED
        BY <1>1, <1>2, <2>2, <3>1, <3>2 DEF Since
    <2>3. CASE caller'[c] = IdleCaller
      BY <2>3, NullTypes DEF IdleCaller
    <2>4. CASE /\ caller[c].flight = f /\ caller'[c].flight = None
               /\ caller'[c].floor = caller[c].floor
               /\ caller'[c].answer = task[f].result
      BY <1>2, <2>4 DEF Barrier, CallersSince, Since
    <2>5. QED
      BY <2>1, <2>2, <2>3, <2>4 DEF LeavesOrStays
  <1>7. QED
    BY <1>3, <1>4, <1>5, <1>6 DEF Barrier

LEMMA BarrierEnsure ==
    ASSUME Shape, Barrier, NEW c \in Callers, NEW e \in Emails, Ensure(c, e)
    PROVE  Barrier'
  <1>1. /\ evicted[e].user \in Nat /\ flights[e] \in Flights \cup {None}
        /\ caller \in [Callers -> Caller] /\ flights \in [Emails -> Flights \cup {None}]
        /\ \A d \in Callers : caller[d].flight \in Flights \cup {None}
    BY DEF Shape, TypeOK, Caller
  <1>2. CASE ServeCached(c, e)
    <2>1. /\ UNCHANGED <<snapshots, flights, generation, task, evicted, identity>>
          /\ caller' = [caller EXCEPT ![c] = [email |-> e, flight |-> None,
                            floor |-> evicted[e].user, answer |-> snapshots[e]]]
      BY <1>2 DEF ServeCached, cache, epicor, ghosts
    <2>2. CallersSince'
      BY <1>1, <2>1 DEF Barrier, EvictionBarrier, CallersSince, Since, HoldsIdentity
    <2>3. QED
      BY <2>1, <2>2 DEF Barrier, EvictionBarrier, SingleFlight, Building,
                        IdentityForward, RegisteredSince, Since, HoldsIdentity
  <1>3. CASE JoinFlight(c, e)
    <2>1. /\ UNCHANGED <<snapshots, flights, generation, task, evicted, identity>>
          /\ caller' = [caller EXCEPT ![c] = [email |-> e, flight |-> flights[e],
                            floor |-> evicted[e].user, answer |-> NoSnapshot]]
          /\ flights[e] # None
      BY <1>3 DEF JoinFlight, Joinable, cache, epicor, ghosts
    <2>2. /\ task[flights[e]].pc # "idle" /\ task[flights[e]].email = e
          /\ Since(flights[e], evicted[e].user)
      BY <2>1 DEF Barrier, RegisteredSince
    <2>3. CallersSince'
      BY <1>1, <2>1, <2>2 DEF Barrier, CallersSince, Since, HoldsIdentity
    <2>4. QED
      BY <2>1, <2>3 DEF Barrier, EvictionBarrier, SingleFlight, Building,
                        IdentityForward, RegisteredSince, Since, HoldsIdentity
  <1>4. CASE StartFlight(c, e)
    <2>1. PICK f \in Flights :
            /\ task[f] = IdleTask
            /\ task' = [task EXCEPT ![f] = [IdleTask EXCEPT !.pc = "made",
                                             !.email = e, !.gen = generation]]
            /\ flights' = [flights EXCEPT ![e] = f]
            /\ caller' = [caller EXCEPT ![c] = [email |-> e, flight |-> f,
                             floor |-> evicted[e].user, answer |-> NoSnapshot]]
      BY <1>4 DEF StartFlight
    <2>2. UNCHANGED <<snapshots, generation, evicted, identity>> /\ ~Joinable(e)
      BY <1>4 DEF StartFlight, epicor, ghosts
    <2>3. /\ task'[f].pc = "made" /\ task'[f].email = e
          /\ task'[f].cached = NoSnapshot /\ task'[f].result = NoSnapshot
          /\ \A g \in Flights : g # f => task'[g] = task[g]
      BY <2>1 DEF IdleTask, Shape, TypeOK, Tasks
    <2>4. \A v \in Nat : Since(f, v)'
      BY <2>3, NullTypes DEF Since, HoldsIdentity
    <2>5. task[f].pc = "idle"
      BY <2>1 DEF IdleTask
    <2>6. /\ \A d \in Emails : flights[d] # f
          /\ \A d \in Callers : caller[d].flight # f
      BY <2>5, NamesAssumption DEF Barrier, RegisteredSince, CallersSince
    <2>7. EvictionBarrier' /\ IdentityForward'
      BY <2>2 DEF Barrier, EvictionBarrier, IdentityForward
    <2>8. SingleFlight'
      <3> SUFFICES ASSUME NEW g \in Flights, Building(g)', task'[g].gen = generation'
                   PROVE  flights'[task'[g].email] = g
        BY DEF SingleFlight
      <3>1. CASE g = f
        BY <1>1, <2>1, <2>3, <3>1
      <3>2. CASE g # f
        <4>1. flights[task[g].email] = g /\ Building(g) /\ task'[g] = task[g]
          BY <2>2, <2>3, <3>2 DEF Barrier, SingleFlight, Building
        <4>2. task[g].email # e
          BY <2>2, <4>1, NamesAssumption DEF Joinable, Building
        <4>3. QED
          BY <1>1, <2>1, <4>1, <4>2
      <3>3. QED
        BY <3>1, <3>2
    <2>9. RegisteredSince'
      <3> SUFFICES ASSUME NEW d \in Emails, flights'[d] # None
                   PROVE  /\ task'[flights'[d]].pc \notin {"idle", "released"}
                          /\ task'[flights'[d]].email = d
                          /\ Since(flights[d], evicted[d].user)'
        BY DEF RegisteredSince
      <3>1. CASE d = e
        <4>1. flights'[d] = f /\ evicted'[d].user = evicted[e].user
          BY <1>1, <2>1, <2>2, <3>1
        <4>2. QED
          BY <1>1, <2>3, <3>1, <4>1, NullTypes DEF Since, HoldsIdentity
      <3>2. CASE d # e
        <4>1. flights'[d] = flights[d] /\ flights[d] \in Flights /\ flights[d] # f
          BY <1>1, <2>1, <2>6, <3>2
        <4>2. QED
          BY <2>2, <2>3, <4>1, NamesAssumption
             DEF Barrier, RegisteredSince, Since, HoldsIdentity
      <3>3. QED
        BY <3>1, <3>2
    <2>10. CallersSince'
      <3> SUFFICES ASSUME NEW d \in Callers
                   PROVE  /\ caller'[d].flight # None =>
                               /\ caller'[d].email \in Emails
                               /\ task'[caller'[d].flight].pc # "idle"
                               /\ task'[caller'[d].flight].email = caller'[d].email
                               /\ caller'[d].floor <= evicted'[caller'[d].email].user
                               /\ Since(caller[d].flight, caller[d].floor)'
                          /\ caller'[d].flight = None /\ Answering(caller'[d].answer) =>
                               caller'[d].answer.user >= caller'[d].floor
        BY DEF CallersSince
      <3>1. CASE d = c
        <4>1. /\ caller'[d].email = e /\ caller'[d].flight = f
              /\ caller'[d].floor = evicted[e].user
          BY <1>1, <2>1, <3>1
        <4>2. f # None
          BY NamesAssumption
        <4>3. QED
          BY <1>1, <2>2, <2>3, <4>1, <4>2, NullTypes DEF Since, HoldsIdentity
      <3>2. CASE d # c
        <4>1. caller'[d] = caller[d]
          BY <1>1, <2>1, <3>2
        <4>2. QED
          BY <1>1, <2>2, <2>3, <2>6, <4>1 DEF Barrier, CallersSince, Since, HoldsIdentity
      <3>3. QED
        BY <3>1, <3>2
    <2>11. QED
      BY <2>7, <2>8, <2>9, <2>10 DEF Barrier
  <1>5. QED
    BY <1>2, <1>3, <1>4 DEF Ensure

LEMMA BarrierCaller ==
    ASSUME Shape, Barrier, NEW c \in Callers, Answer(c) \/ Return(c) \/ Abandon(c)
    PROVE  Barrier'
  <1>1. /\ caller \in [Callers -> Caller] /\ caller[c].flight \in Flights \cup {None}
        /\ \A e \in Emails : flights[e] # None => task[flights[e]].pc # "released"
    BY DEF Shape, TypeOK, Caller, Barrier, RegisteredSince
  <1>2. CASE Return(c) \/ (Abandon(c) /\ task' = task)
    <2>1. /\ UNCHANGED <<snapshots, flights, generation, task, evicted, identity>>
          /\ caller' = [caller EXCEPT ![c] = IdleCaller]
      BY <1>2 DEF Return, Abandon, cache, epicor, ghosts
    <2>2. CallersSince'
      BY <1>1, <2>1, NullTypes DEF Barrier, CallersSince, Since, HoldsIdentity, IdleCaller
    <2>3. QED
      BY <2>1, <2>2 DEF Barrier, EvictionBarrier, SingleFlight, Building,
                        IdentityForward, RegisteredSince, Since, HoldsIdentity
  <1>3. CASE Answer(c) \/ (Abandon(c) /\ task' # task)
    <2>a. caller[c].flight \in Flights
      BY <1>1, <1>3 DEF Answer, Abandon
    <2>b. PICK f \in Flights : f = caller[c].flight
      BY <2>a
    <2>c. PICK waiting : waiting = Awaiting(f) \ {c}
      OBVIOUS
    <2>1. /\ task[f].pc = "released"
          /\ task' = [task EXCEPT ![f] = AfterCallbacks(f, waiting)]
          /\ UNCHANGED <<snapshots, flights, generation, evicted, identity>>
          /\ \/ caller' = [caller EXCEPT ![c] = IdleCaller]
             \/ caller' = [caller EXCEPT ![c].flight = None, ![c].answer = task[f].result]
      BY <1>1, <1>3, <2>b, <2>c DEF Answer, Abandon, cache, epicor, ghosts
    <2>2. ~Building(f)
      BY <2>1 DEF Building
    <2>3. \A e \in Emails : flights[e] # f
      BY <1>1, <2>1, NamesAssumption
    <2>4. ASSUME NEW d \in Callers
          PROVE  LeavesOrStays(d, f, waiting)
      <3>1. CASE d = c
        BY <1>1, <2>1, <2>b, <3>1 DEF Caller, LeavesOrStays
      <3>2. CASE d # c
        <4>1. caller'[d] = caller[d]
          BY <1>1, <2>1, <3>2
        <4>2. caller[d].flight = f => d \in waiting
          BY <2>c, <3>2 DEF Awaiting
        <4>3. QED
          BY <4>1, <4>2 DEF LeavesOrStays
      <3>3. QED
        BY <3>1, <3>2
    <2>5. /\ \A e \in Emails : flights'[e] # None =>
                                 flights'[e] = flights[e] /\ flights[e] # f
          /\ \A e \in Emails : flights[e] # f => flights'[e] = flights[e]
          /\ UNCHANGED <<snapshots, generation, evicted, identity>>
      BY <2>1, <2>3
    <2>6. QED
      BY <2>b, <2>1, <2>2, <2>4, <2>5, BarrierForget
  <1>4. QED
    BY <1>2, <1>3

LEMMA BarrierRelease ==
    ASSUME Shape, Barrier, NEW f \in Flights, Release(f)
    PROVE  Barrier'
  <1>1. /\ task[f].pc = "done"
        /\ task' = [task EXCEPT ![f] = AfterCallbacks(f, Awaiting(f))]
        /\ flights' = [e \in Emails |->
                         IF e = task[f].email /\ flights[e] = f THEN None ELSE flights[e]]
        /\ UNCHANGED <<snapshots, generation, evicted, identity, caller>>
    BY DEF Release, epicor, ghosts
  <1>2. ~Building(f)
    BY <1>1 DEF Building
  <1>3. \A e \in Emails : flights[e] = f => task[f].email = e
    BY NamesAssumption DEF Barrier, RegisteredSince
  <1>4. /\ \A e \in Emails : flights'[e] # None => flights'[e] = flights[e] /\ flights[e] # f
        /\ \A e \in Emails : flights[e] # f => flights'[e] = flights[e]
    BY <1>1, <1>3
  <1>5. \A c \in Callers : LeavesOrStays(c, f, Awaiting(f))
    BY <1>1 DEF Awaiting, LeavesOrStays
  <1>6. QED
    BY <1>1, <1>2, <1>4, <1>5, BarrierForget

LEMMA BarrierStep == Shape /\ Barrier /\ [Next]_vars => Barrier'
  <1> SUFFICES ASSUME Shape, Barrier, [Next]_vars
               PROVE  Barrier'
    OBVIOUS
  <1>0. Shape'
    BY ShapeStep
  <1>a. /\ identity \in [Emails -> Identity] /\ identity' \in [Emails -> Identity]
        /\ \A e \in Emails : identity[e].ver \in Nat
    BY <1>0 DEF Shape, TypeOK, Identity
  <1>1. CASE UNCHANGED vars
    BY <1>1, <1>a, BarrierFrame DEF vars, cache, epicor, ghosts
  <1>2. CASE Environment
    <2>1. \A e \in Emails : identity'[e].ver >= identity[e].ver
      BY <1>2, <1>a DEF Environment, Tick, ChangeIdentity, ChangeRows, PublishMap, epicor
    <2>2. UNCHANGED <<task, cache, caller, evicted>>
      BY <1>2, Zenon DEF Environment, Tick, ChangeIdentity, ChangeRows, PublishMap, ghosts
    <2>3. QED
      BY <1>a, <2>1, <2>2, BarrierFrame
  <1>3. ASSUME NEW f \in Flights, BuildStep(f)
        PROVE  Barrier'
    BY <1>0, <1>3, BarrierBuildStep, BarrierRelease
  <1>4. ASSUME NEW x \in Admins, RefreshStep(x) \/ RefreshTenant(x)
        PROVE  Barrier'
    <2>0. x \notin Flights /\ task \in [Tasks -> Task]
      BY NamesAssumption DEF Shape, TypeOK
    <2>1. CASE FinishRefresh(x)
      <3>1. /\ \A f \in Flights : task'[f] = task[f]
            /\ UNCHANGED <<caller, identity>> /\ DropAll
        BY <2>0, <2>1 DEF FinishRefresh, epicor, Tasks
      <3>2. QED
        BY <3>1, BarrierEvict DEF DropAll
    <2>2. CASE ~FinishRefresh(x)
      <3>1. \A f \in Flights : task'[f] = task[f]
        BY <1>4, <2>0, <2>2
           DEF RefreshStep, RefreshTenant, EnterLock, EpicorReadsMenus,
               EpicorReadsSecurity, FailRefresh, StartCrawl, Tasks
      <3>2. UNCHANGED <<cache, caller, evicted, identity>>
        BY <1>4, <2>0, <2>2
           DEF RefreshStep, RefreshTenant, EnterLock, EpicorReadsMenus,
               EpicorReadsSecurity, FailRefresh, StartCrawl, epicor, ghosts
      <3>3. QED
        BY <1>a, <3>1, <3>2, BarrierFrame
    <2>3. QED
      BY <2>1, <2>2
  <1>5. ASSUME NEW c \in Callers, CallerStep(c)
        PROVE  Barrier'
    BY <1>5, BarrierEnsure, BarrierCaller DEF CallerStep
  <1>6. ASSUME NEW e \in Emails, Evict(e)
        PROVE  Barrier'
    <2>1. /\ UNCHANGED <<task, caller, identity>> /\ generation' = generation + 1
          /\ \A d \in Emails :
              \/ /\ snapshots'[d] = snapshots[d] /\ flights'[d] = flights[d]
                 /\ evicted'[d] = evicted[d]
              \/ /\ snapshots'[d] = NoSnapshot /\ flights'[d] = None
                 /\ evicted'[d].user = identity[d].ver
      BY <1>6 DEF Evict, Shape, TypeOK, epicor
    <2>2. QED
      BY <2>1, BarrierEvict
  <1>7. CASE EvictAll
    BY <1>7, BarrierEvict DEF EvictAll, DropAll, epicor
  <1>8. QED
    BY <1>1, <1>2, <1>3, <1>4, <1>5, <1>6, <1>7 DEF Next

LEMMA Inductive == Spec => [](Shape /\ Barrier)
  BY ShapeInit, ShapeStep, BarrierInit, BarrierStep, PTL DEF Spec

(* An eviction cannot be undone: whatever build was running, the cache only*)
(* ever holds answers read after the user's last eviction.                 *)
THEOREM EvictionIsABarrier == Spec => []EvictionBarrier
  <1>1. Barrier => EvictionBarrier
    BY DEF Barrier
  <1>2. QED
    BY <1>1, Inductive, PTL

(* Whoever asks after an eviction gets an answer read after it.            *)
THEOREM AnswersFollowEvictions == Spec => []AnswerAfterEviction
  <1>1. Barrier => AnswerAfterEviction
    BY DEF Barrier, CallersSince, AnswerAfterEviction, Since
  <1>2. QED
    BY <1>1, Inductive, PTL

(* In one generation a user's snapshot has one writer, the registered build.*)
THEOREM BuildsAreSingleFlight == Spec => []SingleFlight
  <1>1. Barrier => SingleFlight
    BY DEF Barrier
  <1>2. QED
    BY <1>1, Inductive, PTL

-----------------------------------------------------------------------------
(* The shared rows.  The lock's queue is the order in which the crawls     *)
(* store, and a refresh waits behind builds that began before it; so rows  *)
(* and stamps only move forward, and what is computed from them follows.   *)
InLine == {"lock", "menus", "security", "rows"}

Order ==
    /\ \A i, j \in 1 .. Len(lock) : lock[i] = lock[j] => i = j
    /\ \A x \in Tasks : task[x].pc \in InLine => \E i \in 1 .. Len(lock) : lock[i] = x
    /\ \A i \in 1 .. Len(lock) : task[lock[i]].pc \in InLine
    /\ \A i, j \in 1 .. Len(lock) :
           i < j /\ lock[j] \in Admins => task[lock[i]].now <= task[lock[j]].now

Crawled(x) ==
    LET t == task[x] IN
    /\ t.now <= clock
    /\ t.pc \in {"security", "rows"} => tenant.menus <= t.menus /\ t.menus <= rows
    /\ t.pc = "rows" => t.menus <= t.security /\ t.security <= rows
    /\ Crawling(x) \/ (x \in Admins /\ t.pc = "lock") => tenant.at <= t.now

Stored ==
    /\ tenant.menus <= tenant.security /\ tenant.security <= rows
    /\ tenant.at <= clock
    /\ refreshed <= tenant.menus
    /\ \A x \in Tasks : Crawled(x)

Following ==
    /\ RefreshPropagates
    /\ \A f \in Flights :
           Building(f) /\ task[f].gen = generation /\ task[f].cached.kind = "scoped"
               => task[f].cached.menus >= refreshed

RowsInv == Order /\ Stored /\ Following


LEMMA RowsTypes ==
    ASSUME Shape
    PROVE  /\ clock \in Nat /\ rows \in Nat /\ refreshed \in Nat /\ generation \in Nat
           /\ tenant.menus \in Nat /\ tenant.security \in Nat /\ tenant.at \in Int
           /\ lock \in Seq(Tasks) /\ task \in [Tasks -> Task]
           /\ \A x \in Tasks : /\ task[x] \in Task /\ task[x].now \in Nat
                               /\ task[x].menus \in Nat /\ task[x].security \in Nat
           /\ \A f \in Flights : /\ f \in Tasks /\ task[f].gen \in Nat
                                 /\ task[f].cached \in Snapshot /\ task[f].cached.menus \in Nat
           /\ \A e \in Emails : snapshots[e] \in Snapshot /\ snapshots[e].menus \in Nat
  <1>1. \A x \in Tasks : task[x] \in Task
    BY DEF Shape, TypeOK
  <1>2. \A f \in Flights : f \in Tasks
    BY DEF Tasks
  <1>3. \A x \in Tasks : /\ task[x].now \in Nat /\ task[x].menus \in Nat
                         /\ task[x].security \in Nat /\ task[x].gen \in Nat
                         /\ task[x].cached \in Snapshot
    BY <1>1 DEF Task
  <1>4. \A s \in Snapshot : s.menus \in Nat
    BY DEF Snapshot
  <1>5. QED
    BY <1>1, <1>2, <1>3, <1>4 DEF Shape, TypeOK, Tenant

LEMMA RowsInit == Init => RowsInv
  <1> SUFFICES ASSUME Init PROVE RowsInv
    OBVIOUS
  <1>1. \A x \in Tasks : task[x].pc = "idle" /\ task[x].now = 0
    BY DEF Init, IdleTask
  <1>2. lock = <<>> /\ Len(lock) = 0
    BY DEF Init
  <1>3. Order
    BY <1>1, <1>2 DEF Order, InLine
  <1>4. Stored
    BY <1>1 DEF Init, Stored, Crawled, Crawling, NoTenant
  <1>5. Following
    BY <1>1 DEF Init, Following, RefreshPropagates, Building, NoSnapshot, Tasks
  <1>6. QED
    BY <1>3, <1>4, <1>5 DEF RowsInv

\* The queue: nobody moves, a task joins at the end, the head leaves.
LEMMA OrderStays ==
    ASSUME Shape, Order, NEW x \in Tasks, lock' = lock,
           \A y \in Tasks : y # x => task'[y] = task[y],
           \/ /\ task[x].pc \in InLine /\ task'[x].pc \in InLine
              /\ task'[x].now = task[x].now
           \/ task[x].pc \notin InLine /\ task'[x].pc \notin InLine
    PROVE  Order'
  <1>1. \A i \in 1 .. Len(lock) : lock[i] \in Tasks
    BY RowsTypes
  <1>2. \A i \in 1 .. Len(lock) : /\ task'[lock[i]].pc \in InLine
                                  /\ task'[lock[i]].now = task[lock[i]].now
    BY <1>1 DEF Order
  <1>3. \A y \in Tasks : task'[y].pc \in InLine => task[y].pc \in InLine
    OBVIOUS
  <1>4. QED
    BY <1>2, <1>3 DEF Order

LEMMA OrderJoins ==
    ASSUME Shape, Order, NEW x \in Tasks, lock' = Append(lock, x),
           \A y \in Tasks : y # x => task'[y] = task[y],
           task[x].pc \notin InLine, task'[x].pc \in InLine,
           x \in Admins => \A y \in Tasks : task[y].now <= task'[x].now,
           task'[x].now \in Nat
    PROVE  Order'
  <1> DEFINE n == Len(lock)
  <1>1. /\ lock \in Seq(Tasks) /\ n \in Nat /\ Len(lock') = n + 1 /\ lock'[n + 1] = x
        /\ \A i \in 1 .. n : lock'[i] = lock[i] /\ lock[i] \in Tasks
    BY RowsTypes
  <1>2. \A i \in 1 .. n : lock[i] # x /\ task'[lock[i]] = task[lock[i]]
    BY <1>1 DEF Order
  <1>3. \A i \in 1 .. n + 1 : i \in 1 .. n \/ i = n + 1
    BY <1>1
  <1>4. \A i, j \in 1 .. n + 1 : lock'[i] = lock'[j] => i = j
    BY <1>1, <1>2, <1>3 DEF Order
  <1>5. \A y \in Tasks : task'[y].pc \in InLine => \E i \in 1 .. n + 1 : lock'[i] = y
    <2>1. ASSUME NEW y \in Tasks, y # x, task'[y].pc \in InLine
          PROVE  \E i \in 1 .. n + 1 : lock'[i] = y
      <3>1. PICK i \in 1 .. n : lock[i] = y
        BY <2>1 DEF Order
      <3>2. i \in 1 .. n + 1 /\ lock'[i] = y
        BY <1>1, <3>1
      <3>3. QED
        BY <3>2
    <2>2. QED
      BY <1>1, <2>1
  <1>6. \A i \in 1 .. n + 1 : task'[lock'[i]].pc \in InLine
    BY <1>1, <1>2, <1>3 DEF Order
  <1>7. ASSUME NEW i \in 1 .. n + 1, NEW j \in 1 .. n + 1, i < j, lock'[j] \in Admins
        PROVE  task'[lock'[i]].now <= task'[lock'[j]].now
    <2>1. i \in 1 .. n
      BY <1>1, <1>7
    <2>2. CASE j \in 1 .. n
      BY <1>1, <1>2, <1>7, <2>1, <2>2 DEF Order
    <2>3. CASE j = n + 1
      BY <1>1, <1>2, <1>7, <2>1, <2>3
    <2>4. QED
      BY <1>3, <2>2, <2>3
  <1>8. QED
    BY <1>1, <1>4, <1>5, <1>6, <1>7 DEF Order

LEMMA OrderLeaves ==
    ASSUME Shape, Order, NEW x \in Tasks, lock # <<>>, Head(lock) = x,
           lock' = Tail(lock),
           \A y \in Tasks : y # x => task'[y] = task[y],
           task'[x].pc \notin InLine
    PROVE  Order'
  <1> DEFINE n == Len(lock)
  <1>1. /\ lock \in Seq(Tasks) /\ n \in Nat \ {0} /\ lock[1] = x /\ Len(lock') = n - 1
        /\ \A i \in 1 .. n - 1 : lock'[i] = lock[i + 1] /\ i + 1 \in 1 .. n
        /\ \A i \in 1 .. n : lock[i] \in Tasks
    BY RowsTypes
  <1>2. \A i \in 1 .. n - 1 : lock[i + 1] # x /\ task'[lock[i + 1]] = task[lock[i + 1]]
    BY <1>1 DEF Order
  <1>3. \A i, j \in 1 .. n - 1 : lock'[i] = lock'[j] => i = j
    BY <1>1 DEF Order
  <1>4. ASSUME NEW y \in Tasks, task'[y].pc \in InLine
        PROVE  \E i \in 1 .. n - 1 : lock'[i] = y
    <2>1. y # x /\ task[y].pc \in InLine
      BY <1>4
    <2>2. PICK i \in 1 .. n : lock[i] = y
      BY <2>1 DEF Order
    <2>3. i # 1
      BY <1>1, <2>1, <2>2
    <2>4. i - 1 \in 1 .. n - 1 /\ lock'[i - 1] = y
      BY <1>1, <2>2, <2>3
    <2>5. QED
      BY <2>4
  <1>5. \A i \in 1 .. n - 1 : task'[lock'[i]].pc \in InLine
    BY <1>1, <1>2 DEF Order
  <1>6. \A i, j \in 1 .. n - 1 : i < j /\ lock'[j] \in Admins
            => task'[lock'[i]].now <= task'[lock'[j]].now
    BY <1>1, <1>2 DEF Order
  <1>7. QED
    BY <1>1, <1>3, <1>4, <1>5, <1>6 DEF Order

\* Nothing is stored: only the task that steps has to be looked at.
LEMMA StoredStays ==
    ASSUME Shape, Stored, NEW x \in Tasks, UNCHANGED <<clock, rows, tenant, refreshed>>,
           \A y \in Tasks : y # x => task'[y] = task[y],
           Crawled(x)'
    PROVE  Stored'
  BY DEF Stored, Crawled, Crawling

\* The lock's holder stores what it has read.
LEMMA StoredMoves ==
    ASSUME Shape, Order, Stored, NEW x \in Tasks, UNCHANGED <<clock, rows>>,
           task[x].pc = "rows",
           tenant' = [menus |-> task[x].menus, security |-> task[x].security,
                      at |-> task[x].now],
           refreshed' \in {refreshed, task[x].menus},
           \A y \in Tasks : y # x => task'[y] = task[y],
           task'[x].pc \notin InLine, task'[x].now \in {0, task[x].now}
    PROVE  /\ Stored'
           /\ tenant'.menus >= tenant.menus /\ tenant'.at >= tenant.at
  <1>1. /\ Crawling(x) /\ Crawled(x) /\ lock # <<>> /\ Head(lock) = x
        /\ task[x].now \in Nat /\ task[x].menus \in Nat /\ task[x].security \in Nat
        /\ lock \in Seq(Tasks) /\ clock \in Nat /\ rows \in Nat /\ refreshed \in Nat
        /\ tenant.menus \in Nat /\ tenant.security \in Nat /\ tenant.at \in Int
    BY RowsTypes DEF Crawling, Stored, Shape, OneCrawl
  <1>2. /\ tenant.menus <= task[x].menus /\ task[x].menus <= task[x].security
        /\ task[x].security <= rows /\ tenant.at <= task[x].now /\ task[x].now <= clock
    BY <1>1 DEF Crawled
  <1>3. lock[1] = x /\ 1 \in 1 .. Len(lock)
    BY <1>1
  <1>4. ASSUME NEW y \in Tasks, y # x
        PROVE  Crawled(y)'
    <2>1. ~Crawling(y) /\ Crawled(y)
      BY <1>1, <1>4 DEF Shape, OneCrawl, Stored
    <2>2. ASSUME y \in Admins, task[y].pc = "lock"
          PROVE  task[x].now <= task[y].now
      <3>1. PICK j \in 1 .. Len(lock) : lock[j] = y
        BY <2>2 DEF Order, InLine
      <3>2. 1 < j
        BY <1>1, <1>3, <1>4, <3>1
      <3>3. QED
        BY <1>3, <2>2, <3>1, <3>2 DEF Order
    <2>3. QED
      BY <1>4, <2>1, <2>2 DEF Crawled, Crawling
  <1>5. Crawled(x)'
    BY <1>1, <1>2 DEF Crawled, Crawling, InLine
  <1>6. QED
    BY <1>1, <1>2, <1>4, <1>5 DEF Stored

\* A build goes on, and the cache stays as it is.
LEMMA FollowingStays ==
    ASSUME Shape, Following, NEW x \in Tasks,
           UNCHANGED <<snapshots, generation, refreshed>>,
           \A y \in Tasks : y # x => task'[y] = task[y],
           x \in Flights /\ Building(x)' =>
               \/ task'[x].cached.kind # "scoped"
               \/ task'[x].cached.menus >= refreshed
               \/ Building(x) /\ task'[x].cached = task[x].cached /\ task'[x].gen = task[x].gen
    PROVE  Following'
  <1>1. \A f \in Flights : f \in Tasks
    BY DEF Tasks
  <1>2. RefreshPropagates'
    BY DEF Following, RefreshPropagates
  <1>3. ASSUME NEW f \in Flights, Building(f)', task'[f].gen = generation',
               task'[f].cached.kind = "scoped"
        PROVE  task'[f].cached.menus >= refreshed'
    BY <1>1, <1>3 DEF Following, Building
  <1>4. QED
    BY <1>2, <1>3 DEF Following

\* A build ends: what it caches is computed from rows as new as the refresh.
LEMMA FollowingCache ==
    ASSUME Shape, Following, NEW f \in Flights, NEW snap, Building(f), CacheSnapshot(f, snap),
           refreshed' = refreshed,
           task[f].gen = generation /\ snap.kind = "scoped" => snap.menus >= refreshed
    PROVE  Following'
  <1>1. f \in Tasks /\ task \in [Tasks -> Task] /\ \A g \in Flights : g \in Tasks
    BY RowsTypes DEF Tasks
  <1>2. /\ ~Building(f)' /\ UNCHANGED generation
        /\ \A y \in Tasks : y # f => task'[y] = task[y]
    BY <1>1 DEF CacheSnapshot, Building
  <1>3. RefreshPropagates'
    BY DEF CacheSnapshot, Following, RefreshPropagates, Shape, TypeOK
  <1>4. QED
    BY <1>1, <1>2, <1>3 DEF Following, Building

\* An eviction: the builds under way are of an older generation.
LEMMA FollowingEvict ==
    ASSUME Shape, Following, generation' = generation + 1,
           \A f \in Flights : task'[f] = task[f],
           \A e \in Emails : \/ snapshots'[e] = NoSnapshot
                             \/ snapshots'[e] = snapshots[e] /\ refreshed' = refreshed
    PROVE  Following'
  <1>1. \A f \in Flights : task[f].pc # "idle" => task[f].gen # generation + 1
    BY RowsTypes DEF Shape, TaskOK
  <1>2. RefreshPropagates'
    BY DEF Following, RefreshPropagates, NoSnapshot
  <1>3. QED
    BY <1>1, <1>2 DEF Following, Building

LEMMA CachedTask ==
    ASSUME Shape, NEW f \in Flights, NEW snap, CacheSnapshot(f, snap)
    PROVE  /\ \A y \in Tasks : y # f => task'[y] = task[y]
           /\ task'[f].pc = "done" /\ task'[f].now = task[f].now /\ task'[f].result = snap
           /\ UNCHANGED generation
  BY RowsTypes DEF CacheSnapshot, IdleTask

\* A build that holds no lock ends.
LEMMA RowsCache ==
    ASSUME Shape, RowsInv, NEW f \in Flights, NEW snap, Building(f),
           task[f].pc \notin InLine, CacheSnapshot(f, snap),
           UNCHANGED <<lock, tenant, clock, rows, refreshed>>,
           task[f].gen = generation /\ snap.kind = "scoped" => snap.menus >= refreshed
    PROVE  RowsInv'
  <1>1. f \in Tasks /\ Crawled(f)
    BY DEF Tasks, RowsInv, Stored
  <1>2. Order'
    BY <1>1, CachedTask, OrderStays DEF RowsInv, InLine
  <1>3. Crawled(f)'
    BY <1>1, CachedTask, NamesAssumption DEF Crawled, Crawling
  <1>4. Stored'
    BY <1>1, <1>3, CachedTask, StoredStays DEF RowsInv
  <1>5. QED
    BY <1>2, <1>4, FollowingCache DEF RowsInv

\* A build that holds the lock ends, with the rows or without them.
LEMMA RowsCacheLeave ==
    ASSUME Shape, RowsInv, NEW f \in Flights, NEW snap, Building(f),
           lock # <<>>, Head(lock) = f, lock' = Tail(lock), CacheSnapshot(f, snap),
           UNCHANGED <<clock, rows, refreshed>>,
           \/ tenant' = tenant
           \/ /\ task[f].pc = "rows"
              /\ tenant' = [menus |-> task[f].menus, security |-> task[f].security,
                            at |-> task[f].now],
           task[f].gen = generation /\ snap.kind = "scoped" => snap.menus >= refreshed
    PROVE  /\ RowsInv'
           /\ tenant'.menus >= tenant.menus /\ tenant'.at >= tenant.at
  <1>1. f \in Tasks /\ Crawled(f)
    BY DEF Tasks, RowsInv, Stored
  <1>2. Order'
    BY <1>1, CachedTask, OrderLeaves DEF RowsInv, InLine
  <1>3. CASE tenant' = tenant
    <2>1. Crawled(f)'
      BY <1>1, <1>3, CachedTask, NamesAssumption DEF Crawled, Crawling
    <2>2. Stored'
      BY <1>1, <1>3, <2>1, CachedTask, StoredStays DEF RowsInv
    <2>3. QED
      BY <1>2, <1>3, <2>2, FollowingCache, RowsTypes DEF RowsInv
  <1>4. CASE tenant' # tenant
    <2>1. /\ Stored'
          /\ tenant'.menus >= tenant.menus /\ tenant'.at >= tenant.at
      BY <1>1, <1>4, CachedTask, StoredMoves DEF RowsInv, InLine
    <2>2. QED
      BY <1>2, <2>1, FollowingCache DEF RowsInv
  <1>5. QED
    BY <1>3, <1>4

\* What a scoped snapshot is computed from.
LEMMA ComputedRows ==
    ASSUME NEW user, NEW menus, NEW security, NEW loaded
    PROVE  LET s == ComputeSnapshot(user, menus, security, loaded) IN
           s.kind = "scoped" => s.menus = menus
  BY DEF ComputeSnapshot

LEMMA FailureRows ==
    ASSUME NEW cached \in Snapshot, NEW now
    PROVE  LET s == FetchFailure(cached, now) IN
           /\ s.kind = "scoped" => cached.kind = "scoped" /\ s.menus = cached.menus
  BY DEF FetchFailure, Snapshot, Granting

\* A crawl starts, with the lock just taken or from the head of the queue.
LEMMA RowsCrawl ==
    ASSUME Shape, RowsInv, NEW x \in Tasks, NEW t \in Task, NEW queue,
           StartCrawl(x, t, queue), UNCHANGED <<clock, rows, refreshed>>,
           \/ task[x].pc = "lock" /\ t = task[x] /\ queue = lock
           \/ /\ task[x].pc \notin InLine /\ queue = Append(lock, x)
              /\ t.now <= clock
              /\ x \in Admins => t.now = clock,
           tenant.at <= t.now,
           x \in Flights => /\ Building(x)
                            /\ t.cached = task[x].cached /\ t.gen = task[x].gen
    PROVE  RowsInv' /\ UNCHANGED tenant
  <1>1. /\ task' = [task EXCEPT ![x] = [t EXCEPT !.pc = "menus"]]
        /\ lock' = queue /\ UNCHANGED <<tenant, cache>>
    BY DEF StartCrawl
  <1>2. /\ \A y \in Tasks : y # x => task'[y] = task[y]
        /\ task'[x].pc = "menus" /\ task'[x].now = t.now
        /\ task'[x].cached = t.cached /\ task'[x].gen = t.gen
        /\ t.now \in Nat /\ clock \in Nat
    BY <1>1, RowsTypes DEF Task
  <1>3. Crawled(x) /\ \A y \in Tasks : task[y].now <= clock
    BY DEF RowsInv, Stored, Crawled
  <1>4. Order'
    <2>1. CASE task[x].pc = "lock" /\ t = task[x] /\ queue = lock
      BY <1>1, <1>2, <2>1, OrderStays DEF RowsInv, InLine
    <2>2. CASE task[x].pc \notin InLine /\ queue = Append(lock, x)
      BY <1>1, <1>2, <1>3, <2>2, OrderJoins DEF RowsInv, InLine
    <2>3. QED
      BY <2>1, <2>2
  <1>5. Crawled(x)'
    BY <1>1, <1>2, <1>3 DEF Crawled, Crawling
  <1>6. Stored'
    BY <1>1, <1>2, <1>5, StoredStays DEF RowsInv
  <1>7. Following'
    BY <1>1, <1>2, FollowingStays DEF RowsInv, cache
  <1>8. QED
    BY <1>1, <1>4, <1>6, <1>7 DEF RowsInv

\* A task waits for the lock behind whoever has it.
LEMMA RowsQueue ==
    ASSUME Shape, RowsInv, NEW x \in Tasks, task[x].pc \notin InLine,
           lock' = Append(lock, x), UNCHANGED <<tenant, cache, clock, rows, refreshed>>,
           \A y \in Tasks : y # x => task'[y] = task[y],
           task'[x].pc = "lock", task'[x].now \in Nat, task'[x].now <= clock,
           x \in Admins => task'[x].now = clock,
           x \in Flights => /\ Building(x) /\ task'[x].cached = task[x].cached
                            /\ task'[x].gen = task[x].gen
    PROVE  RowsInv'
  <1>1. /\ \A y \in Tasks : task[y].now <= clock
        /\ tenant.at <= clock
    BY DEF RowsInv, Stored, Crawled
  <1>2. Order'
    BY <1>1, OrderJoins DEF RowsInv, InLine
  <1>3. Crawled(x)'
    BY <1>1, NamesAssumption DEF Crawled, Crawling
  <1>4. Stored'
    BY <1>3, StoredStays DEF RowsInv
  <1>5. Following'
    BY FollowingStays DEF RowsInv, cache
  <1>6. QED
    BY <1>2, <1>4, <1>5 DEF RowsInv

\* A task that is not in the queue moves on, or is forgotten.
LEMMA RowsQuiet ==
    ASSUME Shape, RowsInv, NEW x \in Tasks,
           UNCHANGED <<lock, tenant, clock, rows, refreshed, snapshots, generation>>,
           \A y \in Tasks : y # x => task'[y] = task[y],
           task[x].pc \notin InLine, task'[x].pc \notin InLine, task'[x].now <= clock,
           x \in Flights /\ Building(x)' =>
               \/ task'[x].cached.kind # "scoped"
               \/ task'[x].cached.menus >= refreshed
               \/ Building(x) /\ task'[x].cached = task[x].cached /\ task'[x].gen = task[x].gen
    PROVE  RowsInv'
  <1>1. Order'
    BY OrderStays DEF RowsInv
  <1>2. Crawled(x)'
    BY DEF Crawled, Crawling, InLine
  <1>3. Stored'
    BY <1>2, StoredStays DEF RowsInv
  <1>4. Following'
    BY FollowingStays DEF RowsInv
  <1>5. QED
    BY <1>1, <1>3, <1>4 DEF RowsInv

\* A build looks at the shared rows only to find them older than itself.
LEMMA NotFresh ==
    ASSUME Shape, NEW x \in Tasks, ~TenantFresh(task[x].now)
    PROVE  tenant.at <= task[x].now
  BY RowsTypes, TimesAssumption DEF TenantFresh

LEMMA RowsUseIdentity ==
    ASSUME Shape, RowsInv, NEW f \in Flights, UseIdentity(f)
    PROVE  RowsInv' /\ UNCHANGED tenant
  <1> DEFINE t == task[f]
  <1>1. /\ f \in Tasks /\ f \notin Admins /\ t \in Task /\ Building(f) /\ t.pc \notin InLine
        /\ t.now \in Nat /\ t.now <= clock /\ refreshed <= tenant.menus
        /\ UNCHANGED <<clock, rows, refreshed>> /\ task \in [Tasks -> Task]
    BY RowsTypes, NamesAssumption
       DEF Tasks, UseIdentity, Building, InLine, RowsInv, Stored, Crawled, epicor, ghosts
  <1>2. CASE /\ t.user.kind # "scoped"
             /\ CacheSnapshot(f, ComputeSnapshot(t.user, 0, 0, mapLoaded))
             /\ UNCHANGED crawl
    <2>1. ComputeSnapshot(t.user, 0, 0, mapLoaded).kind # "scoped"
      BY <1>2 DEF ComputeSnapshot
    <2>2. QED
      BY <1>1, <1>2, <2>1, RowsCache DEF crawl
  <1>3. CASE /\ CacheSnapshot(f, ComputeSnapshot(t.user, tenant.menus,
                                                 tenant.security, mapLoaded))
             /\ UNCHANGED crawl
    BY <1>1, <1>3, ComputedRows, RowsCache DEF crawl
  <1>4. CASE lock = <<>> /\ ~TenantFresh(t.now) /\ StartCrawl(f, t, <<f>>)
    <2>1. <<f>> = Append(lock, f)
      BY <1>4
    <2>2. QED
      BY <1>1, <1>4, <2>1, NotFresh, RowsCrawl
  <1>5. CASE /\ lock' = Append(lock, f)
             /\ task' = [task EXCEPT ![f].pc = "lock"]
             /\ UNCHANGED <<tenant, mapLoaded, cache>>
    <2>1. /\ \A y \in Tasks : y # f => task'[y] = task[y]
          /\ task'[f].pc = "lock" /\ task'[f].now = t.now
          /\ task'[f].cached = t.cached /\ task'[f].gen = t.gen
      BY <1>1, <1>5 DEF Task
    <2>2. QED
      BY <1>1, <1>5, <2>1, RowsQueue
  <1>6. QED
    BY <1>2, <1>3, <1>4, <1>5 DEF UseIdentity

LEMMA RowsEnter ==
    ASSUME Shape, RowsInv, NEW x \in Tasks, EnterLock(x)
    PROVE  RowsInv' /\ UNCHANGED tenant
  <1>1. /\ task[x].pc = "lock" /\ lock # <<>> /\ Head(lock) = x /\ task[x] \in Task
        /\ Crawled(x) /\ refreshed <= tenant.menus
        /\ UNCHANGED <<clock, rows, refreshed>>
    BY RowsTypes DEF EnterLock, RowsInv, Stored, epicor, ghosts
  <1>2. x \in Flights => Building(x)
    BY <1>1 DEF Building
  <1>3. CASE /\ x \in Flights
             /\ CacheSnapshot(x, ComputeSnapshot(task[x].user, tenant.menus,
                                                 tenant.security, mapLoaded))
             /\ lock' = Tail(lock)
             /\ UNCHANGED <<tenant, mapLoaded>>
    BY <1>1, <1>2, <1>3, ComputedRows, RowsCacheLeave
  <1>4. CASE /\ x \in Admins \/ ~TenantFresh(task[x].now)
             /\ StartCrawl(x, task[x], lock)
    <2>1. tenant.at <= task[x].now
      BY <1>1, <1>4, NotFresh DEF Crawled
    <2>2. QED
      BY <1>1, <1>2, <1>4, <2>1, RowsCrawl
  <1>5. QED
    BY <1>3, <1>4 DEF EnterLock

LEMMA RowsRead ==
    ASSUME Shape, RowsInv, NEW x \in Tasks, EpicorReadsMenus(x) \/ EpicorReadsSecurity(x)
    PROVE  RowsInv' /\ UNCHANGED tenant
  <1>1. /\ Crawled(x) /\ tenant.menus <= tenant.security /\ tenant.security <= rows
        /\ tenant.menus \in Nat /\ tenant.security \in Nat /\ rows \in Nat
        /\ task[x].menus \in Nat
        /\ UNCHANGED <<clock, rows, refreshed, tenant, lock, cache>>
    BY RowsTypes DEF RowsInv, Stored, EpicorReadsMenus, EpicorReadsSecurity,
                     epicor, ghosts, crawl
  <1>2. /\ \A y \in Tasks : y # x => task'[y] = task[y]
        /\ task[x].pc \in {"menus", "security"}
        /\ task'[x].pc \in {"security", "rows"} /\ task'[x].now = task[x].now
        /\ task'[x].cached = task[x].cached /\ task'[x].gen = task[x].gen
    <2>1. CASE EpicorReadsMenus(x)
      BY <2>1, RowsTypes DEF EpicorReadsMenus, Task
    <2>2. CASE EpicorReadsSecurity(x)
      BY <2>2, RowsTypes DEF EpicorReadsSecurity, Task
    <2>3. QED
      BY <2>1, <2>2
  <1>3. \/ /\ task'[x].pc = "security" /\ task'[x].menus = rows
        \/ /\ task[x].pc = "security" /\ task'[x].pc = "rows" /\ task'[x].security = rows
           /\ task'[x].menus = task[x].menus
    BY RowsTypes DEF EpicorReadsMenus, EpicorReadsSecurity, Task
  <1>4. Order'
    BY <1>1, <1>2, OrderStays DEF RowsInv, InLine
  <1>5. Crawled(x)'
    BY <1>1, <1>2, <1>3 DEF Crawled, Crawling
  <1>6. Stored'
    BY <1>1, <1>2, <1>5, StoredStays DEF RowsInv
  <1>7. Following'
    BY <1>1, <1>2, FollowingStays DEF RowsInv, cache, Building
  <1>8. QED
    BY <1>1, <1>4, <1>6, <1>7 DEF RowsInv

LEMMA RowsFinishCrawl ==
    ASSUME Shape, RowsInv, NEW f \in Flights, FinishCrawl(f)
    PROVE  RowsInv' /\ tenant'.menus >= tenant.menus /\ tenant'.at >= tenant.at
  <1>1. f \in Tasks
    BY DEF Tasks
  <1>2. /\ task[f].pc = "rows" /\ Crawling(f) /\ Building(f) /\ Crawled(f)
        /\ refreshed <= tenant.menus
    BY <1>1 DEF FinishCrawl, Crawling, Building, RowsInv, Stored
  <1>3. lock # <<>> /\ Head(lock) = f
    BY <1>1, <1>2 DEF Shape, OneCrawl
  <1>4. /\ CacheSnapshot(f, ComputeSnapshot(task[f].user, task[f].menus,
                                            task[f].security, mapLoaded))
        /\ lock' = Tail(lock) /\ UNCHANGED <<clock, rows, refreshed>>
        /\ tenant' = [menus |-> task[f].menus, security |-> task[f].security,
                      at |-> task[f].now]
    BY DEF FinishCrawl, StoreTenant, epicor, ghosts
  <1>5. task[f].menus >= refreshed
    BY <1>1, <1>2, RowsTypes DEF Crawled
  <1>6. QED
    BY <1>2, <1>3, <1>4, <1>5, ComputedRows, RowsCacheLeave

LEMMA RowsFailFetch ==
    ASSUME Shape, RowsInv, NEW f \in Flights, FailFetch(f)
    PROVE  RowsInv' /\ UNCHANGED tenant
  <1> DEFINE snap == FetchFailure(task[f].cached, task[f].now)
  <1>1. /\ f \in Tasks /\ Building(f) /\ CacheSnapshot(f, snap)
        /\ task[f].pc \in {"user", "menus", "security"}
        /\ UNCHANGED <<clock, rows, refreshed, tenant>>
        /\ task[f].cached \in Snapshot
    BY RowsTypes DEF Tasks, FailFetch, Building, epicor, ghosts
  <1>2. task[f].gen = generation /\ snap.kind = "scoped" => snap.menus >= refreshed
    BY <1>1, FailureRows DEF RowsInv, Following
  <1>3. CASE task[f].pc = "user"
    <2>1. lock' = lock /\ task[f].pc \notin InLine
      BY <1>3 DEF FailFetch, InLine
    <2>2. QED
      BY <1>1, <1>2, <2>1, RowsCache
  <1>4. CASE task[f].pc # "user"
    <2>1. lock' = Tail(lock) /\ lock # <<>> /\ Head(lock) = f
      BY <1>1, <1>4 DEF FailFetch, Shape, OneCrawl, Crawling
    <2>2. QED
      BY <1>1, <1>2, <2>1, RowsCacheLeave
  <1>5. QED
    BY <1>3, <1>4

\* A build begins, or hears from Epicor who the user is.
LEMMA RowsBegin ==
    ASSUME Shape, RowsInv, NEW f \in Flights, BeginBuild(f) \/ EpicorReadsUser(f)
    PROVE  RowsInv' /\ UNCHANGED tenant
  <1>1. /\ f \in Tasks /\ task[f].email \in Emails /\ Building(f) /\ clock \in Nat
        /\ task[f].pc \notin InLine /\ task[f].now <= clock
        /\ UNCHANGED <<lock, tenant, clock, rows, refreshed, snapshots, generation>>
    BY RowsTypes DEF Tasks, BeginBuild, EpicorReadsUser, Building, Shape, TaskOK, InLine,
                     RowsInv, Stored, Crawled, epicor, cache, crawl, ghosts
  <1>2. /\ \A y \in Tasks : y # f => task'[y] = task[y]
        /\ task'[f].pc \notin InLine /\ task'[f].now \in {clock, task[f].now}
        /\ task'[f].gen = task[f].gen
        /\ \/ task'[f].cached = snapshots[task[f].email]
           \/ task'[f].cached = task[f].cached
    BY <1>1, RowsTypes DEF BeginBuild, EpicorReadsUser, InLine, Task
  <1>3. snapshots[task[f].email].kind = "scoped" => snapshots[task[f].email].menus >= refreshed
    BY <1>1 DEF RowsInv, Following, RefreshPropagates
  <1>4. QED
    BY <1>1, <1>2, <1>3, RowsQuiet

\* A task is made, or forgotten.
LEMMA RowsForget ==
    ASSUME Shape, RowsInv, NEW f \in Flights, task[f].pc \in {"done", "released"},
           \A y \in Tasks : y # f => task'[y] = task[y],
           task'[f] \in {IdleTask, [task[f] EXCEPT !.pc = "released"]},
           UNCHANGED <<lock, tenant, clock, rows, refreshed, snapshots, generation>>
    PROVE  RowsInv'
  <1>1. /\ f \in Tasks /\ task[f].now <= clock /\ task[f].now \in Nat /\ clock \in Nat
    BY RowsTypes DEF RowsInv, Stored, Crawled
  <1>2. task'[f].pc \in {"idle", "released"} /\ task'[f].now \in {0, task[f].now}
    BY <1>1, RowsTypes DEF IdleTask, Task
  <1>3. ~Building(f)' /\ task[f].pc \notin InLine /\ task'[f].pc \notin InLine
    BY <1>2 DEF Building, InLine
  <1>4. QED
    BY <1>1, <1>2, <1>3, RowsQuiet

LEMMA RowsStart ==
    ASSUME Shape, RowsInv, NEW c \in Callers, NEW e \in Emails, StartFlight(c, e)
    PROVE  RowsInv' /\ UNCHANGED tenant
  <1>1. PICK f \in Flights :
            /\ task[f] = IdleTask
            /\ task' = [task EXCEPT ![f] = [IdleTask EXCEPT !.pc = "made",
                                              !.email = e, !.gen = generation]]
    BY DEF StartFlight
  <1>2. /\ UNCHANGED <<lock, tenant, clock, rows, refreshed, snapshots, generation>>
        /\ f \in Tasks /\ clock \in Nat /\ task \in [Tasks -> Task]
    BY RowsTypes DEF StartFlight, epicor, crawl, ghosts
  <1>3. /\ \A y \in Tasks : y # f => task'[y] = task[y]
        /\ task[f].pc \notin InLine /\ task'[f].pc \notin InLine /\ task'[f].now = 0
        /\ task'[f].cached.kind # "scoped"
    BY <1>1, <1>2 DEF IdleTask, InLine, NoSnapshot
  <1>4. QED
    BY <1>2, <1>3, RowsQuiet

\* A forced refresh begins, ends and fails.
LEMMA RowsRefresh ==
    ASSUME Shape, RowsInv, NEW x \in Admins, RefreshTenant(x)
    PROVE  RowsInv' /\ UNCHANGED tenant
  <1> DEFINE t == [IdleTask EXCEPT !.pc = "lock", !.now = clock]
  <1>1. /\ x \in Tasks /\ x \notin Flights /\ task[x].pc \notin InLine /\ clock \in Nat
        /\ UNCHANGED <<clock, rows, refreshed>> /\ tenant.at <= clock
        /\ task \in [Tasks -> Task]
    BY RowsTypes, NamesAssumption
       DEF Tasks, RefreshTenant, InLine, RowsInv, Stored, epicor, ghosts
  <1>2. t \in Task /\ t.now = clock /\ t.pc = "lock"
    BY <1>1, NullTypes DEF IdleTask, Task, Pc
  <1> HIDE DEF t
  <1>3. CASE lock = <<>> /\ StartCrawl(x, t, <<x>>)
    <2>1. <<x>> = Append(lock, x)
      BY <1>3
    <2>2. QED
      BY <1>1, <1>2, <1>3, <2>1, RowsCrawl
  <1>4. CASE /\ lock' = Append(lock, x) /\ task' = [task EXCEPT ![x] = t]
             /\ UNCHANGED <<tenant, mapLoaded, cache>>
    <2>1. (\A y \in Tasks : y # x => task'[y] = task[y]) /\ task'[x] = t
      BY <1>1, <1>4
    <2>2. QED
      BY <1>1, <1>2, <1>4, <2>1, RowsQueue
  <1>5. QED
    BY <1>3, <1>4 DEF RefreshTenant, t

LEMMA RowsRefreshEnds ==
    ASSUME Shape, RowsInv, NEW x \in Admins, FinishRefresh(x) \/ FailRefresh(x)
    PROVE  RowsInv' /\ tenant'.menus >= tenant.menus /\ tenant'.at >= tenant.at
  <1>1. /\ x \in Tasks /\ Crawling(x) /\ task \in [Tasks -> Task] /\ clock \in Nat
        /\ lock' = Tail(lock) /\ UNCHANGED <<clock, rows>>
        /\ \A f \in Flights : f \in Tasks /\ f # x
    BY RowsTypes, NamesAssumption
       DEF Tasks, FinishRefresh, FailRefresh, StoreTenant, Crawling, epicor
  <1>2. lock # <<>> /\ Head(lock) = x
    BY <1>1 DEF Shape, OneCrawl
  <1>3. /\ \A y \in Tasks : y # x => task'[y] = task[y]
        /\ task'[x].pc = "idle" /\ task'[x].now = 0
    BY <1>1 DEF FinishRefresh, FailRefresh, IdleTask
  <1>4. Order'
    BY <1>1, <1>2, <1>3, OrderLeaves DEF RowsInv, InLine
  <1>5. CASE FinishRefresh(x)
    <2>1. /\ task[x].pc = "rows" /\ refreshed' = task[x].menus /\ DropAll
          /\ tenant' = [menus |-> task[x].menus, security |-> task[x].security,
                        at |-> task[x].now]
      BY <1>5 DEF FinishRefresh, StoreTenant
    <2>2. Stored' /\ tenant'.menus >= tenant.menus /\ tenant'.at >= tenant.at
      BY <1>1, <1>3, <2>1, StoredMoves DEF RowsInv, InLine
    <2>3. Following'
      BY <1>1, <1>3, <2>1, FollowingEvict DEF RowsInv, DropAll
    <2>4. QED
      BY <1>4, <2>2, <2>3 DEF RowsInv
  <1>6. CASE FailRefresh(x)
    <2>1. UNCHANGED <<tenant, cache, refreshed>>
      BY <1>6 DEF FailRefresh, ghosts
    <2>2. Crawled(x)'
      BY <1>1, <1>3 DEF Crawled, Crawling
    <2>3. Stored'
      BY <1>1, <1>3, <2>1, <2>2, StoredStays DEF RowsInv
    <2>4. Following'
      BY <1>1, <1>3, <2>1, FollowingStays, NamesAssumption DEF RowsInv, cache
    <2>5. QED
      BY <1>4, <2>1, <2>3, <2>4, RowsTypes DEF RowsInv
  <1>7. QED
    BY <1>5, <1>6

LEMMA RowsStep ==
    ASSUME Shape, RowsInv, [Next]_vars
    PROVE  RowsInv' /\ tenant'.menus >= tenant.menus /\ tenant'.at >= tenant.at
  <1>0. /\ \A n \in Int : n >= n
        /\ tenant.menus \in Int /\ tenant.at \in Int
    BY RowsTypes
  <1>1. CASE UNCHANGED vars
    BY <1>0, <1>1 DEF vars, epicor, cache, crawl, ghosts, RowsInv, Order, Stored, Crawled,
                      Crawling, Following, RefreshPropagates, Building
  <1>2. CASE Environment
    <2>1. /\ UNCHANGED <<tenant, lock, task, snapshots, generation, refreshed>>
          /\ clock' >= clock /\ rows' >= rows /\ clock' \in Nat /\ rows' \in Nat
      BY <1>2, RowsTypes DEF Environment, Tick, ChangeRows, PublishMap, ChangeIdentity,
                             epicor, cache, crawl, ghosts
    <2>2. Order' /\ Following'
      BY <2>1 DEF RowsInv, Order, Following, RefreshPropagates, Building
    <2>3. Stored'
      BY <2>1, RowsTypes DEF RowsInv, Stored, Crawled, Crawling
    <2>4. QED
      BY <1>0, <2>1, <2>2, <2>3 DEF RowsInv
  <1>3. ASSUME NEW f \in Flights, BuildStep(f)
        PROVE  RowsInv' /\ tenant'.menus >= tenant.menus /\ tenant'.at >= tenant.at
    <2>1. f \in Tasks
      BY DEF Tasks
    <2>2. CASE Release(f)
      <3>1. /\ task[f].pc = "done"
            /\ \A y \in Tasks : y # f => task'[y] = task[y]
            /\ task'[f] \in {IdleTask, [task[f] EXCEPT !.pc = "released"]}
            /\ UNCHANGED <<lock, tenant, clock, rows, refreshed, snapshots, generation>>
        BY <2>1, <2>2, RowsTypes DEF Release, AfterCallbacks, epicor, crawl, ghosts
      <3>2. RowsInv'
        BY <3>1, RowsForget
      <3>3. QED
        BY <1>0, <3>1, <3>2
    <2>3. QED
      BY <1>0, <1>3, <2>1, <2>2, RowsBegin, RowsUseIdentity, RowsEnter, RowsRead,
         RowsFinishCrawl, RowsFailFetch DEF BuildStep
  <1>4. ASSUME NEW x \in Admins, RefreshStep(x) \/ RefreshTenant(x)
        PROVE  RowsInv' /\ tenant'.menus >= tenant.menus /\ tenant'.at >= tenant.at
    <2>1. x \in Tasks
      BY DEF Tasks
    <2>2. QED
      BY <1>0, <1>4, <2>1, RowsEnter, RowsRead, RowsRefresh, RowsRefreshEnds DEF RefreshStep
  <1>5. ASSUME NEW c \in Callers, CallerStep(c)
        PROVE  RowsInv' /\ tenant'.menus >= tenant.menus /\ tenant'.at >= tenant.at
    <2>1. CASE \E e \in Emails : StartFlight(c, e)
      BY <1>0, <2>1, RowsStart
    <2>2. CASE UNCHANGED task /\ ~\E e \in Emails : StartFlight(c, e)
      <3>1. UNCHANGED <<tenant, lock, task, snapshots, generation, refreshed, clock, rows>>
        BY <1>5, <2>2 DEF CallerStep, Ensure, ServeCached, JoinFlight, Answer, Return, Abandon,
                          epicor, cache, crawl, ghosts
      <3>2. QED
        BY <1>0, <3>1 DEF RowsInv, Order, Stored, Crawled, Crawling, Following,
                          RefreshPropagates, Building
    <2>3. CASE task' # task /\ (Answer(c) \/ Abandon(c))
      <3>1. PICK f \in Flights : f = caller[c].flight
        BY <2>3 DEF Answer, Abandon, Shape, TypeOK, Caller
      <3>2. /\ task[f].pc = "released"
            /\ \A y \in Tasks : y # f => task'[y] = task[y]
            /\ task'[f] \in {IdleTask, [task[f] EXCEPT !.pc = "released"]}
            /\ UNCHANGED <<lock, tenant, clock, rows, refreshed, snapshots, generation>>
        BY <2>3, <3>1, RowsTypes DEF Answer, Abandon, AfterCallbacks, epicor, cache, crawl, ghosts
      <3>3. RowsInv'
        BY <3>2, RowsForget
      <3>4. QED
        BY <1>0, <3>2, <3>3
    <2>4. QED
      BY <1>5, <2>1, <2>2, <2>3 DEF CallerStep, Ensure, ServeCached, JoinFlight, Return
  <1>6. ASSUME (\E e \in Emails : Evict(e)) \/ EvictAll
        PROVE  RowsInv' /\ tenant'.menus >= tenant.menus /\ tenant'.at >= tenant.at
    <2>1. /\ UNCHANGED <<tenant, lock, task, refreshed, clock, rows>>
          /\ generation' = generation + 1
          /\ \A e \in Emails : snapshots'[e] \in {NoSnapshot, snapshots[e]}
      BY <1>6 DEF Evict, EvictAll, DropAll, epicor, crawl, Shape, TypeOK
    <2>2. Order' /\ Stored'
      BY <2>1 DEF RowsInv, Order, Stored, Crawled, Crawling
    <2>3. QED
      BY <1>0, <2>1, <2>2, FollowingEvict DEF RowsInv
  <1>7. QED
    BY <1>1, <1>2, <1>3, <1>4, <1>5, <1>6 DEF Next

LEMMA RowsInductive == Spec => [](Shape /\ RowsInv)
  BY ShapeInit, ShapeStep, RowsInit, RowsStep, PTL DEF Spec

(* No build, however long it waited for the lock, overwrites newer rows.   *)
THEOREM RowsMoveForward == Spec => TenantForward
  <1>1. Shape /\ RowsInv /\ [Next]_vars
            => [tenant'.menus >= tenant.menus /\ tenant'.at >= tenant.at]_vars
    BY RowsStep
  <1>2. QED
    BY <1>1, RowsInductive, PTL DEF Spec, TenantForward

(* After a refresh no cached grant is computed from rows older than the    *)
(* ones it fetched, whatever builds straddle it.                           *)
THEOREM RefreshesPropagate == Spec => []RefreshPropagates
  <1>1. RowsInv => RefreshPropagates
    BY DEF RowsInv, Following
  <1>2. QED
    BY <1>1, RowsInductive, PTL

-----------------------------------------------------------------------------
(* Provenance.  What a snapshot says it was computed from is what it was:  *)
(* a grant's stamp is the time it was really worked out, so its age cannot *)
(* be renewed by serving it, and a scoped grant's rows are one crawl's.    *)
Sound(s) ==
    /\ Granting(s) => s.at = s.computed
    /\ s.kind = "scoped" => <<s.menus, s.security>> \in crawled

\* What a build may answer, and it has no answer before its end.
Graceful(t) ==
    /\ t.pc \notin {"done", "released"} => ~Granting(t.result)
    /\ Granting(t.result) =>
           t.now - t.result.computed <= IF t.result.stale THEN Grace ELSE 0
    /\ t.result.stale => Granting(t.result)

\* The rows a finished crawl holds, and the ones stored from it.
WholeRows ==
    /\ tenant.at >= 0 => <<tenant.menus, tenant.security>> \in crawled
    /\ \A x \in Tasks :
           task[x].pc = "rows" => <<task[x].menus, task[x].security>> \in crawled

Provenance ==
    /\ WholeRows
    /\ \A e \in Emails : Sound(snapshots[e])
    /\ \A f \in Flights : Sound(task[f].cached) /\ Graceful(task[f])

LEMMA SoundNulls ==
    /\ ~Granting(NoSnapshot) /\ ~NoSnapshot.stale /\ Sound(NoSnapshot)
    /\ IdleTask.cached = NoSnapshot /\ IdleTask.result = NoSnapshot
    /\ IdleTask.pc = "idle" /\ Graceful(IdleTask)
  BY DEF NoSnapshot, Granting, Sound, IdleTask, Graceful

LEMMA ProvenanceInit == Init => Provenance
  <1> SUFFICES ASSUME Init PROVE Provenance
    OBVIOUS
  <1>1. /\ tenant.at = -1
        /\ \A x \in Tasks : task[x] = IdleTask
        /\ \A e \in Emails : snapshots[e] = NoSnapshot
        /\ \A f \in Flights : f \in Tasks
    BY DEF Init, NoTenant, Tasks
  <1>2. QED
    BY <1>1, SoundNulls DEF Provenance, WholeRows

\* No crawl is forgotten, so what was sound stays sound.
LEMMA CrawledGrows == [Next]_vars => crawled \subseteq crawled'
  <1> SUFFICES ASSUME [Next]_vars PROVE crawled \subseteq crawled'
    OBVIOUS
  <1>1. CASE UNCHANGED crawled
    BY <1>1
  <1>2. CASE UNCHANGED vars \/ Environment
    BY <1>1, <1>2 DEF vars, ghosts, Environment, Tick, ChangeRows, PublishMap, ChangeIdentity
  <1>3. ASSUME NEW f \in Flights, BuildStep(f) PROVE crawled \subseteq crawled'
    BY <1>1, <1>3
       DEF ghosts, BuildStep, BeginBuild, EpicorReadsUser, UseIdentity, EnterLock,
           EpicorReadsMenus, EpicorReadsSecurity, FinishCrawl, FailFetch, Release
  <1>4. ASSUME NEW x \in Admins, RefreshStep(x) \/ RefreshTenant(x)
        PROVE  crawled \subseteq crawled'
    BY <1>1, <1>4
       DEF ghosts, RefreshStep, RefreshTenant, EnterLock, EpicorReadsMenus,
           EpicorReadsSecurity, FinishRefresh, FailRefresh
  <1>5. ASSUME NEW c \in Callers, CallerStep(c) PROVE crawled \subseteq crawled'
    BY <1>1, <1>5
       DEF ghosts, CallerStep, Ensure, ServeCached, JoinFlight, StartFlight, Answer,
           Return, Abandon
  <1>6. QED
    BY <1>1, <1>2, <1>3, <1>4, <1>5 DEF Next, Evict, EvictAll

LEMMA SoundStays ==
    ASSUME crawled \subseteq crawled', NEW s, Sound(s)
    PROVE  Sound(s)'
  BY DEF Sound, Granting

\* A live answer is worked out now, from rows that one crawl read.
LEMMA ComputedSound ==
    ASSUME NEW user, NEW menus, NEW security, NEW loaded,
           user.kind = "scoped" => <<menus, security>> \in crawled
    PROVE  LET s == ComputeSnapshot(user, menus, security, loaded) IN
           Sound(s) /\ ~s.stale /\ s.computed = clock
  BY DEF ComputeSnapshot, Sound, Granting

\* A fetch failure keeps the stamps of what it serves.
LEMMA FailureSound ==
    ASSUME NEW cached \in Snapshot, NEW now, Sound(cached)
    PROVE  LET s == FetchFailure(cached, now) IN
           /\ Sound(s)
           /\ Granting(s) => s.stale /\ now - s.computed <= Grace
           /\ s.stale => Granting(s)
  BY DEF FetchFailure, Sound, Snapshot, Granting

\* How a step leaves a build: alone, forgotten, made, further on, or over.
LEMMA ProvenanceBuild ==
    ASSUME Shape, Provenance, crawled \subseteq crawled', NEW f \in Flights,
           \/ task'[f] = task[f]
           \/ task'[f].cached = NoSnapshot /\ task'[f].result = NoSnapshot
           \/ /\ task'[f].cached = task[f].cached /\ task'[f].result = task[f].result
              /\ task'[f].now = task[f].now
              /\ task'[f].pc \in {"done", "released"} \/ task[f].pc \notin {"done", "released"}
           \/ /\ task[f].pc = "made" /\ \E e \in Emails : task'[f].cached = snapshots[e]
              /\ task'[f].result = task[f].result
    PROVE  (Sound(task[f].cached) /\ Graceful(task[f]))'
  <1>1. Sound(task[f].cached) /\ Graceful(task[f]) /\ \A e \in Emails : Sound(snapshots[e])
    BY DEF Provenance
  <1>2. Sound(task[f].cached)'
    <2>1. Sound(task'[f].cached)
      BY <1>1, SoundNulls
    <2>2. QED
      BY <2>1, SoundStays DEF Sound, Granting
  <1>3. Graceful(task'[f])
    BY <1>1, SoundNulls DEF Graceful
  <1>4. QED
    BY <1>2, <1>3 DEF Graceful, Granting

\* The end of a build writes what it answers, or nothing, into the cache.
LEMMA ProvenanceCache ==
    ASSUME Shape, Provenance, NEW f \in Flights, NEW snap, task[f].pc # "idle",
           CacheSnapshot(f, snap), UNCHANGED crawled, WholeRows', Sound(snap),
           snap.stale => Granting(snap),
           Granting(snap) =>
               task[f].now - snap.computed <= IF snap.stale THEN Grace ELSE 0
    PROVE  Provenance'
  <1>1. /\ f \in Tasks /\ task \in [Tasks -> Task] /\ snapshots \in [Emails -> Snapshot]
        /\ \A g \in Flights : g \in Tasks
    BY DEF Shape, TypeOK, Tasks
  <1>2. /\ \A g \in Flights : g # f => task'[g] = task[g]
        /\ task'[f].pc = "done" /\ task'[f].now = task[f].now
        /\ task'[f].result = snap /\ task'[f].cached = NoSnapshot
        /\ \A e \in Emails : snapshots'[e] \in {snapshots[e], snap}
    BY <1>1 DEF CacheSnapshot, IdleTask
  <1>3. \A s : Sound(s) => Sound(s)'
    BY DEF Sound, Granting
  <1>4. \A e \in Emails : Sound(snapshots[e])'
    <2>1. \A e \in Emails : Sound(snapshots'[e])
      BY <1>2 DEF Provenance
    <2>2. QED
      BY <2>1 DEF Sound, Granting
  <1>5. Sound(task'[f].cached) /\ Graceful(task'[f])
    BY <1>2, SoundNulls DEF Graceful
  <1>6. \A g \in Flights : Sound(task'[g].cached) /\ Graceful(task'[g])
    BY <1>2, <1>5 DEF Provenance
  <1>7. \A g \in Flights : (Sound(task[g].cached) /\ Graceful(task[g]))'
    BY <1>6 DEF Sound, Graceful, Granting
  <1>8. QED
    BY <1>4, <1>7 DEF Provenance

LEMMA ProvenanceBuildStep ==
    ASSUME Shape, RowsInv, Provenance, NEW f \in Flights, BuildStep(f)
    PROVE  Provenance'
  <1>0. /\ f \in Tasks /\ task \in [Tasks -> Task] /\ task[f] \in Task
        /\ task[f].cached \in Snapshot /\ task[f].now \in Nat /\ clock \in Nat
        /\ task[f].now <= clock /\ Sound(task[f].cached) /\ WholeRows
        /\ \A g \in Flights : g \in Tasks
    BY RowsTypes DEF RowsInv, Stored, Crawled, Provenance
  <1>a. crawled \subseteq crawled'
    BY CrawledGrows DEF Next
  <1>1. ASSUME NEW user, NEW menus, NEW security, NEW loaded,
               user.kind = "scoped" => <<menus, security>> \in crawled,
               CacheSnapshot(f, ComputeSnapshot(user, menus, security, loaded)),
               task[f].pc # "idle", UNCHANGED crawled, WholeRows'
        PROVE  Provenance'
    <2>1. LET s == ComputeSnapshot(user, menus, security, loaded) IN
          Sound(s) /\ ~s.stale /\ s.computed = clock
      BY <1>1, ComputedSound
    <2>2. QED
      BY <1>0, <1>1, <2>1, ProvenanceCache
  <1>2. ASSUME UNCHANGED snapshots, WholeRows',
               \A g \in Flights : g # f => task'[g] = task[g],
               (Sound(task[f].cached) /\ Graceful(task[f]))'
        PROVE  Provenance'
    <2>1. \A e \in Emails : Sound(snapshots[e])'
      BY <1>a, <1>2, SoundStays DEF Provenance
    <2>2. \A g \in Flights : (Sound(task[g].cached) /\ Graceful(task[g]))'
      BY <1>a, <1>2, ProvenanceBuild
    <2>3. QED
      BY <1>2, <2>1, <2>2 DEF Provenance
  <1>3. CASE BeginBuild(f)
    <2>1. /\ UNCHANGED <<snapshots, tenant, crawled>> /\ task[f].pc = "made"
          /\ task[f].email \in Emails
          /\ \A x \in Tasks : x # f => task'[x] = task[x]
          /\ task'[f].pc = "user" /\ task'[f].result = task[f].result
          /\ task'[f].cached = snapshots[task[f].email]
      BY <1>0, <1>3 DEF BeginBuild, cache, crawl, ghosts, Task, Shape, TaskOK
    <2>2. QED
      BY <1>0, <1>a, <1>2, <2>1, ProvenanceBuild DEF WholeRows
  <1>4. CASE EpicorReadsUser(f) \/ EpicorReadsMenus(f)
    <2>1. /\ UNCHANGED <<snapshots, tenant, crawled>>
          /\ task[f].pc \in {"user", "menus"}
          /\ \A x \in Tasks : x # f => task'[x] = task[x]
          /\ task'[f].pc \in {"identity", "security"} /\ task'[f].result = task[f].result
          /\ task'[f].cached = task[f].cached /\ task'[f].now = task[f].now
      BY <1>0, <1>4 DEF EpicorReadsUser, EpicorReadsMenus, cache, crawl, ghosts, Task
    <2>2. QED
      BY <1>0, <1>a, <1>2, <2>1, ProvenanceBuild DEF WholeRows
  <1>5. CASE EpicorReadsSecurity(f)
    <2>1. /\ UNCHANGED <<snapshots, tenant>> /\ task[f].pc = "security"
          /\ crawled' = crawled \cup {<<task[f].menus, rows>>}
          /\ \A x \in Tasks : x # f => task'[x] = task[x]
          /\ task'[f].pc = "rows" /\ task'[f].result = task[f].result
          /\ task'[f].menus = task[f].menus /\ task'[f].security = rows
          /\ task'[f].cached = task[f].cached /\ task'[f].now = task[f].now
      BY <1>0, <1>5 DEF EpicorReadsSecurity, cache, crawl, Task
    <2>2. WholeRows'
      BY <1>0, <2>1 DEF WholeRows
    <2>3. QED
      BY <1>0, <1>a, <1>2, <2>1, <2>2, ProvenanceBuild
  <1>6. CASE UseIdentity(f) \/ EnterLock(f)
    <2>0. /\ task[f].pc \in {"identity", "lock"} /\ UNCHANGED <<tenant, crawled>>
          /\ TenantFresh(task[f].now) => <<tenant.menus, tenant.security>> \in crawled
      <3>1. task[f].pc \in {"identity", "lock"} /\ UNCHANGED crawled
        BY <1>6 DEF UseIdentity, EnterLock, ghosts
      <3>2. UNCHANGED tenant
        <4>1. CASE UseIdentity(f)
          BY <4>1, RowsUseIdentity
        <4>2. CASE EnterLock(f)
          BY <1>0, <4>2, RowsEnter
        <4>3. QED
          BY <1>6, <4>1, <4>2
      <3>3. QED
        BY <1>0, <3>1, <3>2 DEF WholeRows, TenantFresh
    <2>1. CASE \E user, menus, security, loaded :
                  /\ user.kind = "scoped" => <<menus, security>> \in crawled
                  /\ CacheSnapshot(f, ComputeSnapshot(user, menus, security, loaded))
      <3>1. WholeRows'
        BY <1>0, <2>0, <2>1, CachedTask DEF WholeRows
      <3>2. QED
        BY <1>1, <2>0, <2>1, <3>1
    <2>2. CASE task' \in {[task EXCEPT ![f].pc = "lock"],
                          [task EXCEPT ![f] = [task[f] EXCEPT !.pc = "menus"]]}
               /\ UNCHANGED cache
      <3>1. /\ UNCHANGED snapshots
            /\ \A x \in Tasks : x # f => task'[x] = task[x]
            /\ task'[f].pc \in {"lock", "menus"} /\ task'[f].result = task[f].result
            /\ task'[f].cached = task[f].cached /\ task'[f].now = task[f].now
        BY <1>0, <2>2 DEF cache, Task
      <3>2. QED
        BY <1>0, <1>a, <1>2, <2>0, <3>1, ProvenanceBuild DEF WholeRows
    <2>3. QED
      BY <1>6, <2>0, <2>1, <2>2 DEF UseIdentity, EnterLock, StartCrawl
  <1>7. CASE FinishCrawl(f)
    <2>1. /\ task[f].pc = "rows" /\ <<task[f].menus, task[f].security>> \in crawled
          /\ tenant' = [menus |-> task[f].menus, security |-> task[f].security,
                        at |-> task[f].now]
          /\ CacheSnapshot(f, ComputeSnapshot(task[f].user, task[f].menus,
                                              task[f].security, mapLoaded))
          /\ UNCHANGED crawled
      BY <1>0, <1>7 DEF FinishCrawl, StoreTenant, WholeRows, ghosts
    <2>2. WholeRows'
      BY <1>0, <2>1, CachedTask DEF WholeRows
    <2>3. QED
      BY <1>1, <2>1, <2>2
  <1>8. CASE FailFetch(f)
    <2>1. /\ task[f].pc \in {"user", "menus", "security"} /\ UNCHANGED <<tenant, crawled>>
          /\ CacheSnapshot(f, FetchFailure(task[f].cached, task[f].now))
      BY <1>8 DEF FailFetch, ghosts
    <2>2. WholeRows'
      BY <1>0, <2>1, CachedTask DEF WholeRows
    <2>3. QED
      BY <1>0, <2>1, <2>2, FailureSound, ProvenanceCache
  <1>9. CASE Release(f)
    <2>1. /\ UNCHANGED <<snapshots, tenant, crawled>> /\ task[f].pc = "done"
          /\ \A x \in Tasks : x # f => task'[x] = task[x]
          /\ task'[f] \in {IdleTask, [task[f] EXCEPT !.pc = "released"]}
      BY <1>0, <1>9 DEF Release, AfterCallbacks, crawl, ghosts
    <2>2. \/ task'[f].cached = NoSnapshot /\ task'[f].result = NoSnapshot
          \/ /\ task'[f].cached = task[f].cached /\ task'[f].result = task[f].result
             /\ task'[f].now = task[f].now /\ task'[f].pc = "released"
      BY <1>0, <2>1, SoundNulls DEF Task
    <2>3. task'[f].pc # "rows"
      BY <1>0, <2>1, SoundNulls DEF Task
    <2>4. QED
      BY <1>0, <1>a, <1>2, <2>1, <2>2, <2>3, ProvenanceBuild DEF WholeRows
  <1>10. QED
    BY <1>3, <1>4, <1>5, <1>6, <1>7, <1>8, <1>9 DEF BuildStep

LEMMA ProvenanceRefresh ==
    ASSUME Shape, Provenance, NEW x \in Admins, RefreshStep(x) \/ RefreshTenant(x)
    PROVE  Provenance'
  <1>0. /\ x \in Tasks /\ x \notin Flights /\ task \in [Tasks -> Task] /\ task[x] \in Task
        /\ WholeRows /\ \A f \in Flights : f \in Tasks /\ f # x
    BY NamesAssumption DEF Tasks, Shape, TypeOK, Provenance
  <1>a. crawled \subseteq crawled'
    BY CrawledGrows DEF Next
  <1>1. \A y \in Tasks : y # x => task'[y] = task[y]
    BY <1>0 DEF RefreshStep, RefreshTenant, EnterLock, StartCrawl, EpicorReadsMenus,
           EpicorReadsSecurity, FinishRefresh, FailRefresh
  <1>2. \A f \in Flights : (Sound(task[f].cached) /\ Graceful(task[f]))'
    BY <1>0, <1>a, <1>1, ProvenanceBuild
  <1>3. \A e \in Emails : Sound(snapshots[e])'
    <2>1. UNCHANGED snapshots \/ \A e \in Emails : snapshots'[e] = NoSnapshot
      BY <1>0 DEF RefreshStep, RefreshTenant, EnterLock, StartCrawl, EpicorReadsMenus,
             EpicorReadsSecurity, FinishRefresh, FailRefresh, DropAll, cache
    <2>2. \A e \in Emails : Sound(snapshots'[e])
      BY <2>1, SoundNulls DEF Provenance
    <2>3. QED
      BY <1>a, <2>2 DEF Sound, Granting
  <1>4. WholeRows'
    <2>1. CASE EpicorReadsSecurity(x)
      <3>1. /\ UNCHANGED tenant
            /\ crawled' = crawled \cup {<<task[x].menus, rows>>}
            /\ task'[x].menus = task[x].menus /\ task'[x].security = rows
        BY <1>0, <2>1 DEF EpicorReadsSecurity, crawl, Task
      <3>2. QED
        BY <1>0, <1>1, <3>1 DEF WholeRows
    <2>2. CASE FinishRefresh(x)
      <3>1. /\ task[x].pc = "rows" /\ UNCHANGED crawled
            /\ tenant' = [menus |-> task[x].menus, security |-> task[x].security,
                          at |-> task[x].now]
            /\ task'[x].pc = "idle"
        BY <1>0, <2>2, SoundNulls DEF FinishRefresh, StoreTenant
      <3>2. QED
        BY <1>0, <1>1, <3>1 DEF WholeRows
    <2>3. CASE ~EpicorReadsSecurity(x) /\ ~FinishRefresh(x)
      <3>1. UNCHANGED <<tenant, crawled>>
        BY <1>0, <2>3
           DEF RefreshStep, RefreshTenant, EnterLock, StartCrawl, EpicorReadsMenus,
               FailRefresh, crawl, ghosts
      <3>2. \E t \in Task : \E pc \in {"idle", "lock", "menus", "security"} :
               task'[x] = [t EXCEPT !.pc = pc] \/ task'[x] = IdleTask
                 \/ \E m : task'[x] = [t EXCEPT !.pc = pc, !.menus = m]
        <4>1. CASE EnterLock(x)
          BY <1>0, <4>1 DEF EnterLock, StartCrawl
        <4>2. CASE RefreshTenant(x)
          <5>1. [IdleTask EXCEPT !.pc = "lock", !.now = clock] \in Task
            BY NullTypes DEF Shape, TypeOK, Task, Pc
          <5>2. PICK t \in Task :
                    /\ t.pc = "lock"
                    /\ \/ task' = [task EXCEPT ![x] = t]
                       \/ task' = [task EXCEPT ![x] = [t EXCEPT !.pc = "menus"]]
            BY <4>2, <5>1 DEF RefreshTenant, StartCrawl, IdleTask
          <5>3. t = [t EXCEPT !.pc = "lock"]
            BY <5>2 DEF Task
          <5>4. QED
            BY <1>0, <5>2, <5>3
        <4>3. CASE EpicorReadsMenus(x) \/ FailRefresh(x)
          BY <1>0, <4>3, NullTypes DEF EpicorReadsMenus, FailRefresh
        <4>4. QED
          BY <2>3, <4>1, <4>2, <4>3 DEF RefreshStep
      <3>3. task'[x].pc # "rows"
        BY <3>2, SoundNulls DEF Task
      <3>4. QED
        BY <1>0, <1>1, <3>1, <3>3 DEF WholeRows
    <2>4. QED
      BY <2>1, <2>2, <2>3
  <1>5. QED
    BY <1>2, <1>3, <1>4 DEF Provenance

LEMMA ProvenanceCaller ==
    ASSUME Shape, Provenance, NEW c \in Callers, CallerStep(c)
    PROVE  Provenance'
  <1>0. /\ task \in [Tasks -> Task] /\ WholeRows
        /\ \A f \in Flights : f \in Tasks /\ task[f] \in Task
    BY DEF Tasks, Shape, TypeOK, Provenance
  <1>a. crawled \subseteq crawled'
    BY CrawledGrows DEF Next
  <1>1. UNCHANGED <<snapshots, tenant, crawled>>
    BY DEF CallerStep, Ensure, ServeCached, JoinFlight, StartFlight, Answer, Return,
           Abandon, cache, crawl, ghosts
  <1> DEFINE Blank(t) == t.pc # "rows" /\ t.cached = NoSnapshot /\ t.result = NoSnapshot
  <1>2. \A x \in Tasks : task'[x] = task[x] \/ Blank(task'[x])
    <2>0. Blank(IdleTask)
      BY SoundNulls
    <2>1. ASSUME NEW e \in Emails, StartFlight(c, e), NEW x \in Tasks, task'[x] # task[x]
          PROVE  Blank(task'[x])
      <3>1. task'[x] = [IdleTask EXCEPT !.pc = "made", !.email = e, !.gen = generation]
        BY <1>0, <2>1 DEF StartFlight
      <3>2. QED
        BY <3>1, SoundNulls DEF IdleTask
    <2>2. ASSUME Answer(c) \/ Abandon(c), NEW x \in Tasks, task'[x] # task[x]
          PROVE  task'[x] = IdleTask
      <3> DEFINE f == caller[c].flight
      <3>1. f \in Flights /\ task[f] \in Task
        BY <1>0, <2>2 DEF Answer, Abandon, Shape, TypeOK, Caller
      <3>2. /\ task[f].pc = "released"
            /\ \E waiting : task' = [task EXCEPT ![f] = AfterCallbacks(f, waiting)]
        BY <1>0, <2>2 DEF Answer, Abandon
      <3> HIDE DEF f
      <3>3. x = f /\ task'[x] \in {IdleTask, [task[f] EXCEPT !.pc = "released"]}
        BY <1>0, <2>2, <3>1, <3>2 DEF AfterCallbacks
      <3>4. [task[f] EXCEPT !.pc = "released"] = task[f]
        BY <3>1, <3>2 DEF Task
      <3>5. QED
        BY <2>2, <3>3, <3>4
    <2> HIDE DEF Blank
    <2>3. ASSUME UNCHANGED task PROVE \A x \in Tasks : task'[x] = task[x]
      BY <2>3
    <2>4. QED
      BY <2>0, <2>1, <2>2, <2>3 DEF CallerStep, Ensure, ServeCached, JoinFlight, Return
  <1>3. ASSUME NEW g \in Flights
        PROVE  (Sound(task[g].cached) /\ Graceful(task[g]))'
    BY <1>0, <1>a, <1>2, <1>3, ProvenanceBuild
  <1>5. WholeRows'
    BY <1>0, <1>1, <1>2 DEF WholeRows
  <1>6. \A e \in Emails : Sound(snapshots[e])'
    BY <1>a, <1>1, SoundStays DEF Provenance
  <1>7. QED
    BY <1>3, <1>5, <1>6 DEF Provenance

\* A step that leaves the tasks and the rows alone, and may drop snapshots.
LEMMA ProvenanceFrame ==
    ASSUME Shape, Provenance, UNCHANGED <<task, tenant, crawled>>,
           \A e \in Emails : snapshots'[e] \in {snapshots[e], NoSnapshot}
    PROVE  Provenance'
  <1>1. WholeRows'
    BY DEF Provenance, WholeRows
  <1>2. \A f \in Flights : (Sound(task[f].cached) /\ Graceful(task[f]))'
    BY ProvenanceBuild
  <1>3. \A e \in Emails : Sound(snapshots'[e])
    BY SoundNulls DEF Provenance
  <1>4. \A e \in Emails : Sound(snapshots[e])'
    BY <1>3 DEF Sound, Granting
  <1>5. QED
    BY <1>1, <1>2, <1>4 DEF Provenance

LEMMA ProvenanceStep == Shape /\ RowsInv /\ Provenance /\ [Next]_vars => Provenance'
  <1> SUFFICES ASSUME Shape, RowsInv, Provenance, [Next]_vars PROVE Provenance'
    OBVIOUS
  <1>0. snapshots \in [Emails -> Snapshot]
    BY DEF Shape, TypeOK
  <1>1. CASE UNCHANGED vars \/ Environment
    <2>1. UNCHANGED <<task, tenant, crawled, snapshots>>
      BY <1>1 DEF vars, cache, crawl, ghosts, Environment, Tick, ChangeRows, PublishMap,
                  ChangeIdentity
    <2>2. QED
      BY <2>1, ProvenanceFrame
  <1>2. CASE EvictAll \/ \E e \in Emails : Evict(e)
    <2>1. /\ UNCHANGED <<task, tenant, crawled>>
          /\ \A e \in Emails : snapshots'[e] \in {snapshots[e], NoSnapshot}
      BY <1>0, <1>2 DEF EvictAll, DropAll, Evict, crawl
    <2>2. QED
      BY <2>1, ProvenanceFrame
  <1>3. CASE \E f \in Flights : BuildStep(f)
    BY <1>3, ProvenanceBuildStep
  <1>4. CASE \E x \in Admins : RefreshStep(x) \/ RefreshTenant(x)
    BY <1>4, ProvenanceRefresh
  <1>5. CASE \E c \in Callers : CallerStep(c)
    BY <1>5, ProvenanceCaller
  <1>6. QED
    BY <1>1, <1>2, <1>3, <1>4, <1>5 DEF Next

LEMMA ProvenanceInductive == Spec => [](Shape /\ Provenance)
  BY ShapeInit, ShapeStep, RowsInit, RowsStep, ProvenanceInit, ProvenanceStep, PTL DEF Spec

(* The rows the tenant holds, and the rows a cached grant was computed     *)
(* from, are always a pair that one crawl read in one hold of the lock.    *)
THEOREM RowsAreOneCrawls == Spec => []TenantPair
  <1>1. Provenance => TenantPair
    BY DEF Provenance, WholeRows, Sound, TenantPair
  <1>2. QED
    BY <1>1, ProvenanceInductive, PTL

(* However often an outage is retried, served and cached again, the cache  *)
(* answers with no grant worked out longer ago than the TTL, and a failing *)
(* build with none worked out longer ago than the grace.                   *)
THEOREM GraceIsBounded == Spec => []GraceBound
  <1>1. ASSUME Provenance PROVE GraceBound
    <2>1. ASSUME NEW e \in Emails, Hit(e), Granting(snapshots[e])
          PROVE  clock - snapshots[e].computed <= TTL
      BY <1>1, <2>1 DEF Provenance, Sound, Hit, Fresh
    <2>2. QED
      BY <1>1, <2>1 DEF Provenance, Graceful, GraceBound
  <1>2. QED
    BY <1>1, ProvenanceInductive, PTL

-----------------------------------------------------------------------------
(* The table scopes.  A step of TableScope is one of MenuAuthz that also   *)
(* may pin or drop scopes, so all of the above holds of it.                *)

LEMMA GateIsCaller ==
    ASSUME NEW c \in Gates, GateStep(c)
    PROVE  (c \in Callers /\ CallerStep(c)) \/ UNCHANGED vars
  BY GatesAssumption DEF GateStep, ScopeHit, ScopeFor, ProjectScope, ScopeTimeout,
     CallerStep, scopeVars

LEMMA ScopeStepIsStep ==
    ASSUME [ScopeNext]_scopeVars
    PROVE  [Next]_vars
  <1>1. ASSUME NEW x \in Admins, (RefreshTenant(x) /\ UNCHANGED pins) \/ RefreshProgress(x)
        PROVE  RefreshStep(x) \/ RefreshTenant(x)
    BY <1>1 DEF RefreshProgress, AdminRefreshed, RefreshStep
  <1>2. ASSUME NEW c \in Gates, GateStep(c)
        PROVE  [Next]_vars
    BY <1>2, GateIsCaller DEF Next
  <1>3. ASSUME NEW e \in Emails, AdminEvict(e)
        PROVE  Evict(e)
    BY <1>3 DEF AdminEvict
  <1>4. AdminReload => EvictAll
    BY DEF AdminReload
  <1>5. CASE UNCHANGED scopeVars
    BY <1>5 DEF scopeVars
  <1>6. CASE ScopeNext
    BY <1>1, <1>2, <1>3, <1>4, <1>6 DEF ScopeNext, Next
  <1>7. QED
    BY <1>5, <1>6

(* The gates of discovery/authz.py and the admin endpoints use the cache   *)
(* as its other callers and admins do.                                     *)
THEOREM ScopesUseTheCache == ScopeSpec => Spec
  <1>1. ScopeInit => Init
    BY DEF ScopeInit
  <1>2. [ScopeNext]_scopeVars => [Next]_vars
    BY ScopeStepIsStep
  <1>3. QED
    BY <1>1, <1>2, PTL DEF ScopeSpec, Spec

\* What a step does to the pins: an eviction drops them, a gate's call makes
\* one of its answer, and nothing else touches them or is an eviction.
LEMMA PinsMove ==
    ASSUME [ScopeNext]_scopeVars
    PROVE  \/ UNCHANGED <<pinned, late, evicted>>
           \/ pinned' = [e \in Emails |-> NoSnapshot] /\ late' = {}
           \/ \E e \in Emails :
                /\ pinned' = [pinned EXCEPT ![e] = NoSnapshot]
                /\ late' = late \ {e}
                /\ \E v : evicted' = [evicted EXCEPT ![e] = v]
           \/ \E c \in Gates :
                /\ caller[c].email \in Emails /\ caller[c].flight = None
                /\ Granting(caller[c].answer)
                /\ pinned' = [pinned EXCEPT ![caller[c].email] = caller[c].answer]
                /\ late' = IF caller[c].floor < evicted[caller[c].email].user
                           THEN late \cup {caller[c].email} ELSE late \ {caller[c].email}
                /\ UNCHANGED evicted
  <1>1. ASSUME NEW c \in Gates, GateStep(c), ~UNCHANGED <<pinned, late, evicted>>
        PROVE  /\ caller[c].email \in Emails /\ caller[c].flight = None
               /\ Granting(caller[c].answer)
               /\ pinned' = [pinned EXCEPT ![caller[c].email] = caller[c].answer]
               /\ late' = IF caller[c].floor < evicted[caller[c].email].user
                          THEN late \cup {caller[c].email} ELSE late \ {caller[c].email}
               /\ UNCHANGED evicted
    BY <1>1 DEF GateStep, ScopeHit, ScopeFor, ProjectScope, ScopeTimeout, Return, Ensure,
                ServeCached, JoinFlight, StartFlight, Answer, Abandon, scopeVars, vars, pins,
                ghosts
  <1>2. CASE UNCHANGED scopeVars
    BY <1>2 DEF scopeVars, pins, vars, ghosts
  <1>3. ASSUME NEW f \in Flights, BuildStep(f), UNCHANGED pins
        PROVE  UNCHANGED <<pinned, late, evicted>>
    BY <1>3 DEF pins, ghosts, BuildStep, BeginBuild, EpicorReadsUser, UseIdentity, EnterLock,
                EpicorReadsMenus, EpicorReadsSecurity, FinishCrawl, FailFetch, Release
  <1>4. ASSUME NEW c \in Callers, CallerStep(c), UNCHANGED pins
        PROVE  UNCHANGED <<pinned, late, evicted>>
    BY <1>4 DEF pins, ghosts, CallerStep, Ensure, ServeCached, JoinFlight, StartFlight,
                Answer, Return, Abandon
  <1>5. CASE Environment /\ UNCHANGED pins
    BY <1>5 DEF pins, ghosts, Environment, Tick, ChangeRows, PublishMap, ChangeIdentity
  <1>6. ASSUME NEW x \in Admins, (RefreshTenant(x) /\ UNCHANGED pins) \/ RefreshProgress(x)
        PROVE  \/ UNCHANGED <<pinned, late, evicted>>
               \/ pinned' = [e \in Emails |-> NoSnapshot] /\ late' = {}
    BY <1>6 DEF pins, ghosts, RefreshTenant, RefreshProgress, AdminRefreshed, DropPins,
                EnterLock, EpicorReadsMenus, EpicorReadsSecurity, FailRefresh
  <1>7. ASSUME NEW e \in Emails, AdminEvict(e)
        PROVE  /\ pinned' = [pinned EXCEPT ![e] = NoSnapshot]
               /\ late' = late \ {e}
               /\ \E v : evicted' = [evicted EXCEPT ![e] = v]
    BY <1>7 DEF AdminEvict, Evict
  <1>8. CASE AdminReload
    BY <1>8 DEF AdminReload, DropPins
  <1>9. CASE ScopeNext
    BY <1>1, <1>3, <1>4, <1>5, <1>6, <1>7, <1>8, <1>9 DEF ScopeNext
  <1>10. QED
    BY <1>2, <1>9

\* A gate with an answer in hand asked about an e-mail, and pins a snapshot.
LEMMA ScopeTypeStep ==
    ASSUME ScopeTypeOK, TypeOK', [ScopeNext]_scopeVars
    PROVE  ScopeTypeOK'
  <1>1. \A c \in Gates : caller[c].answer \in Snapshot
    BY GatesAssumption DEF ScopeTypeOK, TypeOK, Caller
  <1>2. /\ pinned' \in [Emails -> {s \in Snapshot : Granting(s) \/ s = NoSnapshot}]
        /\ late' \subseteq Emails
    BY <1>1, PinsMove, NullTypes DEF ScopeTypeOK, Granting
  <1>3. QED
    BY <1>2 DEF ScopeTypeOK, Granting

(* Only grants are ever pinned (authz.py:252-263): neither a failure nor a *)
(* refusal lasts for the life of the process.                              *)
THEOREM ScopesAreTyped == ScopeSpec => []ScopeTypeOK
  <1>1. ScopeInit /\ TypeOK => ScopeTypeOK
    BY NullTypes DEF ScopeInit, ScopeTypeOK
  <1>2. ScopeTypeOK /\ TypeOK' /\ [ScopeNext]_scopeVars => ScopeTypeOK'
    BY ScopeTypeStep
  <1>3. QED
    BY <1>1, <1>2, ScopesUseTheCache, TypeCorrect, PTL DEF ScopeSpec

LEMMA PinStep ==
    ASSUME ScopeTypeOK, AnswerAfterEviction, PinFollowsEviction, [ScopeNext]_scopeVars
    PROVE  PinFollowsEviction'
  <1> SUFFICES ASSUME NEW e \in Emails, pinned'[e] # NoSnapshot, e \notin late'
               PROVE  pinned'[e].user >= evicted'[e].user
    BY DEF PinFollowsEviction
  <1>0. /\ pinned \in [Emails -> Snapshot]
        /\ evicted \in [Emails -> [user : Nat, rows : Nat]]
    BY DEF ScopeTypeOK, TypeOK
  <1>1. CASE UNCHANGED <<pinned, late, evicted>>
    BY <1>1 DEF PinFollowsEviction
  <1>2. CASE pinned' = [d \in Emails |-> NoSnapshot]
    BY <1>2
  <1>3. ASSUME NEW d \in Emails, pinned' = [pinned EXCEPT ![d] = NoSnapshot],
               late' = late \ {d}, NEW v, evicted' = [evicted EXCEPT ![d] = v]
        PROVE  pinned'[e].user >= evicted'[e].user
    BY <1>0, <1>3 DEF PinFollowsEviction
  <1>4. ASSUME NEW c \in Gates, caller[c].flight = None, Granting(caller[c].answer),
               pinned' = [pinned EXCEPT ![caller[c].email] = caller[c].answer],
               late' = IF caller[c].floor < evicted[caller[c].email].user
                       THEN late \cup {caller[c].email} ELSE late \ {caller[c].email},
               UNCHANGED evicted
        PROVE  pinned'[e].user >= evicted'[e].user
    <2>1. CASE caller[c].email = e
      <3>1. caller[c].answer.user >= caller[c].floor
        BY <1>4, GatesAssumption DEF AnswerAfterEviction, Answering, Granting, IdentityKind
      <3>2. /\ caller[c].floor \in Nat /\ caller[c].answer.user \in Nat
            /\ evicted[e].user \in Nat
        BY <1>0, GatesAssumption DEF ScopeTypeOK, TypeOK, Caller, Snapshot
      <3>3. caller[c].floor >= evicted[e].user
        BY <1>4, <2>1, <3>2
      <3>4. QED
        BY <1>0, <1>4, <2>1, <3>1, <3>2, <3>3
    <2>2. CASE caller[c].email # e
      BY <1>0, <1>4, <2>2 DEF PinFollowsEviction
    <2>3. QED
      BY <2>1, <2>2
  <1>5. QED
    BY <1>1, <1>2, <1>3, <1>4, PinsMove

(* An eviction takes a user's pinned scope with it, and only a call that   *)
(* was under way can pin one that is older, however many callers, builds   *)
(* and admins cross it.                                                    *)
THEOREM PinsFollowEvictions == ScopeSpec => []PinFollowsEviction
  <1>1. ScopeInit => PinFollowsEviction
    BY DEF ScopeInit, PinFollowsEviction
  <1>2. ScopeTypeOK /\ AnswerAfterEviction /\ PinFollowsEviction /\ [ScopeNext]_scopeVars
            => PinFollowsEviction'
    BY PinStep
  <1>3. QED
    BY <1>1, <1>2, ScopesUseTheCache, ScopesAreTyped, AnswersFollowEvictions, PTL
       DEF ScopeSpec
=============================================================================
