------------------------------ MODULE Governor ------------------------------
(***************************************************************************)
(* The cost governor of sql/governor.py (class CostGovernor) and the two   *)
(* paths that use it: run_sql in sql/adhoc.py, with the diagnostic probes  *)
(* of an empty result, and run_saved_baq in baq_ops/saved_run.py.          *)
(*                                                                         *)
(* A call is one tool call; its pc is what its coroutine awaits.  Time is  *)
(* counted in ages: a Tick makes everything older, and timers that are due *)
(* run before time goes on.                                                *)
(***************************************************************************)
EXTENDS Integers, Sequences, FiniteSets, SequencesExt

CONSTANTS
    Calls,          \* tool calls under way at a time; a name is used again
    Sessions,
    Kinds,          \* bound: "sql" (run_sql), "saved" (run_saved_baq)
    MaxInflight,    \* policy.max_inflight
    Timeout,        \* policy.execute_timeout_s
    ParseTimeout,   \* how long the steps before Execute can last
    Budget,         \* policy.session_budget_s
    Window,         \* policy.session_budget_window_s
    ProbeBudget     \* probe_budget

ASSUME PolicyAssumption ==
    /\ MaxInflight \in Nat \ {0} /\ Timeout \in Nat \ {0} /\ ParseTimeout \in Nat
    /\ Budget \in Nat \ {0} /\ Window \in Nat /\ ProbeBudget \in Nat
ASSUME CallsAssumption ==
    IsFiniteSet(Calls) /\ Sessions # {} /\ Kinds \subseteq {"sql", "saved"}

VARIABLES
    permits,        \* _sem: free permits
    waiters,        \* _sem: FIFO of waiting calls
    spend,          \* _spend: per session, the seconds recorded each age ago
    call            \* the local state of each call

vars == <<permits, waiters, spend, call>>

\* "reparse": run_sql has called itself with the statement rewritten.
Pc   == {"idle", "parse", "reparse", "wait", "execute", "diagnose", "probe"}
Call == [pc : Pc, kind : {"sql", "saved"}, session : Sessions, age : Nat,
         step : Nat, work : Nat, left : 0 .. ProbeBudget,
         end : {"none", "answered", "cancelled"}]

\* age: since the run or the diagnosis began; step: since this await began;
\* left: probes left; end: how an idle name's last call ended; work: a ghost,
\* the seconds Epicor executed for the call that are not yet recorded.
Idle == [pc |-> "idle", kind |-> "sql", session |-> CHOOSE s \in Sessions : TRUE,
         age |-> 0, step |-> 0, work |-> 0, left |-> 0, end |-> "none"]
Answered  == [Idle EXCEPT !.end = "answered"]
Cancelled == [Idle EXCEPT !.end = "cancelled"]

Parsing(c) == call[c].pc \in {"parse", "reparse"}
In(pc) == {c \in Calls : call[c].pc = pc}

\* The longest a call can be under way before Execute returns, and diagnosing.
MaxAge == ParseTimeout + Timeout * ((Cardinality(Calls) - 1) \div MaxInflight + 1)
MaxDiagnosis == 2 * Timeout * ProbeBudget
AgeBound == MaxAge + MaxDiagnosis + 1   \* bound: older calls count as this old

Init ==
    /\ permits = MaxInflight
    /\ waiters = <<>>
    /\ spend = [s \in Sessions |-> [a \in 0 .. Window |-> 0]]
    /\ call = [c \in Calls |-> Idle]

-----------------------------------------------------------------------------
\* The seconds recorded at each age, added up over the window.
Total(seconds) ==
    LET upto[a \in 0 .. Window] == seconds[a] + (IF a = 0 THEN 0 ELSE upto[a - 1])
    IN  upto[Window]

Spent(s) == Total(spend[s])

\* record: charge c's session with its age, and end c with next.
Record(c, next) ==
    /\ spend' = [spend EXCEPT ![call[c].session][0] = @ + call[c].age]
    /\ call' = [call EXCEPT ![c] = next]

\* End c with next, without a charge.
Forget(c, next) ==
    /\ call' = [call EXCEPT ![c] = next]
    /\ UNCHANGED spend

\* Mutant: the budget is not asked.
StartUnchecked(c, s, kind) ==
    /\ call[c].pc = "idle"
    /\ call' = [call EXCEPT ![c] = [Idle EXCEPT !.pc = "parse", !.session = s,
                                                !.kind = kind]]
    /\ UNCHANGED <<permits, waiters, spend>>

\* check_budget passes; a session without budget is refused at once.
Start(c, s, kind) ==
    /\ call[c].pc = "idle"
    /\ Spent(s) < Budget
    /\ call' = [call EXCEPT ![c] = [Idle EXCEPT !.pc = "parse", !.session = s,
                                                !.kind = kind]]
    /\ UNCHANGED <<permits, waiters, spend>>

\* run_sql's transpile, parse, deny-list, scope, lint and cost gates refuse
\* without a charge.
RefuseSql(c) ==
    /\ Parsing(c) /\ call[c].kind = "sql"
    /\ Forget(c, Answered)
    /\ UNCHANGED <<permits, waiters>>

\* _sort_wrapped: the sort keys are too long, and the statement re-enters the
\* pipe from the top, once and rewritten, with its time starting anew.
Reenter(c) ==
    /\ call[c].pc = "parse" /\ call[c].kind = "sql"
    /\ IF Spent(call[c].session) < Budget
       THEN /\ call' = [call EXCEPT ![c] = [Idle EXCEPT !.pc = "reparse",
                                                    !.session = call[c].session]]
            /\ UNCHANGED spend
       ELSE Forget(c, Answered)
    /\ UNCHANGED <<permits, waiters>>

\* run_saved_baq charges every exit, its refusals included.
RefuseSaved(c) ==
    /\ call[c].pc = "parse" /\ call[c].kind = "saved"
    /\ Record(c, Answered)
    /\ UNCHANGED <<permits, waiters>>

\* Mutant: a free permit is taken past the line.
AcquireBarging(c) ==
    /\ Parsing(c)
    /\ \/ /\ permits > 0
          /\ permits' = permits - 1
          /\ call' = [call EXCEPT ![c].pc = "execute", ![c].step = 0]
          /\ UNCHANGED waiters
       \/ /\ permits = 0
          /\ waiters' = Append(waiters, c)
          /\ call' = [call EXCEPT ![c].pc = "wait"]
          /\ UNCHANGED permits
    /\ UNCHANGED spend

\* async with inflight(): a free permit, or the end of the line.
Acquire(c) ==
    /\ Parsing(c)
    /\ \/ /\ permits > 0 /\ waiters = <<>>
          /\ permits' = permits - 1
          /\ call' = [call EXCEPT ![c].pc = "execute", ![c].step = 0]
          /\ UNCHANGED waiters
       \/ /\ permits = 0 \/ waiters # <<>>
          /\ waiters' = Append(waiters, c)
          /\ call' = [call EXCEPT ![c].pc = "wait"]
          /\ UNCHANGED permits
    /\ UNCHANGED spend

\* asyncio.Semaphore: a released permit goes to the first waiter.
Grant(c) ==
    /\ waiters # <<>> /\ Head(waiters) = c /\ permits > 0
    /\ waiters' = Tail(waiters)
    /\ permits' = permits - 1
    /\ call' = [call EXCEPT ![c].pc = "execute", ![c].step = 0]
    /\ UNCHANGED spend

\* Execute answers, fails, or times out: the slot is released and the run
\* charged.  An ad-hoc query that answered no row goes on to its diagnosis.
Execute(c) ==
    /\ call[c].pc = "execute"
    /\ permits' = permits + 1
    /\ \/ Record(c, Answered)
       \/ /\ call[c].kind = "sql" /\ ProbeBudget > 0 /\ call[c].step < Timeout
          /\ Record(c, [Idle EXCEPT !.pc = "diagnose", !.session = call[c].session,
                                    !.left = ProbeBudget])
    /\ UNCHANGED waiters

\* A probe is parsed and gated; then its Execute asks the governor nothing.
SendProbe(c) ==
    /\ call[c].pc = "diagnose" /\ call[c].left > 0
    /\ \E pc \in {"probe", "diagnose"} :
          call' = [call EXCEPT ![c].pc = pc, ![c].step = 0, ![c].left = @ - 1]
    /\ UNCHANGED <<permits, waiters, spend>>

ProbeReply(c) ==
    /\ call[c].pc = "probe"
    /\ call' = [call EXCEPT ![c].pc = "diagnose", ![c].step = 0]
    /\ UNCHANGED <<permits, waiters, spend>>

\* Mutant: probes are not charged.
DiagnosedFree(c) ==
    /\ call[c].pc = "diagnose"
    /\ Forget(c, Answered)
    /\ UNCHANGED <<permits, waiters>>

\* The verdict is in, after any number of probes: the diagnosis is charged.
Diagnosed(c) ==
    /\ call[c].pc = "diagnose"
    /\ Record(c, Answered)
    /\ UNCHANGED <<permits, waiters>>

\* Semaphore.acquire, cancelled: the call is taken out of the line.
LeaveLine(c) ==
    \/ call[c].pc # "wait" /\ UNCHANGED waiters
    \/ \E i \in DOMAIN waiters : waiters[i] = c /\ waiters' = RemoveAt(waiters, i)

\* Mutant: a cancelled execution keeps its slot.
CancelHolding(c) ==
    /\ call[c].pc # "idle"
    /\ LeaveLine(c)
    /\ Forget(c, Cancelled)
    /\ UNCHANGED permits

\* The client disconnects: async with gives the permit back; no record.
Cancel(c) ==
    /\ call[c].pc # "idle"
    /\ permits' = IF call[c].pc = "execute" THEN permits + 1 ELSE permits
    /\ LeaveLine(c)
    /\ Forget(c, Cancelled)

-----------------------------------------------------------------------------
\* A timer is due, or a permit is free for somebody: time waits for it.
Due ==
    \/ \E c \in In("parse") \cup In("reparse") : call[c].step >= ParseTimeout
    \/ \E c \in In("execute") \cup In("diagnose") \cup In("probe") :
          call[c].step >= Timeout
    \/ \E c \in In("diagnose") : call[c].left = 0
    \/ permits > 0 /\ waiters # <<>>

Aged(n) == IF n < AgeBound THEN n + 1 ELSE n

Older(c) ==
    IF call[c].pc = "idle" THEN call[c]
    ELSE [call[c] EXCEPT
            !.age = Aged(@),
            !.step = IF call[c].pc = "wait" THEN 0 ELSE Aged(@),
            !.work = IF call[c].pc \in {"execute", "probe"} THEN Aged(@) ELSE @]

\* Mutant: what has left the window is not pruned.
PrunedNever(s) == [a \in 0 .. Window |->
    (IF a > 0 THEN spend[s][a - 1] ELSE 0) + (IF a = Window THEN spend[s][a] ELSE 0)]

\* _prune: events older than the window are dropped.
Pruned(s) == [a \in 0 .. Window |-> IF a > 0 THEN spend[s][a - 1] ELSE 0]

Tick ==
    /\ ~Due
    /\ call' = [c \in Calls |-> Older(c)]
    /\ spend' = [s \in Sessions |-> Pruned(s)]
    /\ UNCHANGED <<permits, waiters>>

Progress(c) ==
    \/ RefuseSql(c)
    \/ Reenter(c)
    \/ RefuseSaved(c)
    \/ Acquire(c)
    \/ Grant(c)
    \/ Execute(c)
    \/ SendProbe(c)
    \/ ProbeReply(c)
    \/ Diagnosed(c)

Next ==
    \/ Tick
    \/ \E c \in Calls :
        \/ \E s \in Sessions, kind \in Kinds : Start(c, s, kind)
        \/ Progress(c)
        \/ Cancel(c)

Spec == Init /\ [][Next]_vars

\* Not infinitely many steps within one age.
NonZeno == []<><<Tick>>_vars \/ <>[][FALSE]_vars

\* The loop runs what is ready, wait_for's timers fire, and time passes.
FairSpec ==
    /\ Spec
    /\ WF_vars(Tick) /\ NonZeno
    /\ WF_vars(\E c \in Calls : Progress(c))

-----------------------------------------------------------------------------
TypeOK ==
    /\ permits \in 0 .. MaxInflight
    /\ waiters \in Seq(Calls)
    /\ spend \in [Sessions -> [0 .. Window -> Nat]]
    /\ call \in [Calls -> Call]

(* No slot is lost or made up: free permits and running executions add up  *)
(* to max_inflight, and the line holds every waiting call once, whatever   *)
(* times out or is cancelled while it waits or runs.                       *)
SlotsConserved ==
    /\ permits + Cardinality(In("execute")) = MaxInflight
    /\ ToSet(waiters) = In("wait")
    /\ IsInjective(waiters)

(* The line is first come, first served, so a call has its rows or its     *)
(* timeout within its own preparation and one timeout per round of the     *)
(* calls ahead of it.                                                      *)
BoundedWait ==
    /\ \A c \in In("wait") \cup In("execute") : call[c].age <= MaxAge
    /\ \A c \in In("diagnose") \cup In("probe") : call[c].age <= MaxDiagnosis

(* The budget is checked before and charged after, so calls under way when *)
(* it runs out overshoot it, but only those: what a session has spent in   *)
(* the window is its budget and at most what the calls in progress add.    *)
BoundedOvershoot ==
    \A s \in Sessions :
        Spent(s) < Budget + Cardinality(Calls) * (MaxAge + MaxDiagnosis)

(* Every second of Epicor execution, by a query, a saved BAQ or a probe,   *)
(* is charged when the call returns, however it ends ("the probes are real *)
(* work against production, so they are charged to the session budget like *)
(* any other Execute", adhoc.py:1282-1283); only a cancelled call is not.  *)
(* The Analyze requests after an Execute that reports errors (1060-1062,   *)
(* 1383-1421) execute nothing; they hold no slot, are never charged, and   *)
(* are left out here: QueryPipe counts them.                               *)
WorkIsCharged ==
    [][\A c \in Calls :
         LET s == call[c].session IN
         call[c].pc # "idle" /\ call'[c].end = "answered"
            => spend'[s][0] >= spend[s][0] + call[c].work]_vars

(* The budget rolls: a session that has none left has some again.          *)
BudgetRecovers == \A s \in Sessions : Spent(s) >= Budget ~> Spent(s) < Budget

(* "Concurrent Executes allowed per process" (governor.py:47): what Epicor *)
(* executes for this process at a time, probes included, is max_inflight.  *)
(* The code does not meet it: a probe holds no slot (adhoc.py:622).        *)
InflightCapped == Cardinality(In("execute") \cup In("probe")) <= MaxInflight
=============================================================================
