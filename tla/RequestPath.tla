---------------------------- MODULE RequestPath ----------------------------
(***************************************************************************)
(* What a request passes on its way to a tool and back: the bounded wait   *)
(* for the user's menu snapshot (server.py, _ensure_snapshot_safe) and the *)
(* circuit breaker of the audit hook (audit.py, audited_call_tool).        *)
(*                                                                         *)
(* The requests are those under one key: one user's calls of one tool, or, *)
(* in auth mode "none", everybody's, who share one session.  A coroutine   *)
(* runs alone between two awaits.  Time is counted in ages.  A request     *)
(* comes here when Admission serves it, and the names here are not those   *)
(* there, so that one module can speak of both.                            *)
(***************************************************************************)
EXTENDS Naturals, Sequences, FiniteSets

CONSTANTS
    Handler,        \* bound: coroutines of requests under way at a time
    Task,           \* bound: priming tasks that exist at a time
    NoTask,
    Threshold,      \* _CIRCUIT_THRESHOLD
    Window          \* _CIRCUIT_WINDOW_SECONDS

ASSUME RequestPathAssumption ==
    /\ IsFiniteSet(Handler) /\ NoTask \notin Task
    /\ Threshold \in Nat \ {0} /\ Window \in Nat

VARIABLES
    stage,          \* where each request is
    task,           \* priming tasks: a done one's callback has yet to run
    registered,     \* _snapshot_tasks[email]
    crossed,        \* a ghost: a callback has removed a newer task's entry
    failures        \* the deque of _circuit_failures: the failures' ages

pathVars == <<stage, task, registered, crossed, failures>>

PathTypeOK ==
    /\ stage \in [Handler -> {"idle", "priming", "primed", "tool"}]
    /\ task \in [Task -> {"none", "running", "done"}]
    /\ registered \in Task \cup {NoTask}
    /\ crossed \in BOOLEAN
    /\ failures \in Seq(0 .. Window + 1)

PathInit ==
    /\ stage = [r \in Handler |-> "idle"]
    /\ task = [t \in Task |-> "none"]
    /\ registered = NoTask
    /\ crossed = FALSE
    /\ failures = <<>>

InTool == {r \in Handler : stage[r] = "tool"}
Running == {t \in Task : task[t] = "running"}
Primable == registered # NoTask => task[registered] = "done"

-----------------------------------------------------------------------------
(* The snapshot.                                                           *)

\* An authenticated request: it starts a task and waits for it, or, while the
\* user's task is running, goes on without one.
Prime(r) ==
    /\ stage[r] = "idle"
    /\ \/ /\ Primable
          /\ \E t \in Task :
                 /\ task[t] = "none"
                 /\ task' = [task EXCEPT ![t] = "running"]
                 /\ registered' = t
          /\ stage' = [stage EXCEPT ![r] = "priming"]
       \/ /\ ~Primable
          /\ stage' = [stage EXCEPT ![r] = "primed"]
          /\ UNCHANGED <<task, registered>>
    /\ UNCHANGED <<crossed, failures>>

\* ensure_snapshot returns, or raises, which is logged.
PrimeEnds(t) ==
    /\ task[t] = "running"
    /\ task' = [task EXCEPT ![t] = "done"]
    /\ UNCHANGED <<stage, registered, crossed, failures>>

\* The task's done-callback removes the user's entry, whosever it is.
Forget(t) ==
    /\ task[t] = "done"
    /\ task' = [task EXCEPT ![t] = "none"]
    /\ registered' = NoTask
    /\ crossed' = (crossed \/ registered \notin {t, NoTask})
    /\ UNCHANGED <<stage, failures>>

\* Mutant: the wait has no time-out.
WaitedOut(r) ==
    /\ stage[r] = "priming" /\ Primable
    /\ stage' = [stage EXCEPT ![r] = "primed"]
    /\ UNCHANGED <<task, registered, crossed, failures>>

\* The task has ended, or _SNAPSHOT_INLINE_BUDGET_S has passed.
Waited(r) ==
    /\ stage[r] = "priming"
    /\ stage' = [stage EXCEPT ![r] = "primed"]
    /\ UNCHANGED <<task, registered, crossed, failures>>

-----------------------------------------------------------------------------
(* The breaker.                                                            *)

\* _circuit_state: failures older than the window are dropped, from the front,
\* where the oldest are.
Old == {i \in DOMAIN failures : failures[i] > Window}
Pruned == SubSeq(failures, Cardinality(Old) + 1, Len(failures))

\* Mutant: a refused call counts as a failure, and keeps the breaker tripped.
CallRearms(r) ==
    /\ stage[r] = "primed"
    /\ \/ /\ Len(Pruned) < Threshold
          /\ failures' = Pruned
          /\ stage' = [stage EXCEPT ![r] = "tool"]
       \/ /\ Len(Pruned) >= Threshold
          /\ failures' = Append(Tail(Pruned), 0)
          /\ stage' = [stage EXCEPT ![r] = "idle"]
    /\ UNCHANGED <<task, registered, crossed>>

\* Mutant: one failure more than the threshold is let through each time.
CallUnchecked(r) ==
    /\ stage[r] = "primed"
    /\ failures' = Pruned
    /\ stage' = [stage EXCEPT ![r] = IF Len(Pruned) <= Threshold THEN "tool" ELSE "idle"]
    /\ UNCHANGED <<task, registered, crossed>>

\* audited_call_tool, up to the call: it is forwarded, or refused, which is
\* answered at once and not counted.
Call(r) ==
    /\ stage[r] = "primed"
    /\ failures' = Pruned
    /\ \/ /\ Len(Pruned) < Threshold
          /\ stage' = [stage EXCEPT ![r] = "tool"]
       \/ /\ Len(Pruned) >= Threshold
          /\ stage' = [stage EXCEPT ![r] = "idle"]
    /\ UNCHANGED <<task, registered, crossed>>

\* The tool answers: a success clears the deque the call was given, of later
\* failures too; an error, returned or raised, is added to it.
Succeed(r) ==
    /\ stage[r] = "tool"
    /\ stage' = [stage EXCEPT ![r] = "idle"]
    /\ failures' = <<>>
    /\ UNCHANGED <<task, registered, crossed>>

Fail(r) ==
    /\ stage[r] = "tool"
    /\ stage' = [stage EXCEPT ![r] = "idle"]
    /\ failures' = Append(failures, 0)
    /\ UNCHANGED <<task, registered, crossed>>

\* The client disconnects: CancelledError is neither counted nor logged, and
\* a task that was waited for goes on.
Gone(r) ==
    /\ stage[r] # "idle"
    /\ stage' = [stage EXCEPT ![r] = "idle"]
    /\ UNCHANGED <<task, registered, crossed, failures>>

\* Time passes; past the window a failure's age makes no difference.
PathTick ==
    /\ failures' = [i \in DOMAIN failures |->
                       IF failures[i] <= Window THEN failures[i] + 1 ELSE failures[i]]
    /\ UNCHANGED <<stage, task, registered, crossed>>

PathNext ==
    \/ \E r \in Handler :
           Prime(r) \/ Waited(r) \/ Call(r) \/ Succeed(r) \/ Fail(r) \/ Gone(r)
    \/ \E t \in Task : PrimeEnds(t) \/ Forget(t)
    \/ PathTick

PathSpec == PathInit /\ [][PathNext]_pathVars

\* The loop runs what is ready, its timers fire, tools end with the HTTP
\* client's time-outs, and time passes.  A snapshot may take for ever.
PathFairSpec ==
    /\ PathSpec
    /\ WF_pathVars(PathTick)
    /\ \A r \in Handler : WF_pathVars(Waited(r) \/ Call(r) \/ Succeed(r) \/ Fail(r))

-----------------------------------------------------------------------------
(* However many calls are under way when the breaker trips, the failures   *)
(* it counts and the calls in the tool, which are those that may still     *)
(* fail, are together less than the threshold and one per concurrent       *)
(* request (audit.py:376-380): no call is let through but while the        *)
(* failures are below the threshold, and no failure is counted but of a    *)
(* call let through.  It bounds no calls that succeed, which clear the     *)
(* failures, nor those whose client leaves, which are not counted.         *)
StormBounded == Len(failures) + Cardinality(InTool) < Threshold + Cardinality(Handler)

(* A tripped breaker lets calls through again once its failures are out of *)
(* the window, also if the client never stops calling: refused calls do    *)
(* not re-arm it (audit.py:37).                                            *)
Reopens == []<>(Len(Pruned) < Threshold)

(* A request is answered although its user's snapshot never comes: it does *)
(* not depend on the rebuild (server.py:1031).                             *)
NotBlocked == \A r \in Handler : []<>(stage[r] = "idle")

(* The rebuild of a user is one task at a time (server.py:1024), as long   *)
(* as no callback has run after a newer task was registered.               *)
OnePrime == ~crossed => \A t, u \in Running : t = u
=============================================================================
