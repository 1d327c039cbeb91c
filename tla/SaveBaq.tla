------------------------------- MODULE SaveBaq -------------------------------
(***************************************************************************)
(* save_as: run a statement, then persist it as one AUTO- BAQ              *)
(* (WedgeRuntime._run_and_save, baq_ops/save.py, the retry loop of         *)
(* epicor_client/http_client.py).  Epicor has no atomic replacement, so an *)
(* overwrite is a delete followed by an upsert, each an HTTP call that may *)
(* be retried and whose effect an error does not tell.                     *)
(*                                                                         *)
(* A saver is one tool call with save_as; all savers here target the same  *)
(* BAQ id, since different ids share nothing.  An action is one HTTP       *)
(* attempt with its effect at Epicor and its reply.                        *)
(***************************************************************************)
EXTENDS Integers

CONSTANTS
    Savers,         \* save_as calls; a saver also names the definition it saves
    Old,            \* a definition of that id saved earlier
    None,
    Attempts,       \* _MAX_RETRIES + 1
    Cancelling      \* bound: whether a request in progress may be cancelled

ASSUME SaversAssumption == Old \notin Savers /\ None \notin Savers \cup {Old}
ASSUME AttemptsAssumption == Attempts \in Nat \ {0} /\ Cancelling \in BOOLEAN

VARIABLES
    store,          \* Epicor: the definition of the id, or None
    saver,          \* the local state of each call
    existed,        \* ghost: the id has had a definition
    before,         \* ghost: what Epicor held when each call's probe ended
    wrote,          \* ghost: a delete or an upsert of each call took effect
    ran             \* ghost: the definition each call's verification executed

ghosts == <<existed, before, wrote, ran>>
vars   == <<store, saver, ghosts>>

Definition == Savers \cup {Old}

-----------------------------------------------------------------------------
(* The `saved` channel.  reason is "" when saved; verified is "unknown"    *)
(* when verification was not attempted.                                    *)

Refusal == {"not_authorized", "statement_did_not_run", "name_collision",
            "parse_failed"}
Report  == [saved : BOOLEAN, reason : Refusal \cup {"", "update_failed"},
            destroyed : BOOLEAN, restored : BOOLEAN,
            verified : {"yes", "no", "unknown"}]
Refuse(reason) == [saved |-> FALSE, reason |-> reason, destroyed |-> FALSE,
                   restored |-> FALSE, verified |-> "unknown"]
Saved(verified) == [saved |-> TRUE, reason |-> "", destroyed |-> FALSE,
                    restored |-> FALSE, verified |-> verified]

\* pc names the await the call is suspended on.
Pc == {"idle", "statement", "probe", "parse", "snapshot", "delete", "update",
       "restore", "find", "execute", "returned", "cancelled"}
Saver == [pc : Pc, attempt : 0 .. Attempts - 1, lossy : BOOLEAN,
          exists : BOOLEAN, snapshot : Definition \cup {None},
          deleteFailed : BOOLEAN, report : Report]
IdleSaver == [pc |-> "idle", attempt |-> 0, lossy |-> FALSE, exists |-> FALSE,
              snapshot |-> None, deleteFailed |-> FALSE, report |-> Refuse("")]

At(s, pc)        == saver[s].pc = pc
Goto(s, pc)      == [saver[s] EXCEPT !.pc = pc, !.attempt = 0]
Return(s, block) == [saver[s] EXCEPT !.pc = "returned", !.attempt = 0, !.report = block]
Set(s, next)     == saver' = [saver EXCEPT ![s] = next]

Init ==
    /\ store \in {Old, None}
    /\ saver = [s \in Savers |-> IdleSaver]
    /\ existed = (store # None)
    /\ before = [s \in Savers |-> None]
    /\ wrote = [s \in Savers |-> FALSE]
    /\ ran = [s \in Savers |-> None]

-----------------------------------------------------------------------------
(* The HTTP client.  Reads are idempotent, so a read with its retries is   *)
(* one step; every attempt of a write is a step of its own.                *)

\* Epicor carries out s's write: the id is now defined as d (None: deleted).
TakeEffect(s, d) ==
    /\ store' = d
    /\ existed' = (existed \/ d # None)
    /\ wrote' = [wrote EXCEPT ![s] = TRUE]
    /\ UNCHANGED <<before, ran>>

\* Mutant: when the attempts are used up the last outcome counts as a success.
SendOptimistic(s, d, answered, raised) ==
    \/ /\ TakeEffect(s, d)
       /\ Set(s, answered)
    \/ /\ Set(s, raised)
       /\ UNCHANGED <<store, ghosts>>
    \/ /\ IF saver[s].attempt + 1 < Attempts
          THEN Set(s, [saver[s] EXCEPT !.attempt = @ + 1])
          ELSE Set(s, answered)
       /\ TakeEffect(s, d) \/ UNCHANGED <<store, ghosts>>

\* Mutant: a lost reply is retried for ever.
SendForever(s, d, answered, raised) ==
    \/ /\ TakeEffect(s, d)
       /\ Set(s, answered)
    \/ /\ Set(s, raised)
       /\ UNCHANGED <<store, ghosts>>
    \/ /\ UNCHANGED saver
       /\ TakeEffect(s, d) \/ UNCHANGED <<store, ghosts>>

\* _request: 2xx answers; a status outside the retryable ones raises; a
\* timeout, a transport error or a retryable status (a gateway's among them)
\* leaves open whether Epicor acted, and is retried while attempts remain.
Send(s, d, answered, raised) ==
    \/ /\ TakeEffect(s, d)
       /\ Set(s, answered)
    \/ /\ Set(s, raised)
       /\ UNCHANGED <<store, ghosts>>
    \/ /\ IF saver[s].attempt + 1 < Attempts
          THEN Set(s, [saver[s] EXCEPT !.attempt = @ + 1])
          ELSE Set(s, raised)
       /\ TakeEffect(s, d) \/ UNCHANGED <<store, ghosts>>

-----------------------------------------------------------------------------
(* _run_and_save: the gate, then the statement, then the writer.           *)

Begin(s, lossy) ==
    /\ At(s, "idle")
    /\ \/ Set(s, [Goto(s, "statement") EXCEPT !.lossy = lossy])
       \/ Set(s, Return(s, Refuse("not_authorized")))
    /\ UNCHANGED <<store, ghosts>>

RunStatement(s) ==
    /\ At(s, "statement")
    /\ \/ Set(s, Goto(s, "probe"))
       \/ Set(s, Return(s, Refuse("statement_did_not_run")))
    /\ UNCHANGED <<store, ghosts>>

\* Mutant: the collision is not looked at.
ProbeNoCollision(s) ==
    /\ At(s, "probe")
    /\ \E exists \in {store # None, FALSE} :
            Set(s, [Goto(s, "parse") EXCEPT !.exists = exists])
    /\ before' = [before EXCEPT ![s] = store]
    /\ UNCHANGED <<store, existed, wrote, ran>>

\* The existence probe; a failure of any kind reads as "not there".
Probe(s) ==
    /\ At(s, "probe")
    /\ \E exists \in {store # None, FALSE} :
            Set(s, IF exists /\ saver[s].lossy
                   THEN [Return(s, Refuse("name_collision")) EXCEPT !.exists = exists]
                   ELSE [Goto(s, "parse") EXCEPT !.exists = exists])
    /\ before' = [before EXCEPT ![s] = store]
    /\ UNCHANGED <<store, existed, wrote, ran>>

\* ParseFromSQL and the unresolved-field check: nothing is persisted.
Parse(s) ==
    /\ At(s, "parse")
    /\ \/ Set(s, Goto(s, IF saver[s].exists THEN "snapshot" ELSE "update"))
       \/ Set(s, Return(s, Refuse("parse_failed")))
    /\ UNCHANGED <<store, ghosts>>

\* _probe_designer_definition: None when it cannot be read.
Snapshot(s) ==
    /\ At(s, "snapshot")
    /\ \E d \in {store, None} :
            Set(s, [Goto(s, "delete") EXCEPT !.snapshot = d])
    /\ UNCHANGED <<store, ghosts>>

\* DeleteByID; a failure is remembered and Update is sent all the same.
Delete(s) ==
    /\ At(s, "delete")
    /\ Send(s, None, Goto(s, "update"),
            [Goto(s, "update") EXCEPT !.deleteFailed = TRUE])

\* Mutant: a failed delete is taken to have destroyed nothing.
UpdateFailedTrusting(s, restored) ==
    [Refuse("update_failed") EXCEPT
        !.destroyed = saver[s].exists /\ ~saver[s].deleteFailed, !.restored = restored]

\* Mutant: a snapshot in hand is reported as a restore.
UpdateFailedAssumed(s, restored) ==
    [Refuse("update_failed") EXCEPT
        !.destroyed = saver[s].exists, !.restored = (saver[s].snapshot # None)]

\* previous_definition_destroyed / previous_definition_restored
UpdateFailed(s, restored) ==
    [Refuse("update_failed") EXCEPT
        !.destroyed = saver[s].exists, !.restored = restored]

\* Update is an upsert; if it is rejected and there is a snapshot, put it back.
Update(s) ==
    /\ At(s, "update")
    /\ Send(s, s, Goto(s, "find"),
            IF saver[s].exists /\ saver[s].snapshot # None
            THEN Goto(s, "restore")
            ELSE Return(s, UpdateFailed(s, FALSE)))

Restore(s) ==
    /\ At(s, "restore")
    /\ Send(s, saver[s].snapshot, Return(s, UpdateFailed(s, TRUE)),
                                  Return(s, UpdateFailed(s, FALSE)))

-----------------------------------------------------------------------------
(* The verification: run_saved_baq on the id just saved, under the         *)
(* session's budget.                                                       *)

\* Mutant: a budget refusal counts as a verification.
FindTrusting(s) ==
    /\ At(s, "find")
    /\ \/ Set(s, Return(s, Saved("yes")))
       \/ Set(s, Return(s, Saved("no")))
       \/ store # None /\ Set(s, Goto(s, "execute"))
    /\ UNCHANGED <<store, ghosts>>

\* The budget check and GetByID: not attempted, not found or refused, or found.
FindSaved(s) ==
    /\ At(s, "find")
    /\ \/ Set(s, Return(s, Saved("unknown")))
       \/ Set(s, Return(s, Saved("no")))
       \/ store # None /\ Set(s, Goto(s, "execute"))
    /\ UNCHANGED <<store, ghosts>>

\* BaqSvc/{id}/Data runs whatever definition the id has by then.
ExecuteSaved(s) ==
    /\ At(s, "execute")
    /\ \/ /\ store # None
          /\ Set(s, Return(s, Saved("yes")))
          /\ ran' = [ran EXCEPT ![s] = store]
       \/ /\ Set(s, Return(s, Saved("no")))
          /\ UNCHANGED ran
    /\ UNCHANGED <<store, existed, before, wrote>>

-----------------------------------------------------------------------------
\* What the request a call is suspended on would do at Epicor.
Effect(s) == CASE At(s, "delete")  -> None
               [] At(s, "update")  -> s
               [] At(s, "restore") -> saver[s].snapshot

\* CancelledError (a disconnect, a shutdown) passes every `except Exception`:
\* nothing is restored and nobody is told.
Cancel(s) ==
    /\ Cancelling
    /\ saver[s].pc \notin {"idle", "returned", "cancelled"}
    /\ Set(s, Goto(s, "cancelled"))
    /\ \/ UNCHANGED <<store, ghosts>>
       \/ /\ saver[s].pc \in {"delete", "update", "restore"}
          /\ TakeEffect(s, Effect(s))

Progress(s) ==
    \/ RunStatement(s)
    \/ Probe(s)
    \/ Parse(s)
    \/ Snapshot(s)
    \/ Delete(s)
    \/ Update(s)
    \/ Restore(s)
    \/ FindSaved(s)
    \/ ExecuteSaved(s)

Next == \E s \in Savers :
    \/ \E lossy \in BOOLEAN : Begin(s, lossy)
    \/ Progress(s)
    \/ Cancel(s)

Spec == Init /\ [][Next]_vars

\* Every request ends in a reply, an error or the client's timeout.
FairSpec == Spec /\ \A s \in Savers : WF_vars(Progress(s))

-----------------------------------------------------------------------------
TypeOK ==
    /\ store \in Definition \cup {None}
    /\ saver \in [Savers -> Saver]
    /\ existed \in BOOLEAN
    /\ before \in [Savers -> Definition \cup {None}]
    /\ wrote \in [Savers -> BOOLEAN]
    /\ ran \in [Savers -> Definition \cup {None}]

Finished(s) == saver[s].pc \in {"idle", "returned", "cancelled"}
Told(s)     == At(s, "returned") /\ saver[s].report.destroyed
                                 /\ ~saver[s].report.restored

(* No definition is lost without a word: if the id had a definition and    *)
(* has none once every call has ended, some call reported that the         *)
(* previous definition was destroyed and not restored, or was cancelled,   *)
(* however retries, lost replies and concurrent saves interleave           *)
(* (save.py:519-565).                                                      *)
LossIsReported ==
    existed /\ store = None /\ (\A s \in Savers : Finished(s)) =>
        \E s \in Savers : Told(s) \/ At(s, "cancelled")

(* Everything that can refuse refuses before the point of no return: a     *)
(* refused save, and a save under a changed name whose probe saw a BAQ,    *)
(* has made no write take effect (save.py:462-464).                        *)
RefusedWritesNothing ==
    \A s \in Savers :
        saver[s].report.reason \in Refusal \/ (saver[s].lossy /\ saver[s].exists)
            => ~wrote[s]

\* No other save of the id has begun.
Alone(s) == \A t \in Savers \ {s} : At(t, "idle")

(* A save that nobody races and that claims success has its definition at  *)
(* Epicor, whatever became of the earlier attempts.                        *)
SavedIsStored ==
    \A s \in Savers :
        Alone(s) /\ At(s, "returned") /\ saver[s].report.saved => store = s

(* A restore that is claimed, in a save that nobody races, put back what   *)
(* was there before the save.                                              *)
RestoredIsPrevious ==
    \A s \in Savers :
        Alone(s) /\ At(s, "returned") /\ saver[s].report.restored => store = before[s]

(* verified = true in a save that nobody races means that the definition   *)
(* this call saved was executed: "parse-accepts is not run-succeeds"       *)
(* (wedge_server.py:454-456).                                              *)
VerifiedRan ==
    \A s \in Savers : Alone(s) /\ saver[s].report.verified = "yes" => ran[s] = s

(* Every call that was accepted returns its `saved` block or is cancelled. *)
SaveReturns == \A s \in Savers : At(s, "statement") ~> Finished(s)

(* "if the row really is still there and undeletable, Update fails and the *)
(* handler below reports THAT with the previous definition intact"         *)
(* (save.py:483-485): destruction is only reported of what is gone.  The   *)
(* code does not meet it: it trusts the delete's lost reply (save.py:559). *)
IntactIsReported ==
    \A s \in Savers : Told(s) => store # before[s]

(* "REPORT THE ROWS, AND SAY THE SAVE DID NOT HAPPEN.  Nothing was written *)
(* to Epicor" (wedge_server.py:507-508) is said of every save that did not *)
(* succeed: Epicor then holds what it held before.  The code does not meet *)
(* it: the delete may have taken effect, or the Update whose reply is lost.*)
NothingWritten ==
    \A s \in Savers :
        At(s, "returned") /\ ~saver[s].report.saved /\ saver[s].report.reason = "update_failed"
            => store = before[s]

(* "A collision is refused when the input name changed" (save.py:15-16): a *)
(* save under a changed name never overwrites an existing definition.  The *)
(* code does not meet it: a failed probe reads as absence (save.py:292).   *)
CollisionRefused ==
    \A s \in Savers : saver[s].lossy /\ before[s] # None => ~wrote[s]
=============================================================================
