--------------------------- MODULE SaveBaqProofs ---------------------------
(***************************************************************************)
(* Machine-checked proofs about SaveBaq, for any number of concurrent      *)
(* saves and any number of attempts.  What is carried along: whoever may   *)
(* have removed the definition has not made up for it yet, or has said so  *)
(* (LossIsOwed); and a call that refused has made no write (Clean).        *)
(***************************************************************************)
EXTENDS SaveBaq, TLAPS

\* A call that may have removed the definition and has not put one back.
Owes(sv) ==
    \/ sv.pc \in {"delete", "update", "restore"} /\ sv.exists
    \/ sv.pc = "returned" /\ sv.report.destroyed /\ ~sv.report.restored
    \/ sv.pc = "cancelled"

LossIsOwed == existed /\ store = None => \E s \in Savers : Owes(saver[s])

\* What a call's local state says of its writes: w is whether one took effect.
Clean(sv, w) ==
    /\ w => sv.pc \in {"delete", "update", "restore", "find", "execute",
                       "returned", "cancelled"}
    /\ sv.pc # "returned" => sv.report = Refuse("")
    /\ sv.report.reason \in Refusal => ~w /\ sv.pc = "returned"
    /\ sv.lossy /\ sv.exists => ~w /\ sv.pc = "returned"
    /\ sv.pc \in {"idle", "statement", "probe"} => ~sv.exists
    /\ sv.pc \in {"snapshot", "delete", "restore"} => sv.exists
    /\ sv.pc = "restore" => sv.snapshot # None

AllClean == \A s \in Savers : Clean(saver[s], wrote[s])

IInv == TypeOK /\ LossIsOwed /\ AllClean

LEMMA SaverTypes ==
    /\ IdleSaver \in Saver
    /\ \A r \in Refusal : Refuse(r) \in Report
    /\ \A v \in {"yes", "no", "unknown"} : Saved(v) \in Report
    /\ \A s \in Savers, restored \in BOOLEAN :
        saver[s] \in Saver => UpdateFailed(s, restored) \in Report
  <1>1. 0 \in 0 .. Attempts - 1
    BY AttemptsAssumption
  <1>2. \A r \in Refusal \cup {""} : Refuse(r) \in Report
    BY DEF Refuse, Report
  <1>3. IdleSaver \in Saver
    BY <1>1, <1>2 DEF IdleSaver, Saver, Pc
  <1>4. \A v \in {"yes", "no", "unknown"} : Saved(v) \in Report
    BY DEF Saved, Report
  <1>5. \A s \in Savers, restored \in BOOLEAN :
            saver[s] \in Saver => UpdateFailed(s, restored) \in Report
    BY DEF UpdateFailed, Refuse, Report, Saver
  <1>6. QED
    BY <1>2, <1>3, <1>4, <1>5

LEMMA Reasons ==
    /\ Refuse("").reason = "" /\ Refuse("").reason \notin Refusal
    /\ Refuse("name_collision").reason = "name_collision"
  BY DEF Refuse, Refusal

LEMMA Moves ==
    ASSUME NEW s \in Savers, saver[s] \in Saver
    PROVE  /\ \A pc \in Pc : Goto(s, pc) \in Saver
           /\ \A block \in Report : Return(s, block) \in Saver
  <1>1. 0 \in 0 .. Attempts - 1
    BY AttemptsAssumption
  <1>2. \A pc \in Pc : Goto(s, pc) \in Saver
    BY <1>1 DEF Goto, Saver
  <1>3. "returned" \in Pc
    BY DEF Pc
  <1>4. \A block \in Report : Return(s, block) \in Saver
    BY <1>1, <1>3 DEF Return, Saver
  <1>5. QED
    BY <1>2, <1>4

\* A step of s that Epicor does not notice.
LEMMA QuietStep ==
    ASSUME IInv, NEW s \in Savers, NEW next \in Saver, Set(s, next),
           UNCHANGED <<store, existed, wrote>>,
           before' \in [Savers -> Definition \cup {None}],
           ran' \in [Savers -> Definition \cup {None}],
           Clean(next, wrote[s]),
           Owes(saver[s]) => Owes(next)
    PROVE  IInv'
  <1>1. /\ saver \in [Savers -> Saver] /\ saver' = [saver EXCEPT ![s] = next]
        /\ \A t \in Savers : saver'[t] = IF t = s THEN next ELSE saver[t]
    BY DEF IInv, TypeOK, Set
  <1>2. TypeOK'
    BY <1>1 DEF IInv, TypeOK
  <1>3. LossIsOwed'
    BY <1>1 DEF IInv, LossIsOwed
  <1>4. AllClean'
    BY <1>1 DEF IInv, AllClean
  <1>5. QED
    BY <1>2, <1>3, <1>4 DEF IInv

\* A step of s whose write takes effect.
LEMMA WriteStep ==
    ASSUME IInv, NEW s \in Savers, NEW next \in Saver, Set(s, next),
           NEW d \in Definition \cup {None}, TakeEffect(s, d),
           Clean(next, TRUE),
           d = None => Owes(next)
    PROVE  IInv'
  <1>1. /\ saver \in [Savers -> Saver] /\ saver' = [saver EXCEPT ![s] = next]
        /\ \A t \in Savers : saver'[t] = IF t = s THEN next ELSE saver[t]
    BY DEF IInv, TypeOK, Set
  <1>2. /\ store' = d /\ existed' \in BOOLEAN
        /\ \A t \in Savers : wrote'[t] = IF t = s THEN TRUE ELSE wrote[t]
        /\ wrote' \in [Savers -> BOOLEAN]
        /\ UNCHANGED <<before, ran>>
    BY DEF IInv, TypeOK, TakeEffect
  <1>3. TypeOK'
    BY <1>1, <1>2 DEF IInv, TypeOK
  <1>4. LossIsOwed'
    BY <1>1, <1>2 DEF LossIsOwed
  <1>5. AllClean'
    <2> SUFFICES ASSUME NEW t \in Savers
                 PROVE  Clean(saver'[t], wrote'[t])
      BY DEF AllClean
    <2>1. CASE t = s
      BY <1>1, <1>2, <2>1
    <2>2. CASE t # s
      BY <1>1, <1>2, <2>2 DEF IInv, AllClean
    <2>3. QED
      BY <2>1, <2>2
  <1>6. QED
    BY <1>3, <1>4, <1>5 DEF IInv

\* One attempt of a write: the obligations of its reply, error and retry.
LEMMA SendStep ==
    ASSUME IInv, NEW s \in Savers, NEW d \in Definition \cup {None},
           NEW answered \in Saver, NEW raised \in Saver,
           saver[s].pc \in {"delete", "update", "restore"},
           Send(s, d, answered, raised),
           Clean(answered, TRUE), Clean(raised, TRUE), Clean(raised, FALSE),
           Owes(saver[s]) => Owes(raised),
           d = None => Owes(answered) /\ Owes(saver[s])
    PROVE  IInv'
  <1> DEFINE again == [saver[s] EXCEPT !.attempt = @ + 1]
  <1>1. saver[s] \in Saver /\ Clean(saver[s], wrote[s])
    BY DEF IInv, TypeOK, AllClean
  <1>2. wrote[s] \in BOOLEAN
    BY DEF IInv, TypeOK
  <1>3. Clean(raised, wrote[s])
    BY <1>2
  <1>4. ASSUME saver[s].attempt + 1 < Attempts
        PROVE  /\ again \in Saver /\ Clean(again, TRUE) /\ Clean(again, wrote[s])
               /\ Owes(saver[s]) => Owes(again)
    <2>1. again \in Saver
      BY <1>1, <1>4, AttemptsAssumption DEF Saver
    <2>2. /\ again.pc = saver[s].pc /\ again.report = saver[s].report
          /\ again.lossy = saver[s].lossy /\ again.exists = saver[s].exists
          /\ again.snapshot = saver[s].snapshot
      BY <1>1 DEF Saver
    <2> HIDE DEF again
    <2>3. Clean(again, wrote[s])
      BY <1>1, <2>2 DEF Clean
    <2>4. Clean(again, TRUE)
      BY <1>1, <2>2 DEF Clean, Refuse, Refusal
    <2>5. Owes(saver[s]) => Owes(again)
      BY <2>2 DEF Owes
    <2>6. QED
      BY <2>1, <2>3, <2>4, <2>5
  <1>5. CASE TakeEffect(s, d) /\ Set(s, answered)
    BY <1>5, WriteStep
  <1>6. CASE Set(s, raised) /\ TakeEffect(s, d)
    BY <1>6, WriteStep
  <1>7. CASE Set(s, raised) /\ UNCHANGED <<store, ghosts>>
    BY <1>3, <1>7, QuietStep DEF IInv, TypeOK, ghosts
  <1>8. CASE saver[s].attempt + 1 < Attempts /\ Set(s, again) /\ TakeEffect(s, d)
    <2> HIDE DEF again
    <2>1. QED
      BY <1>4, <1>8, WriteStep
  <1>9. CASE saver[s].attempt + 1 < Attempts /\ Set(s, again) /\ UNCHANGED <<store, ghosts>>
    <2> HIDE DEF again
    <2>1. QED
      BY <1>4, <1>9, QuietStep DEF IInv, TypeOK, ghosts
  <1>10. QED
    BY <1>5, <1>6, <1>7, <1>8, <1>9 DEF Send

LEMMA InitInv == Init => IInv
  <1> SUFFICES ASSUME Init
               PROVE  IInv
    OBVIOUS
  <1>1. TypeOK
    BY SaverTypes DEF Init, TypeOK, Definition
  <1>2. LossIsOwed
    BY DEF Init, LossIsOwed
  <1>3. AllClean
    BY DEF Init, AllClean, Clean, IdleSaver, Refuse, Refusal
  <1>4. QED
    BY <1>1, <1>2, <1>3 DEF IInv

\* The fields of the next local state, for a move and for a return.
LEMMA Fields ==
    ASSUME NEW s \in Savers, saver[s] \in Saver
    PROVE  /\ \A pc \in Pc :
               /\ Goto(s, pc).pc = pc
               /\ Goto(s, pc).lossy = saver[s].lossy
               /\ Goto(s, pc).exists = saver[s].exists
               /\ Goto(s, pc).snapshot = saver[s].snapshot
               /\ Goto(s, pc).report = saver[s].report
           /\ \A block \in Report :
               /\ Return(s, block).pc = "returned"
               /\ Return(s, block).lossy = saver[s].lossy
               /\ Return(s, block).exists = saver[s].exists
               /\ Return(s, block).snapshot = saver[s].snapshot
               /\ Return(s, block).report = block
  BY DEF Goto, Return, Saver

\* What each local step before the first write has to show.
LEMMA EarlyStep ==
    ASSUME IInv, NEW s \in Savers, saver[s].pc \in {"idle", "statement", "probe",
                                                    "parse", "snapshot"},
           NEW next \in Saver, Set(s, next), UNCHANGED <<store, existed, wrote, ran>>,
           before' \in [Savers -> Definition \cup {None}],
           Clean(next, FALSE)
    PROVE  IInv'
  <1>1. ~wrote[s] /\ ~Owes(saver[s]) /\ wrote[s] \in BOOLEAN
    BY DEF IInv, TypeOK, AllClean, Clean, Owes
  <1>2. Clean(next, wrote[s])
    BY <1>1
  <1>3. ran' \in [Savers -> Definition \cup {None}]
    BY DEF IInv, TypeOK
  <1>4. QED
    BY <1>1, <1>2, <1>3, QuietStep

LEMMA EarlySteps ==
    ASSUME IInv, NEW s \in Savers,
           \/ \E lossy \in BOOLEAN : Begin(s, lossy)
           \/ RunStatement(s) \/ Probe(s) \/ Parse(s) \/ Snapshot(s)
    PROVE  IInv'
  <1>1. /\ saver[s] \in Saver /\ Clean(saver[s], wrote[s])
        /\ store \in Definition \cup {None}
        /\ before \in [Savers -> Definition \cup {None}]
        /\ ran \in [Savers -> Definition \cup {None}]
    BY DEF IInv, TypeOK, AllClean
  <1>2. ASSUME NEW r \in Refusal, Set(s, Return(s, Refuse(r))),
               saver[s].pc \in {"idle", "statement", "parse"},
               UNCHANGED <<store, ghosts>>
        PROVE  IInv'
    <2>1. Return(s, Refuse(r)) \in Saver
      BY <1>1, SaverTypes, Moves
    <2>2. Clean(Return(s, Refuse(r)), FALSE)
      BY <1>1, SaverTypes, Fields DEF Clean
    <2>3. QED
      BY <1>1, <1>2, <2>1, <2>2, EarlyStep DEF ghosts
  <1>3. ASSUME NEW lossy \in BOOLEAN, Begin(s, lossy)
        PROVE  IInv'
    <2>1. CASE Set(s, [Goto(s, "statement") EXCEPT !.lossy = lossy])
      <3> DEFINE next == [Goto(s, "statement") EXCEPT !.lossy = lossy]
      <3>1. next \in Saver
        BY <1>1, Moves DEF Saver, Pc
      <3>2. /\ next.pc = "statement" /\ next.report = Refuse("") /\ ~next.exists
        <4>1. Goto(s, "statement") \in Saver /\ "statement" \in Pc
          BY <1>1, Moves DEF Pc
        <4>2. saver[s].report = Refuse("") /\ ~saver[s].exists
          BY <1>1, <1>3 DEF Begin, At, Clean
        <4>3. QED
          BY <1>1, <4>1, <4>2, Fields DEF Saver
      <3> HIDE DEF next
      <3>3. Clean(next, FALSE)
        BY <3>2, Reasons DEF Clean
      <3>4. QED
        BY <1>1, <1>3, <2>1, <3>1, <3>3, EarlyStep DEF Begin, At, ghosts, next
    <2>2. CASE Set(s, Return(s, Refuse("not_authorized")))
      BY <1>2, <1>3, <2>2 DEF Begin, At, Refusal
    <2>3. QED
      BY <1>3, <2>1, <2>2 DEF Begin
  <1>4. CASE RunStatement(s)
    <2>1. CASE Set(s, Goto(s, "probe"))
      <3>1. Goto(s, "probe") \in Saver
        BY <1>1, Moves DEF Pc
      <3>2. Clean(Goto(s, "probe"), FALSE)
        BY <1>1, <1>4, Fields DEF RunStatement, At, Clean, Refuse, Refusal, Pc
      <3>3. QED
        BY <1>1, <1>4, <2>1, <3>1, <3>2, EarlyStep DEF RunStatement, At, ghosts
    <2>2. CASE Set(s, Return(s, Refuse("statement_did_not_run")))
      BY <1>2, <1>4, <2>2 DEF RunStatement, At, Refusal
    <2>3. QED
      BY <1>4, <2>1, <2>2 DEF RunStatement
  <1>5. CASE Probe(s)
    <2>1. PICK exists \in {store # None, FALSE} :
              Set(s, IF exists /\ saver[s].lossy
                     THEN [Return(s, Refuse("name_collision")) EXCEPT !.exists = exists]
                     ELSE [Goto(s, "parse") EXCEPT !.exists = exists])
      BY <1>5 DEF Probe
    <2>2. exists \in BOOLEAN
      BY <2>1
    <2> DEFINE next == IF exists /\ saver[s].lossy
                       THEN [Return(s, Refuse("name_collision")) EXCEPT !.exists = exists]
                       ELSE [Goto(s, "parse") EXCEPT !.exists = exists]
    <2>3. /\ Return(s, Refuse("name_collision")) \in Saver /\ Goto(s, "parse") \in Saver
      BY <1>1, SaverTypes, Moves DEF Refusal, Pc
    <2>4. next \in Saver
      BY <2>2, <2>3 DEF Saver
    <2>5. /\ next.lossy = saver[s].lossy /\ next.exists = exists
          /\ \/ exists /\ saver[s].lossy /\ next.pc = "returned"
                /\ next.report = Refuse("name_collision")
             \/ ~(exists /\ saver[s].lossy) /\ next.pc = "parse"
                /\ next.report = saver[s].report
      BY <1>1, <2>2, <2>3, Fields, SaverTypes DEF Saver, Refusal, Pc
    <2>6. saver[s].report = Refuse("")
      BY <1>1, <1>5 DEF Probe, At, Clean
    <2> HIDE DEF next
    <2>7. Clean(next, FALSE)
      BY <2>5, <2>6, Reasons DEF Clean
    <2>8. before' \in [Savers -> Definition \cup {None}]
      BY <1>1, <1>5 DEF Probe
    <2>9. QED
      BY <1>5, <2>1, <2>4, <2>7, <2>8, EarlyStep DEF Probe, At, next
  <1>6. CASE Parse(s)
    <2> DEFINE next == Goto(s, IF saver[s].exists THEN "snapshot" ELSE "update")
    <2>1. CASE Set(s, next)
      <3>1. next \in Saver
        BY <1>1, Moves DEF Pc
      <3>2. Clean(next, FALSE)
        <4>1. /\ saver[s].report = Refuse("") /\ saver[s].exists \in BOOLEAN
              /\ ~(saver[s].lossy /\ saver[s].exists)
          BY <1>1, <1>6 DEF Parse, At, Clean, Saver
        <4>2. /\ next.pc = (IF saver[s].exists THEN "snapshot" ELSE "update")
              /\ next.lossy = saver[s].lossy /\ next.exists = saver[s].exists
              /\ next.report = saver[s].report
          BY <1>1, <4>1, Fields DEF Pc
        <4> HIDE DEF next
        <4>3. QED
          BY <4>1, <4>2, Reasons DEF Clean
      <3> HIDE DEF next
      <3>3. QED
        BY <1>1, <1>6, <2>1, <3>1, <3>2, EarlyStep DEF Parse, At, ghosts
    <2>2. CASE Set(s, Return(s, Refuse("parse_failed")))
      BY <1>2, <1>6, <2>2 DEF Parse, At, Refusal
    <2>3. QED
      BY <1>6, <2>1, <2>2 DEF Parse
  <1>7. CASE Snapshot(s)
    <2>1. PICK d \in {store, None} : Set(s, [Goto(s, "delete") EXCEPT !.snapshot = d])
      BY <1>7 DEF Snapshot
    <2> DEFINE next == [Goto(s, "delete") EXCEPT !.snapshot = d]
    <2>2. Goto(s, "delete") \in Saver
      BY <1>1, Moves DEF Pc
    <2>3. next \in Saver
      BY <1>1, <2>2 DEF Saver
    <2>4. /\ next.pc = "delete" /\ next.lossy = saver[s].lossy
          /\ next.exists = saver[s].exists /\ next.report = saver[s].report
      BY <1>1, <2>2, Fields DEF Saver, Pc
    <2> HIDE DEF next
    <2>5. Clean(next, FALSE)
      BY <1>1, <1>7, <2>4 DEF Snapshot, At, Clean, Refuse, Refusal
    <2>6. QED
      BY <1>1, <1>7, <2>1, <2>3, <2>5, EarlyStep DEF Snapshot, At, ghosts, next
  <1>8. QED
    BY <1>3, <1>4, <1>5, <1>6, <1>7

\* The report of a failed Update is not a refusal.
LEMMA UpdateFailedFields ==
    ASSUME NEW s \in Savers, NEW restored \in BOOLEAN
    PROVE  /\ UpdateFailed(s, restored).reason \notin Refusal
           /\ UpdateFailed(s, restored).destroyed = saver[s].exists
           /\ UpdateFailed(s, restored).restored = restored
  BY DEF UpdateFailed, Refuse, Refusal

LEMMA DeleteInv ==
    ASSUME IInv, NEW s \in Savers, Delete(s)
    PROVE  IInv'
  <1> DEFINE answered == Goto(s, "update")
             raised   == [Goto(s, "update") EXCEPT !.deleteFailed = TRUE]
  <1>1. /\ saver[s] \in Saver /\ Clean(saver[s], wrote[s]) /\ saver[s].pc = "delete"
        /\ Send(s, None, answered, raised)
    BY DEF IInv, TypeOK, AllClean, Delete, At
  <1>2. answered \in Saver
    BY <1>1, Moves DEF Pc
  <1>3. /\ raised \in Saver /\ raised.pc = "update"
        /\ raised.lossy = saver[s].lossy /\ raised.exists = saver[s].exists
        /\ raised.report = saver[s].report
    BY <1>1, <1>2, Fields DEF Saver, Pc
  <1>4. /\ answered.pc = "update"
        /\ answered.lossy = saver[s].lossy /\ answered.exists = saver[s].exists
        /\ answered.report = saver[s].report
    BY <1>1, Fields DEF Pc
  <1>5. /\ saver[s].report = Refuse("") /\ saver[s].exists /\ ~saver[s].lossy
    BY <1>1 DEF Clean
  <1> HIDE DEF answered, raised
  <1>6. /\ Clean(answered, TRUE) /\ Clean(raised, TRUE) /\ Clean(raised, FALSE)
        /\ Owes(answered) /\ Owes(raised) /\ Owes(saver[s])
    BY <1>1, <1>3, <1>4, <1>5, Reasons DEF Clean, Owes
  <1>7. QED
    BY <1>1, <1>2, <1>3, <1>6, SendStep

LEMMA UpdateInv ==
    ASSUME IInv, NEW s \in Savers, Update(s)
    PROVE  IInv'
  <1> DEFINE answered == Goto(s, "find")
             raised   == IF saver[s].exists /\ saver[s].snapshot # None
                         THEN Goto(s, "restore")
                         ELSE Return(s, UpdateFailed(s, FALSE))
  <1>1. /\ saver[s] \in Saver /\ Clean(saver[s], wrote[s]) /\ saver[s].pc = "update"
        /\ Send(s, s, answered, raised)
        /\ s \in Definition \cup {None} /\ s # None
    BY SaversAssumption DEF IInv, TypeOK, AllClean, Update, At, Definition
  <1>2. UpdateFailed(s, FALSE) \in Report /\ saver[s].exists \in BOOLEAN
    BY <1>1, SaverTypes DEF Saver
  <1>3. answered \in Saver /\ raised \in Saver
    BY <1>1, <1>2, Moves DEF Pc
  <1>4. /\ answered.pc = "find"
        /\ answered.lossy = saver[s].lossy /\ answered.exists = saver[s].exists
        /\ answered.report = saver[s].report
    BY <1>1, Fields DEF Pc
  <1>5. /\ raised.lossy = saver[s].lossy /\ raised.exists = saver[s].exists
        /\ \/ /\ saver[s].exists /\ saver[s].snapshot # None
              /\ raised.pc = "restore" /\ raised.report = saver[s].report
              /\ raised.snapshot = saver[s].snapshot
           \/ /\ raised.pc = "returned" /\ raised.report = UpdateFailed(s, FALSE)
    <2>1. CASE saver[s].exists /\ saver[s].snapshot # None
      BY <1>1, <2>1, Fields DEF Pc
    <2>2. CASE ~(saver[s].exists /\ saver[s].snapshot # None)
      <3>1. raised = Return(s, UpdateFailed(s, FALSE))
        BY <2>2
      <3> HIDE DEF raised
      <3>2. QED
        BY <1>1, <1>2, <3>1, Fields
    <2>3. QED
      BY <2>1, <2>2
  <1>6. saver[s].report = Refuse("") /\ ~(saver[s].lossy /\ saver[s].exists)
    BY <1>1 DEF Clean
  <1> HIDE DEF answered, raised
  <1>7. Clean(answered, TRUE)
    BY <1>4, <1>6, Reasons DEF Clean
  <1>8. Clean(raised, TRUE) /\ Clean(raised, FALSE)
    BY <1>5, <1>6, Reasons, UpdateFailedFields DEF Clean
  <1>9. Owes(saver[s]) => Owes(raised)
    BY <1>1, <1>5, UpdateFailedFields DEF Owes
  <1>10. QED
    BY <1>1, <1>3, <1>7, <1>8, <1>9, SendStep

LEMMA RestoreInv ==
    ASSUME IInv, NEW s \in Savers, Restore(s)
    PROVE  IInv'
  <1> DEFINE answered == Return(s, UpdateFailed(s, TRUE))
             raised   == Return(s, UpdateFailed(s, FALSE))
             d        == saver[s].snapshot
  <1>1. /\ saver[s] \in Saver /\ Clean(saver[s], wrote[s]) /\ saver[s].pc = "restore"
        /\ Send(s, d, answered, raised)
    BY DEF IInv, TypeOK, AllClean, Restore, At
  <1>2. d \in Definition \cup {None} /\ d # None
    BY <1>1 DEF Saver, Clean
  <1>3. UpdateFailed(s, FALSE) \in Report /\ UpdateFailed(s, TRUE) \in Report
    BY <1>1, SaverTypes
  <1>4. answered \in Saver /\ raised \in Saver
    BY <1>1, <1>3, Moves
  <1>5. /\ answered.pc = "returned" /\ answered.report = UpdateFailed(s, TRUE)
        /\ answered.lossy = saver[s].lossy /\ answered.exists = saver[s].exists
        /\ raised.pc = "returned" /\ raised.report = UpdateFailed(s, FALSE)
        /\ raised.lossy = saver[s].lossy /\ raised.exists = saver[s].exists
    BY <1>1, <1>3, Fields
  <1>6. saver[s].exists /\ ~saver[s].lossy
    BY <1>1 DEF Clean
  <1> HIDE DEF answered, raised, d
  <1>7. Clean(answered, TRUE) /\ Clean(raised, TRUE) /\ Clean(raised, FALSE)
    BY <1>5, <1>6, UpdateFailedFields DEF Clean
  <1>8. Owes(raised)
    BY <1>5, <1>6, UpdateFailedFields DEF Owes
  <1>9. QED
    BY <1>1, <1>2, <1>4, <1>7, <1>8, SendStep

LEMMA VerifyInv ==
    ASSUME IInv, NEW s \in Savers, FindSaved(s) \/ ExecuteSaved(s)
    PROVE  IInv'
  <1>1. /\ saver[s] \in Saver /\ Clean(saver[s], wrote[s])
        /\ saver[s].pc \in {"find", "execute"}
        /\ before \in [Savers -> Definition \cup {None}]
        /\ ran \in [Savers -> Definition \cup {None}]
        /\ store \in Definition \cup {None} /\ wrote[s] \in BOOLEAN
    BY DEF IInv, TypeOK, AllClean, FindSaved, ExecuteSaved, At
  <1>2. /\ saver[s].report = Refuse("") /\ ~(saver[s].lossy /\ saver[s].exists)
        /\ ~Owes(saver[s])
    BY <1>1 DEF Clean, Owes
  <1>3. /\ UNCHANGED <<store, existed, wrote>> /\ before' = before
        /\ ran' \in [Savers -> Definition \cup {None}]
    BY <1>1 DEF FindSaved, ExecuteSaved, ghosts
  <1>4. ASSUME NEW v \in {"yes", "no", "unknown"}
        PROVE  /\ Return(s, Saved(v)) \in Saver
               /\ Clean(Return(s, Saved(v)), wrote[s])
    <2>1. Saved(v) \in Report /\ Saved(v).reason \notin Refusal
      BY SaverTypes DEF Saved, Refusal
    <2>2. QED
      BY <1>1, <1>2, <2>1, Moves, Fields DEF Clean
  <1>5. Goto(s, "execute") \in Saver /\ Clean(Goto(s, "execute"), wrote[s])
    <2>1. Goto(s, "execute") \in Saver /\ "execute" \in Pc
      BY <1>1, Moves DEF Pc
    <2>2. QED
      <3> DEFINE next == Goto(s, "execute")
      <3>1. /\ next.pc = "execute" /\ next.report = saver[s].report
            /\ next.lossy = saver[s].lossy /\ next.exists = saver[s].exists
        BY <1>1, <2>1, Fields
      <3> HIDE DEF next
      <3>2. Clean(next, wrote[s])
        BY <1>2, <3>1, Reasons DEF Clean
      <3>3. QED
        BY <2>1, <3>2 DEF next
  <1>6. \/ Set(s, Goto(s, "execute"))
        \/ \E v \in {"yes", "no", "unknown"} : Set(s, Return(s, Saved(v)))
    BY DEF FindSaved, ExecuteSaved
  <1>7. QED
    BY <1>1, <1>2, <1>3, <1>4, <1>5, <1>6, QuietStep

LEMMA CancelInv ==
    ASSUME IInv, NEW s \in Savers, Cancel(s)
    PROVE  IInv'
  <1> DEFINE next == Goto(s, "cancelled")
  <1>1. /\ saver[s] \in Saver /\ Clean(saver[s], wrote[s]) /\ Set(s, next)
        /\ saver[s].pc \notin {"idle", "returned", "cancelled"}
    BY DEF IInv, TypeOK, AllClean, Cancel
  <1>2. next \in Saver /\ "cancelled" \in Pc
    BY <1>1, Moves DEF Pc
  <1>3. /\ next.pc = "cancelled" /\ next.report = saver[s].report
        /\ next.lossy = saver[s].lossy /\ next.exists = saver[s].exists
    BY <1>1, <1>2, Fields
  <1>4. /\ saver[s].report = Refuse("") /\ ~(saver[s].lossy /\ saver[s].exists)
    BY <1>1 DEF Clean
  <1> HIDE DEF next
  <1>5. Clean(next, TRUE) /\ Clean(next, wrote[s]) /\ Owes(next)
    BY <1>3, <1>4, Reasons DEF Clean, Owes
  <1>6. CASE UNCHANGED <<store, ghosts>>
    BY <1>1, <1>2, <1>5, <1>6, QuietStep DEF IInv, TypeOK, ghosts
  <1>7. CASE saver[s].pc \in {"delete", "update", "restore"} /\ TakeEffect(s, Effect(s))
    <2>1. Effect(s) \in Definition \cup {None}
      BY <1>1, <1>7 DEF Effect, At, Saver, Definition
    <2>2. QED
      BY <1>1, <1>2, <1>5, <1>7, <2>1, WriteStep
  <1>8. QED
    BY <1>6, <1>7 DEF Cancel

LEMMA StepInv == IInv /\ [Next]_vars => IInv'
  <1> SUFFICES ASSUME IInv, [Next]_vars
               PROVE  IInv'
    OBVIOUS
  <1>1. CASE UNCHANGED vars
    <2>1. UNCHANGED <<store, saver, existed, before, wrote, ran>>
      BY <1>1 DEF vars, ghosts
    <2>2. TypeOK' /\ LossIsOwed' /\ AllClean'
      BY <2>1 DEF IInv, TypeOK, LossIsOwed, AllClean
    <2>3. QED
      BY <2>2 DEF IInv
  <1>2. ASSUME NEW s \in Savers,
               \/ \E lossy \in BOOLEAN : Begin(s, lossy)
               \/ Progress(s)
               \/ Cancel(s)
        PROVE  IInv'
    BY <1>2, EarlySteps, DeleteInv, UpdateInv, RestoreInv, VerifyInv, CancelInv
       DEF Progress
  <1>3. QED
    BY <1>1, <1>2 DEF Next

LEMMA Inductive == Spec => []IInv
  BY InitInv, StepInv, PTL DEF Spec

(* Type correctness: every local of every save, and Epicor's store.        *)
THEOREM SaveTypeCorrect == Spec => []TypeOK
  <1>1. IInv => TypeOK
    BY DEF IInv
  <1>2. QED
    BY <1>1, Inductive, PTL

(* However many saves of one id interleave, and whatever replies are lost, *)
(* a definition that is gone when all is quiet was reported gone, or the   *)
(* request that removed it was cancelled.                                  *)
THEOREM LossesAreReported == Spec => []LossIsReported
  <1>1. IInv => LossIsReported
    <2> SUFFICES ASSUME IInv, existed, store = None, \A s \in Savers : Finished(s)
                 PROVE  \E s \in Savers : Told(s) \/ At(s, "cancelled")
      BY DEF LossIsReported
    <2>1. PICK s \in Savers : Owes(saver[s])
      BY DEF IInv, LossIsOwed
    <2>2. Told(s) \/ At(s, "cancelled")
      BY <2>1 DEF Finished, Owes, Told, At
    <2>3. QED
      BY <2>2
  <1>2. QED
    BY <1>1, Inductive, PTL

(* A save that refuses has changed nothing at Epicor.                      *)
THEOREM RefusalsWriteNothing == Spec => []RefusedWritesNothing
  <1>1. IInv => RefusedWritesNothing
    BY DEF IInv, AllClean, Clean, RefusedWritesNothing
  <1>2. QED
    BY <1>1, Inductive, PTL

-----------------------------------------------------------------------------
(* A save that nobody races: what it knows of Epicor, call by call.        *)

Solo(sv, st, bf, rn, s) ==
    /\ sv.pc \in {"parse", "snapshot"} => st = bf
    /\ sv.pc \in {"idle", "statement", "probe", "parse", "snapshot"} => sv.snapshot = None
    /\ sv.snapshot \in {None, bf}
    /\ sv.pc \in {"find", "execute"} => st = s
    /\ sv.pc = "returned" /\ sv.report.saved => st = s
    /\ sv.pc = "returned" /\ sv.report.restored => st = bf
    /\ sv.pc = "returned" /\ sv.report.verified = "yes" => rn = s

SoloInv == \A s \in Savers : Alone(s) => Solo(saver[s], store, before[s], ran[s], s)

Step(s) ==
    \/ \E lossy \in BOOLEAN : Begin(s, lossy)
    \/ Progress(s)
    \/ Cancel(s)

\* A call that has done anything is not idle again, so that a save is alone
\* only as long as it has been.
LEMMA StepsLeaveIdle ==
    ASSUME IInv, NEW t \in Savers, Step(t)
    PROVE  /\ saver'[t].pc # "idle"
           /\ \A s \in Savers \ {t} : saver'[s] = saver[s]
  <1>1. saver \in [Savers -> Saver] /\ saver[t] \in Saver
    BY DEF IInv, TypeOK
  <1>2. ASSUME NEW next, Set(t, next), next.pc # "idle"
        PROVE  /\ saver'[t].pc # "idle"
               /\ \A s \in Savers \ {t} : saver'[s] = saver[s]
    BY <1>1, <1>2 DEF Set
  <1>3. ASSUME NEW pc \in Pc
        PROVE  Goto(t, pc).pc = pc /\ Goto(t, pc) \in Saver
    BY <1>1, <1>3, Moves, Fields
  <1>4. ASSUME NEW block \in Report
        PROVE  Return(t, block).pc = "returned" /\ Return(t, block) \in Saver
    BY <1>1, <1>4, Moves, Fields
  <1>5. ASSUME NEW d, NEW answered, NEW raised, Send(t, d, answered, raised),
               answered.pc # "idle", raised.pc # "idle", saver[t].pc # "idle"
        PROVE  \E next : Set(t, next) /\ next.pc # "idle"
    <2>1. [saver[t] EXCEPT !.attempt = @ + 1].pc = saver[t].pc
      BY <1>1 DEF Saver
    <2>2. \/ Set(t, answered)
          \/ Set(t, raised)
          \/ Set(t, [saver[t] EXCEPT !.attempt = @ + 1])
      BY <1>5 DEF Send
    <2>3. QED
      BY <1>5, <2>1, <2>2
  <1>6. \A r \in Refusal : Refuse(r) \in Report
    BY SaverTypes
  <1>7. UpdateFailed(t, TRUE) \in Report /\ UpdateFailed(t, FALSE) \in Report
    BY <1>1, SaverTypes
  <1>8. Saved("yes") \in Report /\ Saved("no") \in Report /\ Saved("unknown") \in Report
    BY SaverTypes
  <1>9. CASE \E lossy \in BOOLEAN : Begin(t, lossy)
    <2>1. PICK lossy \in BOOLEAN : Begin(t, lossy)
      BY <1>9
    <2>2. /\ [Goto(t, "statement") EXCEPT !.lossy = lossy].pc = "statement"
          /\ Return(t, Refuse("not_authorized")).pc = "returned"
      BY <1>3, <1>4, <1>6 DEF Saver, Pc, Refusal
    <2>3. QED
      BY <1>2, <2>1, <2>2 DEF Begin
  <1>10. CASE RunStatement(t) \/ Parse(t)
    <2>1. /\ Goto(t, "probe").pc = "probe"
          /\ Goto(t, IF saver[t].exists THEN "snapshot" ELSE "update").pc # "idle"
          /\ Return(t, Refuse("statement_did_not_run")).pc = "returned"
          /\ Return(t, Refuse("parse_failed")).pc = "returned"
      BY <1>3, <1>4, <1>6 DEF Pc, Refusal
    <2>2. QED
      BY <1>2, <1>10, <2>1 DEF RunStatement, Parse
  <1>11. CASE Probe(t)
    <2>1. ASSUME NEW exists
          PROVE  /\ [Return(t, Refuse("name_collision")) EXCEPT !.exists = exists].pc = "returned"
                 /\ [Goto(t, "parse") EXCEPT !.exists = exists].pc = "parse"
      BY <1>3, <1>4, <1>6 DEF Saver, Pc, Refusal
    <2>2. QED
      BY <1>2, <1>11, <2>1 DEF Probe
  <1>12. CASE Snapshot(t)
    <2>1. ASSUME NEW d
          PROVE  [Goto(t, "delete") EXCEPT !.snapshot = d].pc = "delete"
      BY <1>3 DEF Saver, Pc
    <2>2. QED
      BY <1>2, <1>12, <2>1 DEF Snapshot
  <1>13. CASE Delete(t)
    <2>1. /\ Goto(t, "update").pc = "update"
          /\ [Goto(t, "update") EXCEPT !.deleteFailed = TRUE].pc = "update"
      BY <1>3 DEF Saver, Pc
    <2>2. QED
      BY <1>2, <1>5, <1>13, <2>1 DEF Delete, At
  <1>14. CASE Update(t)
    <2>1. /\ Goto(t, "find").pc = "find" /\ Goto(t, "restore").pc = "restore"
          /\ Return(t, UpdateFailed(t, FALSE)).pc = "returned"
      BY <1>3, <1>4, <1>7 DEF Pc
    <2>2. QED
      BY <1>2, <1>5, <1>14, <2>1 DEF Update, At
  <1>15. CASE Restore(t)
    <2>1. /\ Return(t, UpdateFailed(t, TRUE)).pc = "returned"
          /\ Return(t, UpdateFailed(t, FALSE)).pc = "returned"
      BY <1>4, <1>7
    <2>2. QED
      BY <1>2, <1>5, <1>15, <2>1 DEF Restore, At
  <1>16. CASE FindSaved(t) \/ ExecuteSaved(t)
    <2>1. /\ \A v \in {"yes", "no", "unknown"} : Return(t, Saved(v)).pc = "returned"
          /\ Goto(t, "execute").pc = "execute"
      BY <1>3, <1>4, <1>8 DEF Pc
    <2>2. QED
      BY <1>2, <1>16, <2>1 DEF FindSaved, ExecuteSaved
  <1>17. CASE Cancel(t)
    <2>1. Goto(t, "cancelled").pc = "cancelled"
      BY <1>3 DEF Pc
    <2>2. QED
      BY <1>2, <1>17, <2>1 DEF Cancel
  <1>18. QED
    BY <1>9, <1>10, <1>11, <1>12, <1>13, <1>14, <1>15, <1>16, <1>17 DEF Step, Progress

\* The fields that Solo reads, of what the saver becomes.
LEMMA SoloFields ==
    ASSUME IInv, NEW s \in Savers, NEW next, Set(s, next)
    PROVE  saver'[s] = next
  BY DEF IInv, TypeOK, Set

\* What the blocks say.
LEMMA Blocks ==
    /\ \A r : ~Refuse(r).saved /\ ~Refuse(r).restored /\ Refuse(r).verified = "unknown"
    /\ \A v : Saved(v).saved /\ ~Saved(v).restored /\ Saved(v).verified = v
  BY DEF Refuse, Saved

\* Only a block that has been returned can say verified.
LEMMA CleanVerdict ==
    ASSUME NEW sv, NEW wr, Clean(sv, wr), sv.report.verified = "yes"
    PROVE  sv.pc = "returned"
  <1>1. \A r : Refuse(r).verified # "yes"
    BY Blocks
  <1>2. QED
    BY <1>1, Zenon DEF Clean

LEMMA FailedBlocks ==
    ASSUME NEW s \in Savers, NEW restored \in BOOLEAN
    PROVE  /\ ~UpdateFailed(s, restored).saved
           /\ UpdateFailed(s, restored).restored = restored
           /\ UpdateFailed(s, restored).verified = "unknown"
  BY DEF UpdateFailed, Refuse

\* One attempt of a write, by a save that is alone.
LEMMA SoloSend ==
    ASSUME IInv, NEW s \in Savers, NEW d, NEW answered \in Saver, NEW raised \in Saver,
           saver[s].pc \in {"delete", "update", "restore"},
           Send(s, d, answered, raised),
           Solo(saver[s], store, before[s], ran[s], s),
           Solo(answered, d, before[s], ran[s], s),
           \A st : Solo(raised, st, before[s], ran[s], s)
    PROVE  Solo(saver'[s], store', before'[s], ran'[s], s)
  <1> DEFINE again == [saver[s] EXCEPT !.attempt = @ + 1]
  <1>1. /\ saver[s] \in Saver
        /\ before' = before /\ ran' = ran
    BY DEF IInv, TypeOK, Send, TakeEffect, ghosts
  <1>2. /\ again.pc = saver[s].pc /\ again.report = saver[s].report
        /\ again.snapshot = saver[s].snapshot
    BY <1>1 DEF Saver
  <1> HIDE DEF again
  <1>3. \A st : Solo(again, st, before[s], ran[s], s)
    BY <1>2 DEF Solo
  <1>4. \/ Set(s, answered) /\ store' = d
        \/ Set(s, raised)
        \/ Set(s, again)
    BY DEF Send, TakeEffect, again
  <1>5. QED
    BY <1>1, <1>3, <1>4, SoloFields

LEMMA SoloEarly ==
    ASSUME IInv, NEW s \in Savers, Solo(saver[s], store, before[s], ran[s], s),
           \/ \E lossy \in BOOLEAN : Begin(s, lossy)
           \/ RunStatement(s) \/ Probe(s) \/ Parse(s) \/ Snapshot(s)
    PROVE  Solo(saver'[s], store', before'[s], ran'[s], s)
  <1>1. /\ saver[s] \in Saver /\ store' = store /\ ran' = ran
        /\ before \in [Savers -> Definition \cup {None}]
    BY DEF IInv, TypeOK, Begin, RunStatement, Probe, Parse, Snapshot, ghosts
  <1>2. ASSUME NEW r \in Refusal
        PROVE  /\ Return(s, Refuse(r)) \in Saver
               /\ Return(s, Refuse(r)).pc = "returned"
               /\ Return(s, Refuse(r)).snapshot = saver[s].snapshot
               /\ Return(s, Refuse(r)).report = Refuse(r)
               /\ ~Refuse(r).saved /\ ~Refuse(r).restored /\ Refuse(r).verified = "unknown"
    BY <1>1, SaverTypes, Moves, Fields, Blocks
  <1>3. ASSUME NEW pc \in Pc
        PROVE  /\ Goto(s, pc) \in Saver /\ Goto(s, pc).pc = pc
               /\ Goto(s, pc).snapshot = saver[s].snapshot
    BY <1>1, Moves, Fields
  <1>4. ASSUME NEW r \in Refusal, Set(s, Return(s, Refuse(r))), UNCHANGED before
        PROVE  Solo(saver'[s], store', before'[s], ran'[s], s)
    BY <1>1, <1>2, <1>4, SoloFields DEF Solo
  <1>5. CASE \E lossy \in BOOLEAN : Begin(s, lossy)
    <2>1. PICK lossy \in BOOLEAN : Begin(s, lossy)
      BY <1>5
    <2>2. CASE Set(s, [Goto(s, "statement") EXCEPT !.lossy = lossy])
      <3> DEFINE next == [Goto(s, "statement") EXCEPT !.lossy = lossy]
      <3>1. next.pc = "statement" /\ next.snapshot = saver[s].snapshot
        BY <1>3 DEF Saver, Pc
      <3> HIDE DEF next
      <3>2. saver'[s] = next
        BY <2>2, SoloFields DEF next
      <3>3. saver[s].snapshot = None /\ before' = before
        BY <2>1 DEF Begin, At, Solo, ghosts
      <3>4. QED
        BY <1>1, <3>1, <3>2, <3>3 DEF Solo
    <2>3. QED
      BY <1>4, <2>1, <2>2 DEF Begin, ghosts, Refusal
  <1>6. CASE RunStatement(s)
    <2>1. CASE Set(s, Goto(s, "probe"))
      <3>1. "probe" \in Pc /\ before' = before /\ saver[s].snapshot = None
        BY <1>6 DEF RunStatement, At, Solo, ghosts, Pc
      <3>2. QED
        BY <1>1, <1>3, <2>1, <3>1, SoloFields DEF Solo
    <2>2. QED
      BY <1>4, <1>6, <2>1 DEF RunStatement, ghosts, Refusal
  <1>7. CASE Probe(s)
    <2>1. before'[s] = store /\ saver[s].snapshot = None
      BY <1>1, <1>7 DEF Probe, At, Solo
    <2>2. ASSUME NEW exists,
                 Set(s, [Return(s, Refuse("name_collision")) EXCEPT !.exists = exists])
          PROVE  Solo(saver'[s], store', before'[s], ran'[s], s)
      <3> DEFINE next == [Return(s, Refuse("name_collision")) EXCEPT !.exists = exists]
      <3>0. "name_collision" \in Refusal
        BY DEF Refusal
      <3>1. /\ next.pc = "returned" /\ next.snapshot = saver[s].snapshot
            /\ next.report = Refuse("name_collision")
        BY <1>2, <3>0 DEF Saver
      <3> HIDE DEF next
      <3>2. saver'[s] = next
        BY <2>2, SoloFields DEF next
      <3>3. QED
        BY <1>1, <1>2, <2>1, <3>0, <3>1, <3>2 DEF Solo
    <2>3. ASSUME NEW exists, Set(s, [Goto(s, "parse") EXCEPT !.exists = exists])
          PROVE  Solo(saver'[s], store', before'[s], ran'[s], s)
      <3> DEFINE next == [Goto(s, "parse") EXCEPT !.exists = exists]
      <3>1. next.pc = "parse" /\ next.snapshot = saver[s].snapshot
        BY <1>3 DEF Saver, Pc
      <3> HIDE DEF next
      <3>2. saver'[s] = next
        BY <2>3, SoloFields DEF next
      <3>3. QED
        BY <1>1, <2>1, <3>1, <3>2 DEF Solo
    <2>4. QED
      BY <1>7, <2>2, <2>3 DEF Probe
  <1>8. CASE Parse(s)
    <2> DEFINE pc == IF saver[s].exists THEN "snapshot" ELSE "update"
    <2>1. CASE Set(s, Goto(s, pc))
      <3>1. /\ pc \in Pc /\ pc \in {"snapshot", "update"} /\ before' = before
            /\ saver[s].snapshot = None /\ store = before[s]
        BY <1>8 DEF Parse, At, Solo, ghosts, Pc
      <3> HIDE DEF pc
      <3>2. QED
        BY <1>1, <1>3, <2>1, <3>1, SoloFields DEF Solo
    <2>2. QED
      BY <1>4, <1>8, <2>1 DEF Parse, ghosts, Refusal
  <1>9. CASE Snapshot(s)
    <2>1. PICK d \in {store, None} : Set(s, [Goto(s, "delete") EXCEPT !.snapshot = d])
      BY <1>9 DEF Snapshot
    <2> DEFINE next == [Goto(s, "delete") EXCEPT !.snapshot = d]
    <2>2. next.pc = "delete" /\ next.snapshot = d
      BY <1>3 DEF Saver, Pc
    <2> HIDE DEF next
    <2>3. saver'[s] = next
      BY <2>1, SoloFields DEF next
    <2>4. store = before[s] /\ before' = before
      BY <1>9 DEF Snapshot, At, Solo, ghosts
    <2>5. QED
      BY <1>1, <2>1, <2>2, <2>3, <2>4 DEF Solo
  <1>10. QED
    BY <1>5, <1>6, <1>7, <1>8, <1>9

LEMMA SoloWrite ==
    ASSUME IInv, NEW s \in Savers, Solo(saver[s], store, before[s], ran[s], s),
           Delete(s) \/ Update(s) \/ Restore(s)
    PROVE  Solo(saver'[s], store', before'[s], ran'[s], s)
  <1>1. saver[s] \in Saver /\ Clean(saver[s], wrote[s])
    BY DEF IInv, TypeOK, AllClean
  <1>2. saver[s].pc = "restore" => saver[s].snapshot # None
    BY <1>1, Zenon DEF Clean
  <1>3. /\ saver[s] \in Saver /\ saver[s].snapshot \in {None, before[s]}
        /\ saver[s].pc = "restore" => saver[s].snapshot = before[s]
    BY <1>1, <1>2 DEF Solo
  <1>4. ASSUME NEW pc \in Pc
        PROVE  /\ Goto(s, pc) \in Saver /\ Goto(s, pc).pc = pc
               /\ Goto(s, pc).snapshot = saver[s].snapshot
    BY <1>3, Moves, Fields
  <1>5. ASSUME NEW restored \in BOOLEAN
        PROVE  LET next == Return(s, UpdateFailed(s, restored)) IN
               /\ next \in Saver /\ next.pc = "returned"
               /\ next.snapshot = saver[s].snapshot
               /\ ~next.report.saved /\ next.report.restored = restored
               /\ next.report.verified = "unknown"
    BY <1>3, SaverTypes, Moves, Fields, FailedBlocks
  <1>6. CASE Delete(s)
    <2> DEFINE raised == [Goto(s, "update") EXCEPT !.deleteFailed = TRUE]
    <2>1. Goto(s, "update") \in Saver /\ Goto(s, "update").pc = "update"
      BY <1>4 DEF Pc
    <2>2. /\ raised \in Saver /\ raised.pc = "update"
          /\ raised.snapshot = saver[s].snapshot
      BY <1>4, <2>1 DEF Saver, Pc
    <2>3. saver[s].pc = "delete" /\ Send(s, None, Goto(s, "update"), raised)
      BY <1>6 DEF Delete, At
    <2> HIDE DEF raised
    <2>4. /\ Solo(Goto(s, "update"), None, before[s], ran[s], s)
          /\ \A st : Solo(raised, st, before[s], ran[s], s)
      BY <1>3, <1>4, <2>1, <2>2 DEF Solo, Pc
    <2>5. QED
      BY <2>1, <2>2, <2>3, <2>4, SoloSend
  <1>7. CASE Update(s)
    <2> DEFINE raised == IF saver[s].exists /\ saver[s].snapshot # None
                         THEN Goto(s, "restore")
                         ELSE Return(s, UpdateFailed(s, FALSE))
    <2>1. saver[s].pc = "update" /\ Send(s, s, Goto(s, "find"), raised)
      BY <1>7 DEF Update, At
    <2>2. /\ raised \in Saver /\ raised.snapshot = saver[s].snapshot
          /\ \/ raised.pc = "restore"
             \/ /\ raised.pc = "returned" /\ ~raised.report.saved
                /\ ~raised.report.restored /\ raised.report.verified = "unknown"
      BY <1>4, <1>5 DEF Pc
    <2> HIDE DEF raised
    <2>3. Goto(s, "find") \in Saver /\ Solo(Goto(s, "find"), s, before[s], ran[s], s)
      BY <1>3, <1>4 DEF Solo, Pc
    <2>4. \A st : Solo(raised, st, before[s], ran[s], s)
      BY <1>3, <2>2 DEF Solo
    <2>5. QED
      BY <2>1, <2>2, <2>3, <2>4, SoloSend
  <1>8. CASE Restore(s)
    <2> DEFINE answered == Return(s, UpdateFailed(s, TRUE))
               raised   == Return(s, UpdateFailed(s, FALSE))
    <2>1. saver[s].pc = "restore" /\ Send(s, before[s], answered, raised)
      BY <1>3, <1>8 DEF Restore, At
    <2>2. /\ answered \in Saver /\ raised \in Saver
          /\ answered.pc = "returned" /\ raised.pc = "returned"
          /\ answered.snapshot = saver[s].snapshot /\ raised.snapshot = saver[s].snapshot
          /\ ~answered.report.saved /\ ~raised.report.saved /\ ~raised.report.restored
          /\ answered.report.verified = "unknown" /\ raised.report.verified = "unknown"
      BY <1>5
    <2> HIDE DEF answered, raised
    <2>3. /\ Solo(answered, before[s], before[s], ran[s], s)
          /\ \A st : Solo(raised, st, before[s], ran[s], s)
      BY <1>3, <2>2 DEF Solo
    <2>4. QED
      BY <2>1, <2>2, <2>3, SoloSend
  <1>9. QED
    BY <1>6, <1>7, <1>8

LEMMA SoloEnd ==
    ASSUME IInv, NEW s \in Savers, Solo(saver[s], store, before[s], ran[s], s),
           FindSaved(s) \/ ExecuteSaved(s) \/ Cancel(s)
    PROVE  Solo(saver'[s], store', before'[s], ran'[s], s)
  <1>1. /\ saver[s] \in Saver /\ saver[s].snapshot \in {None, before[s]}
        /\ ran \in [Savers -> Definition \cup {None}] /\ before' = before
    BY DEF IInv, TypeOK, Solo, FindSaved, ExecuteSaved, Cancel, TakeEffect, ghosts
  <1>2. ASSUME NEW pc \in Pc
        PROVE  Goto(s, pc).pc = pc /\ Goto(s, pc).snapshot = saver[s].snapshot
    BY <1>1, Fields
  <1>3. ASSUME NEW v \in {"yes", "no", "unknown"}
        PROVE  LET next == Return(s, Saved(v)) IN
               /\ next.pc = "returned" /\ next.snapshot = saver[s].snapshot
               /\ next.report.saved /\ ~next.report.restored
               /\ next.report.verified = v
    BY <1>1, SaverTypes, Fields, Blocks
  <1>4. CASE FindSaved(s) \/ ExecuteSaved(s)
    <2>1. store = s /\ store' = s
      BY <1>4 DEF FindSaved, ExecuteSaved, At, Solo
    <2>2. CASE Set(s, Goto(s, "execute"))
      BY <1>1, <1>2, <2>1, <2>2, SoloFields DEF Solo, Pc
    <2>3. ASSUME NEW v \in {"no", "unknown"}, Set(s, Return(s, Saved(v)))
          PROVE  Solo(saver'[s], store', before'[s], ran'[s], s)
      BY <1>1, <1>3, <2>1, <2>3, SoloFields DEF Solo
    <2>4. CASE Set(s, Return(s, Saved("yes"))) /\ ran'[s] = s
      BY <1>1, <1>3, <2>1, <2>4, SoloFields DEF Solo
    <2>5. QED
      BY <1>1, <1>4, <2>1, <2>2, <2>3, <2>4 DEF FindSaved, ExecuteSaved
  <1>5. CASE Cancel(s)
    <2>1. saver'[s] = Goto(s, "cancelled")
      BY <1>5, SoloFields DEF Cancel
    <2>2. QED
      BY <1>1, <1>2, <2>1 DEF Solo, Pc
  <1>6. QED
    BY <1>4, <1>5

LEMMA SoloStep == IInv /\ SoloInv /\ [Next]_vars => SoloInv'
  <1> SUFFICES ASSUME IInv, SoloInv, [Next]_vars, NEW s \in Savers, Alone(s)'
               PROVE  Solo(saver'[s], store', before'[s], ran'[s], s)
    BY DEF SoloInv
  <1>1. CASE UNCHANGED vars
    BY <1>1 DEF vars, ghosts, SoloInv, Alone, At
  <1>2. CASE Next
    <2>1. PICK t \in Savers : Step(t)
      BY <1>2 DEF Next, Step
    <2>2. saver'[t].pc # "idle" /\ \A u \in Savers \ {t} : saver'[u] = saver[u]
      BY <2>1, StepsLeaveIdle
    <2>3. t = s
      BY <2>2 DEF Alone, At
    <2>4. Alone(s)
      BY <2>2, <2>3 DEF Alone, At
    <2>5. Solo(saver[s], store, before[s], ran[s], s)
      BY <2>4 DEF SoloInv
    <2>6. QED
      BY <2>1, <2>3, <2>5, SoloEarly, SoloWrite, SoloEnd DEF Step, Progress
  <1>3. QED
    BY <1>1, <1>2

LEMMA SoloInductive == Spec => []SoloInv
  <1>1. Init => SoloInv
    <2>1. IdleSaver.pc = "idle" /\ IdleSaver.snapshot = None
      BY DEF IdleSaver
    <2>2. QED
      BY <2>1 DEF Init, SoloInv, Solo
  <1>2. QED
    BY <1>1, SoloStep, Inductive, PTL DEF Spec

(* Whatever attempts were lost before it, a save that nobody races and that*)
(* says saved has its own definition at Epicor.                            *)
THEOREM SavesAreStored == Spec => []SavedIsStored
  <1>1. SoloInv => SavedIsStored
    BY DEF SoloInv, Solo, SavedIsStored, At
  <1>2. QED
    BY <1>1, SoloInductive, PTL

(* A save that nobody races and that says restored has put back what its   *)
(* probe saw.                                                              *)
THEOREM RestoresArePrevious == Spec => []RestoredIsPrevious
  <1>1. SoloInv => RestoredIsPrevious
    BY DEF SoloInv, Solo, RestoredIsPrevious, At
  <1>2. QED
    BY <1>1, SoloInductive, PTL

(* A save that nobody races and that says verified has seen its own        *)
(* definition run.                                                         *)
THEOREM VerifiedDefinitionsRan == Spec => []VerifiedRan
  <1>1. IInv /\ SoloInv => VerifiedRan
    <2>2. ASSUME IInv, SoloInv, NEW s \in Savers, Alone(s), saver[s].report.verified = "yes"
          PROVE  ran[s] = s
      <3>1. saver[s].pc = "returned"
        BY <2>2, CleanVerdict DEF IInv, AllClean
      <3>2. QED
        BY <2>2, <3>1 DEF SoloInv, Solo
    <2>3. QED
      BY <2>2 DEF VerifiedRan
  <1>2. QED
    BY <1>1, Inductive, SoloInductive, PTL
=============================================================================
