--------------------------- MODULE GovernorProofs ---------------------------
(***************************************************************************)
(* Machine-checked proofs about Governor, for any number of calls, slots   *)
(* and sessions, and any timeouts, budget and window: no slot is lost, no  *)
(* work goes uncharged, every wait ends in time, and a session overshoots  *)
(* its budget by no more than its calls in progress.  Each part adds to    *)
(* the invariant of the one before: IInv, a call's ghosts and the slots;   *)
(* Timed, what a place in the line waits for; Afforded, what is kept back  *)
(* for the charges to come.                                                *)
(***************************************************************************)
EXTENDS Governor, FiniteSetTheorems, SequenceTheorems, WellFoundedInduction, TLAPS

\* Type correctness but for the bound on permits, which SlotsConserved gives.
Typed ==
    /\ permits \in Nat
    /\ waiters \in Seq(Calls)
    /\ spend \in [Sessions -> [0 .. Window -> Nat]]
    /\ call \in [Calls -> Call]

\* A call that has not ended has an age that covers the work done for it.
Dated ==
    \A c \in Calls :
        /\ call[c].pc # "idle" => call[c].end = "none"
        /\ call[c].work <= call[c].age
        /\ call[c].pc \in {"parse", "reparse"} => call[c].work = 0

Line == ToSet(waiters) = In("wait") /\ IsInjective(waiters)

Slots == permits + Cardinality(In("execute")) = MaxInflight

IInv == Typed /\ Dated /\ Line /\ Slots

-----------------------------------------------------------------------------
LEMMA IdleFacts ==
    /\ Idle \in Call /\ Answered \in Call /\ Cancelled \in Call
    /\ Idle.pc = "idle" /\ Idle.work = 0 /\ Idle.age = 0 /\ Idle.end = "none"
    /\ Answered.pc = "idle" /\ Answered.work = 0 /\ Answered.age = 0
    /\ Cancelled.pc = "idle" /\ Cancelled.work = 0 /\ Cancelled.age = 0
    /\ Answered.end = "answered" /\ Cancelled.end = "cancelled"
  <1>1. (CHOOSE s \in Sessions : TRUE) \in Sessions
    BY CallsAssumption
  <1>2. Idle \in Call
    BY <1>1, PolicyAssumption DEF Idle, Call, Pc
  <1>3. QED
    BY <1>1, <1>2 DEF Idle, Answered, Cancelled, Call

\* Ages are numbers, and older stays older, up to the bound.
LEMMA AgedFacts ==
    /\ \A n \in Nat : Aged(n) \in Nat
    /\ \A m, n \in Nat : m <= n => Aged(m) <= Aged(n) /\ m <= Aged(n)
  <1>1. Cardinality(Calls) \in Nat
    BY CallsAssumption, FS_CardinalityType
  <1>2. (Cardinality(Calls) - 1) \div MaxInflight \in Int
    BY <1>1, PolicyAssumption
  <1>3. MaxAge \in Int
    BY <1>2, PolicyAssumption DEF MaxAge
  <1>4. MaxDiagnosis \in Int
    BY PolicyAssumption DEF MaxDiagnosis
  <1>5. AgeBound \in Int
    BY <1>3, <1>4 DEF AgeBound
  <1>6. QED
    BY <1>5 DEF Aged

LEMMA RecordTyped ==
    ASSUME Typed, NEW c \in Calls, NEW next \in Call, Record(c, next)
    PROVE  /\ spend' \in [Sessions -> [0 .. Window -> Nat]]
           /\ call' \in [Calls -> Call] /\ call' = [call EXCEPT ![c] = next]
           /\ spend'[call[c].session][0] = spend[call[c].session][0] + call[c].age
  <1>1. call[c].session \in Sessions /\ call[c].age \in Nat /\ 0 \in 0 .. Window
    BY PolicyAssumption DEF Typed, Call
  <1>2. spend[call[c].session] \in [0 .. Window -> Nat]
    BY <1>1 DEF Typed
  <1>3. spend[call[c].session][0] + call[c].age \in Nat
    <2>1. spend[call[c].session][0] \in Nat
      BY <1>1, <1>2, Zenon
    <2>2. QED
      BY <1>1, <2>1
  <1>4. spend' = [spend EXCEPT ![call[c].session] =
                     [spend[call[c].session] EXCEPT ![0] = @ + call[c].age]]
    BY <1>1 DEF Record, Typed
  <1>5. [spend[call[c].session] EXCEPT ![0] = @ + call[c].age] \in [0 .. Window -> Nat]
    BY <1>1, <1>2, <1>3
  <1>6. QED
    BY <1>1, <1>2, <1>4, <1>5 DEF Record, Typed

LEMMA ForgetTyped ==
    ASSUME Typed, NEW c \in Calls, NEW next \in Call, Forget(c, next)
    PROVE  /\ spend' \in [Sessions -> [0 .. Window -> Nat]]
           /\ call' \in [Calls -> Call] /\ call' = [call EXCEPT ![c] = next]
  BY DEF Typed, Forget

\* A step of c moves c only.
LEMMA Moves ==
    ASSUME NEW c \in Calls, \A d \in Calls \ {c} : call'[d] = call[d], NEW p
    PROVE  In(p)' = IF call'[c].pc = p THEN In(p) \cup {c} ELSE In(p) \ {c}
  BY DEF In

LEMMA SlotTaken ==
    ASSUME Slots, NEW c \in Calls, \A d \in Calls \ {c} : call'[d] = call[d],
           permits \in Nat,
           \/ /\ call[c].pc = "execute" <=> call'[c].pc = "execute"
              /\ permits' = permits
           \/ /\ call[c].pc = "execute" /\ call'[c].pc # "execute"
              /\ permits' = permits + 1
           \/ /\ call[c].pc # "execute" /\ call'[c].pc = "execute"
              /\ permits' = permits - 1
    PROVE  Slots'
  <1>1. IsFiniteSet(In("execute"))
    BY CallsAssumption, FS_Subset DEF In
  <1>2. Cardinality(In("execute")) \in Nat
    BY <1>1, FS_CardinalityType
  <1>3. CASE call[c].pc = "execute" <=> call'[c].pc = "execute"
    <2>1. In("execute")' = In("execute")
      BY <1>3, Moves DEF In
    <2>2. permits' = permits
      BY <1>3
    <2>3. QED
      BY <2>1, <2>2 DEF Slots
  <1>4. CASE call[c].pc = "execute" /\ call'[c].pc # "execute"
    <2>1. In("execute")' = In("execute") \ {c} /\ c \in In("execute")
      BY <1>4, Moves DEF In
    <2>2. Cardinality(In("execute")') = Cardinality(In("execute")) - 1
      BY <1>1, <2>1, FS_RemoveElement
    <2>3. QED
      BY <1>2, <1>4, <2>2, PolicyAssumption DEF Slots
  <1>5. CASE call[c].pc # "execute" /\ call'[c].pc = "execute"
    <2>1. In("execute")' = In("execute") \cup {c} /\ c \notin In("execute")
      BY <1>5, Moves DEF In
    <2>2. Cardinality(In("execute")') = Cardinality(In("execute")) + 1
      BY <1>1, <2>1, FS_AddElement
    <2>3. QED
      BY <1>2, <1>5, <2>2, PolicyAssumption DEF Slots
  <1>6. QED
    BY <1>3, <1>4, <1>5

-----------------------------------------------------------------------------
(* The line.                                                               *)

LEMMA LineStays ==
    ASSUME Line, NEW c \in Calls, \A d \in Calls \ {c} : call'[d] = call[d],
           call[c].pc # "wait", call'[c].pc # "wait", UNCHANGED waiters
    PROVE  Line'
  <1>1. In("wait")' = In("wait")
    BY Moves DEF In
  <1>2. QED
    BY <1>1 DEF Line

LEMMA LineGrows ==
    ASSUME Typed, Line, NEW c \in Calls, \A d \in Calls \ {c} : call'[d] = call[d],
           call[c].pc # "wait", call'[c].pc = "wait", waiters' = Append(waiters, c)
    PROVE  Line'
  <1>1. In("wait")' = In("wait") \cup {c} /\ c \notin In("wait")
    BY Moves DEF In
  <1>2. /\ Append(waiters, c) \in Seq(Calls)
        /\ Len(Append(waiters, c)) = Len(waiters) + 1
        /\ \A i \in 1 .. Len(waiters) : Append(waiters, c)[i] = waiters[i]
        /\ Append(waiters, c)[Len(waiters) + 1] = c
    BY AppendProperties DEF Typed
  <1>3. DOMAIN waiters = 1 .. Len(waiters) /\ Len(waiters) \in Nat
    BY LenProperties DEF Typed
  <1>4. DOMAIN waiters' = 1 .. Len(waiters) + 1
    BY <1>2, LenProperties
  <1>5. \A i \in DOMAIN waiters : waiters[i] # c
    BY <1>1 DEF Line, ToSet
  <1>6. ToSet(waiters') = ToSet(waiters) \cup {c}
    BY <1>2, <1>3, <1>4 DEF ToSet
  <1>7. IsInjective(waiters')
    <2>1. SUFFICES ASSUME NEW a \in 1 .. Len(waiters) + 1, NEW b \in 1 .. Len(waiters) + 1,
                          waiters'[a] = waiters'[b]
                   PROVE  a = b
      BY <1>4 DEF IsInjective
    <2>2. CASE a \in 1 .. Len(waiters) /\ b \in 1 .. Len(waiters)
      BY <1>2, <1>3, <2>1, <2>2 DEF Line, IsInjective
    <2>3. CASE a = Len(waiters) + 1 \/ b = Len(waiters) + 1
      BY <1>2, <1>3, <1>5, <2>1, <2>3
    <2>4. QED
      BY <1>3, <2>2, <2>3
  <1>8. QED
    BY <1>1, <1>6, <1>7 DEF Line

\* The line without its i-th call.
LEMMA Removed ==
    ASSUME Typed, NEW i \in DOMAIN waiters
    PROVE  /\ RemoveAt(waiters, i) \in Seq(Calls)
           /\ Len(RemoveAt(waiters, i)) = Len(waiters) - 1
           /\ \A j \in 1 .. Len(waiters) - 1 :
                  RemoveAt(waiters, i)[j] = IF j < i THEN waiters[j] ELSE waiters[j + 1]
  <1>1. /\ DOMAIN waiters = 1 .. Len(waiters) /\ Len(waiters) \in Nat
        /\ \A j \in 1 .. Len(waiters) : waiters[j] \in Calls
    BY LenProperties, ElementOfSeq DEF Typed
  <1> DEFINE before == SubSeq(waiters, 1, i - 1)
             after == SubSeq(waiters, i + 1, Len(waiters))
  <1>2. /\ before \in Seq(Calls)
        /\ Len(before) = i - 1
        /\ \A j \in 1 .. i - 1 : before[j] = waiters[j]
    <2>1. i \in Int /\ i - 1 \in Int /\ \A j \in 1 .. i - 1 : waiters[j] \in Calls
      BY <1>1
    <2>2. /\ before \in Seq(Calls)
          /\ Len(before) = IF 1 <= i - 1 THEN (i - 1) - 1 + 1 ELSE 0
          /\ \A j \in 1 .. (i - 1) - 1 + 1 : before[j] = waiters[1 + j - 1]
      BY <2>1, SubSeqProperties
    <2>3. QED
      BY <1>1, <2>2
  <1>3. /\ after \in Seq(Calls)
        /\ Len(after) = Len(waiters) - i
        /\ \A j \in 1 .. Len(waiters) - i : after[j] = waiters[i + j]
    <2>1. i + 1 \in Int /\ Len(waiters) \in Int /\ \A j \in i + 1 .. Len(waiters) : waiters[j] \in Calls
      BY <1>1
    <2>2. /\ after \in Seq(Calls)
          /\ Len(after) = IF i + 1 <= Len(waiters) THEN Len(waiters) - (i + 1) + 1 ELSE 0
          /\ \A j \in 1 .. Len(waiters) - (i + 1) + 1 : after[j] = waiters[(i + 1) + j - 1]
      BY <2>1, SubSeqProperties
    <2>3. QED
      BY <1>1, <2>2
  <1>4. /\ before \o after \in Seq(Calls)
        /\ Len(before \o after) = Len(before) + Len(after)
        /\ \A j \in 1 .. Len(before) + Len(after) :
               (before \o after)[j] = IF j <= Len(before) THEN before[j]
                                      ELSE after[j - Len(before)]
    BY <1>2, <1>3, ConcatProperties
  <1>5. RemoveAt(waiters, i) = before \o after
    BY DEF RemoveAt
  <1> HIDE DEF before, after
  <1>6. Len(before \o after) = Len(waiters) - 1
    BY <1>1, <1>2, <1>3, <1>4
  <1>7. ASSUME NEW j \in 1 .. Len(waiters) - 1
        PROVE  (before \o after)[j] = IF j < i THEN waiters[j] ELSE waiters[j + 1]
    <2>1. (before \o after)[j] = IF j <= i - 1 THEN before[j] ELSE after[j - (i - 1)]
      BY <1>1, <1>2, <1>3, <1>4
    <2>2. ASSUME j < i
          PROVE  (before \o after)[j] = IF j < i THEN waiters[j] ELSE waiters[j + 1]
      BY <1>1, <1>2, <2>1, <2>2
    <2>3. ASSUME j >= i
          PROVE  (before \o after)[j] = IF j < i THEN waiters[j] ELSE waiters[j + 1]
      <3>1. j - (i - 1) \in 1 .. Len(waiters) - i /\ i + (j - (i - 1)) = j + 1
        BY <1>1, <2>3
      <3>2. QED
        BY <1>1, <1>3, <2>1, <2>3, <3>1
    <2>4. j < i \/ j >= i
      BY <1>1
    <2>5. QED
      BY <2>2, <2>3, <2>4
  <1>8. QED
    BY <1>4, <1>5, <1>6, <1>7

LEMMA LineShrinks ==
    ASSUME Typed, Line, NEW c \in Calls, \A d \in Calls \ {c} : call'[d] = call[d],
           call'[c].pc # "wait", NEW i \in DOMAIN waiters, waiters[i] = c,
           waiters' = RemoveAt(waiters, i)
    PROVE  Line'
  <1>1. In("wait")' = In("wait") \ {c}
    BY Moves
  <1>2. DOMAIN waiters = 1 .. Len(waiters) /\ Len(waiters) \in Nat
    BY LenProperties DEF Typed
  <1>3. /\ waiters' \in Seq(Calls)
        /\ Len(waiters') = Len(waiters) - 1
        /\ \A j \in 1 .. Len(waiters) - 1 :
               waiters'[j] = IF j < i THEN waiters[j] ELSE waiters[j + 1]
    BY Removed
  <1>4. DOMAIN waiters' = 1 .. Len(waiters) - 1
    BY <1>3, LenProperties
  <1>5. \A j \in DOMAIN waiters : waiters[j] = c => j = i
    BY DEF Line, IsInjective
  <1>6. ToSet(waiters') = ToSet(waiters) \ {c}
    <2>1. ASSUME NEW j \in 1 .. Len(waiters) - 1
          PROVE  \E k \in 1 .. Len(waiters) : k # i /\ waiters'[j] = waiters[k]
      <3>1. CASE j < i
        BY <1>2, <1>3, <3>1
      <3>2. CASE j >= i
        BY <1>2, <1>3, <3>2
      <3>3. QED
        BY <1>2, <3>1, <3>2
    <2>2. ASSUME NEW k \in 1 .. Len(waiters), k # i
          PROVE  \E j \in 1 .. Len(waiters) - 1 : waiters'[j] = waiters[k]
      <3>1. CASE k < i
        BY <1>2, <1>3, <3>1
      <3>2. CASE k > i
        <4>1. k - 1 \in 1 .. Len(waiters) - 1 /\ ~(k - 1 < i) /\ (k - 1) + 1 = k
          BY <1>2, <3>2
        <4>2. QED
          BY <1>3, <4>1
      <3>3. QED
        BY <1>2, <2>2, <3>1, <3>2
    <2>3. ASSUME NEW x \in ToSet(waiters') PROVE x \in ToSet(waiters) \ {c}
      <3>1. PICK j \in 1 .. Len(waiters) - 1 : x = waiters'[j]
        BY <1>4 DEF ToSet
      <3>2. PICK k \in 1 .. Len(waiters) : k # i /\ x = waiters[k]
        BY <2>1, <3>1
      <3>3. QED
        BY <1>2, <1>5, <3>2 DEF ToSet
    <2>4. ASSUME NEW x \in ToSet(waiters) \ {c} PROVE x \in ToSet(waiters')
      <3>1. PICK k \in 1 .. Len(waiters) : x = waiters[k]
        BY <1>2 DEF ToSet
      <3>2. PICK j \in 1 .. Len(waiters) - 1 : waiters'[j] = x
        BY <2>2, <3>1
      <3>3. QED
        BY <1>4, <3>2 DEF ToSet
    <2>5. QED
      BY <2>3, <2>4
  <1>7. IsInjective(waiters')
    <2>1. SUFFICES ASSUME NEW a \in 1 .. Len(waiters) - 1, NEW b \in 1 .. Len(waiters) - 1,
                          waiters'[a] = waiters'[b]
                   PROVE  a = b
      BY <1>4 DEF IsInjective
    <2> DEFINE At(j) == IF j < i THEN j ELSE j + 1
    <2>2. At(a) \in 1 .. Len(waiters) /\ At(b) \in 1 .. Len(waiters)
      BY <1>2
    <2>3. waiters'[a] = waiters[At(a)] /\ waiters'[b] = waiters[At(b)]
      BY <1>3
    <2>4. At(a) = At(b)
      BY <1>2, <2>1, <2>2, <2>3 DEF Line, IsInjective
    <2>5. QED
      BY <1>2, <2>4
  <1>8. QED
    BY <1>1, <1>6, <1>7 DEF Line

\* The head of the line leaves it as any other does.
LEMMA HeadRemoved ==
    ASSUME Typed, waiters # <<>>
    PROVE  /\ 1 \in DOMAIN waiters /\ Head(waiters) = waiters[1]
           /\ Tail(waiters) = RemoveAt(waiters, 1)
  <1>1. DOMAIN waiters = 1 .. Len(waiters) /\ Len(waiters) \in Nat \ {0}
    BY LenProperties, SeqEqual, EmptySeq DEF Typed
  <1>2. /\ Tail(waiters) \in Seq(Calls)
        /\ Len(Tail(waiters)) = Len(waiters) - 1
        /\ \A i \in 1 .. Len(Tail(waiters)) : Tail(waiters)[i] = waiters[i + 1]
    BY HeadTailProperties DEF Typed
  <1>3. /\ RemoveAt(waiters, 1) \in Seq(Calls)
        /\ Len(RemoveAt(waiters, 1)) = Len(waiters) - 1
        /\ \A j \in 1 .. Len(waiters) - 1 : RemoveAt(waiters, 1)[j] = waiters[j + 1]
    <2>1. 1 \in DOMAIN waiters
      BY <1>1
    <2>2. /\ RemoveAt(waiters, 1) \in Seq(Calls)
          /\ Len(RemoveAt(waiters, 1)) = Len(waiters) - 1
          /\ \A j \in 1 .. Len(waiters) - 1 :
                 RemoveAt(waiters, 1)[j] = IF j < 1 THEN waiters[j] ELSE waiters[j + 1]
      BY <2>1, Removed
    <2>3. \A j \in 1 .. Len(waiters) - 1 : ~(j < 1)
      BY <1>1
    <2>4. QED
      BY <2>2, <2>3
  <1>4. Tail(waiters) = RemoveAt(waiters, 1)
    BY <1>1, <1>2, <1>3, SeqEqual
  <1>5. QED
    BY <1>1, <1>4 DEF Typed

-----------------------------------------------------------------------------
(* A step of one call: it stays well typed, and moves by what it does.     *)

LEMMA DatedStep ==
    ASSUME Typed, Dated, NEW c \in Calls, NEW next \in Call,
           call' = [call EXCEPT ![c] = next],
           next.pc # "idle" => next.end = "none",
           next.work <= next.age,
           next.pc \in {"parse", "reparse"} => next.work = 0
    PROVE  Dated'
  <1>1. call'[c] = next /\ \A d \in Calls \ {c} : call'[d] = call[d]
    BY DEF Typed
  <1>2. ASSUME NEW d \in Calls
        PROVE  /\ call'[d].pc # "idle" => call'[d].end = "none"
               /\ call'[d].work <= call'[d].age
               /\ call'[d].pc \in {"parse", "reparse"} => call'[d].work = 0
    <2>1. CASE d = c
      BY <1>1, <2>1
    <2>2. CASE d # c
      <3>1. call'[d] = call[d]
        BY <1>1, <2>2
      <3>2. QED
        BY <3>1 DEF Dated
    <2>3. QED
      BY <2>1, <2>2
  <1>3. QED
    BY <1>2 DEF Dated

\* A call that goes on to pc, its time going on.
LEMMA GoesOn ==
    ASSUME Typed, Dated, NEW c \in Calls, call[c].pc # "idle",
           NEW pc \in Pc \ {"parse", "reparse"},
           NEW step \in Nat, NEW left \in 0 .. ProbeBudget,
           call' = [call EXCEPT ![c] = [call[c] EXCEPT !.pc = pc, !.step = step,
                                                       !.left = left]]
    PROVE  /\ call' \in [Calls -> Call] /\ Dated' /\ call'[c].pc = pc
           /\ \A d \in Calls \ {c} : call'[d] = call[d]
  <1> DEFINE next == [call[c] EXCEPT !.pc = pc, !.step = step, !.left = left]
  <1>1. call[c] \in Call
    BY DEF Typed
  <1>2. /\ next \in Call /\ next.pc = pc /\ next.end = call[c].end
        /\ next.work = call[c].work /\ next.age = call[c].age
    BY <1>1 DEF Call
  <1> HIDE DEF next
  <1>3. call' = [call EXCEPT ![c] = next]
    BY DEF next
  <1>4. Dated'
    <2>1. next.end = "none" /\ next.work <= next.age
      BY <1>2 DEF Dated
    <2>2. QED
      BY <1>2, <1>3, <2>1, DatedStep
  <1>5. QED
    BY <1>2, <1>3, <1>4 DEF Typed

\* A call that begins anew, or ends.
LEMMA Renews ==
    ASSUME Typed, Dated, NEW c \in Calls, NEW next \in Call,
           call' = [call EXCEPT ![c] = next],
           next.pc # "idle" => next.end = "none",
           next.work = 0, next.age = 0
    PROVE  /\ call' \in [Calls -> Call] /\ Dated' /\ call'[c].pc = next.pc
           /\ \A d \in Calls \ {c} : call'[d] = call[d]
  <1>1. next.work <= next.age /\ (next.pc \in {"parse", "reparse"} => next.work = 0)
    OBVIOUS
  <1>2. Dated'
    BY <1>1, DatedStep
  <1>3. QED
    BY <1>2 DEF Typed

LEMMA InitIInv == Init => IInv
  <1> SUFFICES ASSUME Init PROVE IInv
    OBVIOUS
  <1>1. Typed /\ Dated
    BY IdleFacts, PolicyAssumption, EmptySeq DEF Init, Typed, Dated
  <1>2. In("wait") = {} /\ In("execute") = {}
    BY IdleFacts DEF Init, In
  <1>3. Line
    <2>1. waiters = <<>> /\ DOMAIN waiters = {}
      BY DEF Init
    <2>2. QED
      BY <1>2, <2>1 DEF Line, ToSet, IsInjective
  <1>4. Slots
    <2>1. Cardinality(In("execute")) = 0 /\ permits = MaxInflight
      BY <1>2, FS_EmptySet DEF Init
    <2>2. QED
      BY <2>1, PolicyAssumption DEF Slots
  <1>5. QED
    BY <1>1, <1>3, <1>4 DEF IInv

\* What is left to say of a step once it is known where it takes its call.
Moved(c) ==
    /\ permits' \in Nat /\ spend' \in [Sessions -> [0 .. Window -> Nat]]
    /\ call' \in [Calls -> Call] /\ Dated'
    /\ \A d \in Calls \ {c} : call'[d] = call[d]

\* A step that neither takes nor leaves a slot or a place in the line.
LEMMA Elsewhere ==
    ASSUME IInv, NEW c \in Calls, Moved(c), UNCHANGED <<permits, waiters>>,
           call[c].pc \notin {"wait", "execute"}, call'[c].pc \notin {"wait", "execute"}
    PROVE  IInv'
  <1>1. Line'
    BY LineStays DEF IInv, Moved
  <1>2. Slots'
    BY SlotTaken DEF IInv, Moved, Typed
  <1>3. QED
    BY <1>1, <1>2 DEF IInv, Moved, Typed

LEMMA StartStep ==
    ASSUME IInv, NEW c \in Calls, NEW s \in Sessions, NEW kind \in Kinds, Start(c, s, kind)
    PROVE  IInv'
  <1> DEFINE next == [Idle EXCEPT !.pc = "parse", !.session = s, !.kind = kind]
  <1>1. /\ next \in Call /\ next.pc = "parse" /\ next.work = 0 /\ next.age = 0
        /\ next.end = "none"
    BY IdleFacts, CallsAssumption DEF Call, Pc
  <1> HIDE DEF next
  <1>2. call' = [call EXCEPT ![c] = next] /\ UNCHANGED <<permits, waiters, spend>>
    BY DEF Start, next
  <1>3. Moved(c) /\ call'[c].pc = "parse"
    BY <1>1, <1>2, Renews DEF IInv, Moved, Typed
  <1>4. QED
    BY <1>2, <1>3, Elsewhere DEF Start

LEMMA RefuseSqlStep ==
    ASSUME IInv, NEW c \in Calls, RefuseSql(c)
    PROVE  IInv'
  <1>1. /\ Forget(c, Answered) /\ call[c].pc \in {"parse", "reparse"}
        /\ UNCHANGED <<permits, waiters>>
    BY DEF RefuseSql, Parsing
  <1>2. Moved(c) /\ call'[c].pc = "idle"
    BY <1>1, IdleFacts, ForgetTyped, Renews DEF IInv, Moved, Typed
  <1>3. QED
    BY <1>1, <1>2, Elsewhere

LEMMA ReenterStep ==
    ASSUME IInv, NEW c \in Calls, Reenter(c)
    PROVE  IInv'
  <1> DEFINE next == [Idle EXCEPT !.pc = "reparse", !.session = call[c].session]
  <1>1. /\ next \in Call /\ next.pc = "reparse" /\ next.work = 0 /\ next.age = 0
        /\ next.end = "none"
    <2>1. call[c].session \in Sessions
      BY DEF IInv, Typed, Call
    <2>2. QED
      BY <2>1, IdleFacts DEF Call, Pc
  <1> HIDE DEF next
  <1>2. call[c].pc = "parse" /\ UNCHANGED <<permits, waiters>>
    BY DEF Reenter
  <1>3. CASE call' = [call EXCEPT ![c] = next] /\ UNCHANGED spend
    <2>1. Moved(c) /\ call'[c].pc = "reparse"
      BY <1>1, <1>2, <1>3, Renews DEF IInv, Moved, Typed
    <2>2. QED
      BY <1>2, <2>1, Elsewhere
  <1>4. CASE Forget(c, Answered)
    <2>1. Moved(c) /\ call'[c].pc = "idle"
      BY <1>2, <1>4, IdleFacts, ForgetTyped, Renews DEF IInv, Moved, Typed
    <2>2. QED
      BY <1>2, <2>1, Elsewhere
  <1>5. QED
    BY <1>3, <1>4 DEF Reenter, next

LEMMA ChargedEndStep ==
    ASSUME IInv, NEW c \in Calls, RefuseSaved(c) \/ Diagnosed(c)
    PROVE  IInv'
  <1>1. /\ Record(c, Answered) /\ call[c].pc \in {"parse", "diagnose"}
        /\ UNCHANGED <<permits, waiters>>
    BY DEF RefuseSaved, Diagnosed
  <1>2. Moved(c) /\ call'[c].pc = "idle"
    BY <1>1, IdleFacts, RecordTyped, Renews DEF IInv, Moved, Typed
  <1>3. QED
    BY <1>1, <1>2, Elsewhere

LEMMA AcquireStep ==
    ASSUME IInv, NEW c \in Calls, Acquire(c)
    PROVE  IInv'
  <1>1. call[c].pc \in {"parse", "reparse"} /\ UNCHANGED spend /\ call[c] \in Call
    BY DEF Acquire, Parsing, IInv, Typed
  <1>2. CASE /\ permits > 0 /\ permits' = permits - 1 /\ UNCHANGED waiters
             /\ call' = [call EXCEPT ![c].pc = "execute", ![c].step = 0]
    <2>1. call' = [call EXCEPT ![c] = [call[c] EXCEPT !.pc = "execute", !.step = 0,
                                                      !.left = call[c].left]]
      BY <1>1, <1>2 DEF IInv, Typed, Call
    <2>2. Moved(c) /\ call'[c].pc = "execute"
      <3>1. call[c].left \in 0 .. ProbeBudget /\ permits' \in Nat
        BY <1>1, <1>2 DEF Call, IInv, Typed
      <3>2. "execute" \in Pc \ {"parse", "reparse"} /\ 0 \in Nat /\ call[c].pc # "idle"
        BY <1>1 DEF Pc
      <3>3. /\ call' \in [Calls -> Call] /\ Dated' /\ call'[c].pc = "execute"
            /\ \A d \in Calls \ {c} : call'[d] = call[d]
        BY <2>1, <3>1, <3>2, GoesOn DEF IInv
      <3>4. QED
        BY <1>1, <3>1, <3>3 DEF IInv, Moved, Typed
    <2>3. Slots'
      BY <1>1, <1>2, <2>2, SlotTaken DEF IInv, Moved, Typed
    <2>4. Line'
      BY <1>1, <1>2, <2>2, LineStays DEF IInv, Moved
    <2>5. QED
      BY <1>2, <2>2, <2>3, <2>4 DEF IInv, Moved, Typed
  <1>3. CASE /\ waiters' = Append(waiters, c) /\ UNCHANGED permits
             /\ call' = [call EXCEPT ![c].pc = "wait"]
    <2>1. call' = [call EXCEPT ![c] = [call[c] EXCEPT !.pc = "wait", !.step = call[c].step,
                                                      !.left = call[c].left]]
      BY <1>1, <1>3 DEF IInv, Typed, Call
    <2>2. Moved(c) /\ call'[c].pc = "wait"
      <3>1. call[c].left \in 0 .. ProbeBudget /\ call[c].step \in Nat
        BY <1>1 DEF Call
      <3>2. "wait" \in Pc \ {"parse", "reparse"} /\ call[c].pc # "idle"
        BY <1>1 DEF Pc
      <3>3. /\ call' \in [Calls -> Call] /\ Dated' /\ call'[c].pc = "wait"
            /\ \A d \in Calls \ {c} : call'[d] = call[d]
        BY <2>1, <3>1, <3>2, GoesOn DEF IInv
      <3>4. QED
        BY <1>1, <1>3, <3>3 DEF IInv, Moved, Typed
    <2>3. Slots'
      BY <1>1, <1>3, <2>2, SlotTaken DEF IInv, Moved, Typed
    <2>4. Line'
      BY <1>1, <1>3, <2>2, LineGrows DEF IInv, Moved
    <2>5. waiters' \in Seq(Calls)
      BY <1>3, AppendProperties DEF IInv, Typed
    <2>6. QED
      BY <2>2, <2>3, <2>4, <2>5 DEF IInv, Moved, Typed
  <1>4. QED
    BY <1>2, <1>3 DEF Acquire

LEMMA GrantStep ==
    ASSUME IInv, NEW c \in Calls, Grant(c)
    PROVE  IInv'
  <1>1. /\ waiters # <<>> /\ permits > 0 /\ permits' = permits - 1 /\ UNCHANGED spend
        /\ call' = [call EXCEPT ![c].pc = "execute", ![c].step = 0]
        /\ 1 \in DOMAIN waiters /\ waiters[1] = c /\ waiters' = RemoveAt(waiters, 1)
    BY HeadRemoved DEF Grant, IInv
  <1>2. call[c].pc = "wait"
    BY <1>1 DEF IInv, Line, ToSet, In
  <1>3. call[c] \in Call
    BY DEF IInv, Typed
  <1>4. call' = [call EXCEPT ![c] = [call[c] EXCEPT !.pc = "execute", !.step = 0,
                                                    !.left = call[c].left]]
    BY <1>1, <1>3 DEF IInv, Typed, Call
  <1>5. Moved(c) /\ call'[c].pc = "execute"
    <2>1. call[c].left \in 0 .. ProbeBudget /\ permits' \in Nat
      BY <1>1, <1>3 DEF Call, IInv, Typed
    <2>2. "execute" \in Pc \ {"parse", "reparse"} /\ 0 \in Nat /\ call[c].pc # "idle"
      BY <1>2 DEF Pc
    <2>3. /\ call' \in [Calls -> Call] /\ Dated' /\ call'[c].pc = "execute"
          /\ \A d \in Calls \ {c} : call'[d] = call[d]
      BY <1>4, <2>1, <2>2, GoesOn DEF IInv
    <2>4. QED
      BY <1>1, <2>1, <2>3 DEF IInv, Moved, Typed
  <1>6. Slots'
    BY <1>1, <1>2, <1>5, SlotTaken DEF IInv, Moved, Typed
  <1>7. Line'
    BY <1>1, <1>5, LineShrinks DEF IInv, Moved
  <1>8. waiters' \in Seq(Calls)
    BY <1>1, Removed DEF IInv
  <1>9. QED
    BY <1>5, <1>6, <1>7, <1>8 DEF IInv, Moved, Typed

LEMMA ExecuteStep ==
    ASSUME IInv, NEW c \in Calls, Execute(c)
    PROVE  IInv'
  <1> DEFINE next == [Idle EXCEPT !.pc = "diagnose", !.session = call[c].session,
                                  !.left = ProbeBudget]
  <1>1. /\ next \in Call /\ next.pc = "diagnose" /\ next.work = 0 /\ next.age = 0
        /\ next.end = "none"
    <2>1. call[c].session \in Sessions /\ ProbeBudget \in 0 .. ProbeBudget
      BY PolicyAssumption DEF IInv, Typed, Call
    <2>2. QED
      BY <2>1, IdleFacts DEF Call, Pc
  <1> HIDE DEF next
  <1>2. call[c].pc = "execute" /\ permits' = permits + 1 /\ UNCHANGED waiters
    BY DEF Execute
  <1>3. Moved(c) /\ call'[c].pc \in {"idle", "diagnose"}
    <2>1. permits' \in Nat
      BY <1>2 DEF IInv, Typed
    <2>2. CASE Record(c, Answered)
      BY <2>1, <2>2, IdleFacts, RecordTyped, Renews DEF IInv, Moved
    <2>3. CASE Record(c, next)
      BY <1>1, <2>1, <2>3, RecordTyped, Renews DEF IInv, Moved
    <2>4. QED
      BY <2>2, <2>3 DEF Execute, next
  <1>4. Slots'
    BY <1>2, <1>3, SlotTaken DEF IInv, Moved, Typed
  <1>5. Line'
    BY <1>2, <1>3, LineStays DEF IInv, Moved
  <1>6. QED
    BY <1>2, <1>3, <1>4, <1>5 DEF IInv, Moved, Typed

LEMMA ProbeStep ==
    ASSUME IInv, NEW c \in Calls, SendProbe(c) \/ ProbeReply(c)
    PROVE  IInv'
  <1>1. call[c] \in Call
    BY DEF IInv, Typed
  <1>2. UNCHANGED <<permits, waiters, spend>> /\ call[c].pc \in {"diagnose", "probe"}
    BY DEF SendProbe, ProbeReply
  <1>3. \E pc \in {"probe", "diagnose"}, left \in 0 .. ProbeBudget :
            call' = [call EXCEPT ![c] = [call[c] EXCEPT !.pc = pc, !.step = 0, !.left = left]]
    <2>1. CASE SendProbe(c)
      <3>1. PICK pc \in {"probe", "diagnose"} :
                call' = [call EXCEPT ![c].pc = pc, ![c].step = 0, ![c].left = @ - 1]
        BY <2>1 DEF SendProbe
      <3>2. call[c].left - 1 \in 0 .. ProbeBudget
        BY <1>1, <2>1, PolicyAssumption DEF SendProbe, Call
      <3>3. call' = [call EXCEPT ![c] = [call[c] EXCEPT !.pc = pc, !.step = 0,
                                                        !.left = call[c].left - 1]]
        BY <1>1, <3>1 DEF IInv, Typed, Call
      <3>4. QED
        BY <3>2, <3>3
    <2>2. CASE ProbeReply(c)
      <3>1. call[c].left \in 0 .. ProbeBudget
        BY <1>1 DEF Call
      <3>2. call' = [call EXCEPT ![c] = [call[c] EXCEPT !.pc = "diagnose", !.step = 0,
                                                        !.left = call[c].left]]
        BY <1>1, <2>2 DEF ProbeReply, IInv, Typed, Call
      <3>3. QED
        BY <3>1, <3>2
    <2>3. QED
      BY <2>1, <2>2
  <1>4. Moved(c) /\ call'[c].pc \in {"probe", "diagnose"}
    <2>1. PICK pc \in {"probe", "diagnose"}, left \in 0 .. ProbeBudget :
              call' = [call EXCEPT ![c] = [call[c] EXCEPT !.pc = pc, !.step = 0, !.left = left]]
      BY <1>3
    <2>2. pc \in Pc \ {"parse", "reparse"} /\ 0 \in Nat /\ call[c].pc # "idle"
      BY <1>2 DEF Pc
    <2>3. /\ call' \in [Calls -> Call] /\ Dated' /\ call'[c].pc = pc
          /\ \A d \in Calls \ {c} : call'[d] = call[d]
      BY <2>1, <2>2, GoesOn DEF IInv
    <2>4. QED
      BY <1>2, <2>3 DEF IInv, Moved, Typed
  <1>5. QED
    BY <1>2, <1>4, Elsewhere

LEMMA CancelStep ==
    ASSUME IInv, NEW c \in Calls, Cancel(c)
    PROVE  IInv'
  <1>1. /\ Forget(c, Cancelled) /\ LeaveLine(c)
        /\ permits' = IF call[c].pc = "execute" THEN permits + 1 ELSE permits
    BY DEF Cancel
  <1>2. permits' \in Nat
    BY <1>1 DEF IInv, Typed
  <1>3. Moved(c) /\ call'[c].pc = "idle"
    BY <1>1, <1>2, IdleFacts, ForgetTyped, Renews DEF IInv, Moved
  <1>4. Slots'
    BY <1>1, <1>3, SlotTaken DEF IInv, Moved, Typed
  <1>5. Line' /\ waiters' \in Seq(Calls)
    <2>1. CASE call[c].pc # "wait" /\ UNCHANGED waiters
      BY <1>3, <2>1, LineStays DEF IInv, Moved, Typed
    <2>2. CASE \E i \in DOMAIN waiters : waiters[i] = c /\ waiters' = RemoveAt(waiters, i)
      BY <1>3, <2>2, LineShrinks, Removed DEF IInv, Moved
    <2>3. QED
      BY <1>1, <2>1, <2>2 DEF LeaveLine
  <1>6. QED
    BY <1>2, <1>3, <1>4, <1>5 DEF IInv, Moved, Typed

LEMMA TickStep ==
    ASSUME IInv, Tick
    PROVE  IInv'
  <1>1. /\ call' = [c \in Calls |-> Older(c)] /\ spend' = [s \in Sessions |-> Pruned(s)]
        /\ UNCHANGED <<permits, waiters>>
    BY DEF Tick
  <1>2. ASSUME NEW c \in Calls
        PROVE  /\ Older(c) \in Call /\ Older(c).pc = call[c].pc
               /\ Older(c).end = call[c].end /\ Older(c).work <= Older(c).age
               /\ call[c].pc \in {"parse", "reparse"} => Older(c).work = 0
    <2>1. /\ call[c] \in Call /\ call[c].work <= call[c].age
          /\ call[c].pc \in {"parse", "reparse"} => call[c].work = 0
      BY DEF IInv, Typed, Dated
    <2>2. call[c].age \in Nat /\ call[c].step \in Nat /\ call[c].work \in Nat
      BY <2>1 DEF Call
    <2>3. /\ Aged(call[c].age) \in Nat /\ Aged(call[c].step) \in Nat
          /\ Aged(call[c].work) \in Nat
          /\ Aged(call[c].work) <= Aged(call[c].age) /\ call[c].work <= Aged(call[c].age)
      BY <2>1, <2>2, AgedFacts
    <2>4. CASE call[c].pc = "idle"
      BY <2>1, <2>4 DEF Older
    <2>5. CASE call[c].pc # "idle"
      <3>1. Older(c) =
              [call[c] EXCEPT
                 !.age = Aged(call[c].age),
                 !.step = IF call[c].pc = "wait" THEN 0 ELSE Aged(call[c].step),
                 !.work = IF call[c].pc \in {"execute", "probe"} THEN Aged(call[c].work)
                          ELSE call[c].work]
        BY <2>1, <2>5 DEF Older, Call
      <3>2. /\ (IF call[c].pc = "wait" THEN 0 ELSE Aged(call[c].step)) \in Nat
            /\ (IF call[c].pc \in {"execute", "probe"} THEN Aged(call[c].work)
                ELSE call[c].work) \in Nat
        BY <2>2, <2>3
      <3>3. Older(c) \in Call
        BY <2>1, <2>3, <3>1, <3>2 DEF Call
      <3>4. /\ Older(c).pc = call[c].pc /\ Older(c).end = call[c].end
            /\ Older(c).age = Aged(call[c].age)
            /\ Older(c).work = IF call[c].pc \in {"execute", "probe"} THEN Aged(call[c].work)
                               ELSE call[c].work
        BY <2>1, <3>1 DEF Call
      <3>5. QED
        BY <2>1, <2>3, <3>3, <3>4
    <2>6. QED
      BY <2>4, <2>5
  <1>3. spend' \in [Sessions -> [0 .. Window -> Nat]]
    <2>1. ASSUME NEW s \in Sessions PROVE Pruned(s) \in [0 .. Window -> Nat]
      <3>1. spend[s] \in [0 .. Window -> Nat]
        BY DEF IInv, Typed
      <3>2. \A a \in 0 .. Window : a > 0 => a - 1 \in 0 .. Window
        BY PolicyAssumption
      <3>3. QED
        BY <3>1, <3>2 DEF Pruned
    <2>2. QED
      BY <1>1, <2>1
  <1>4. Typed' /\ Dated'
    <2>1. Typed'
      BY <1>1, <1>2, <1>3 DEF IInv, Typed
    <2>2. Dated'
      BY <1>1, <1>2 DEF IInv, Dated
    <2>3. QED
      BY <2>1, <2>2
  <1>5. \A pc \in Pc : In(pc)' = In(pc)
    BY <1>1, <1>2 DEF In
  <1>6. Line' /\ Slots'
    BY <1>1, <1>5 DEF IInv, Line, Slots, Pc
  <1>7. QED
    BY <1>4, <1>6 DEF IInv

LEMMA NextIInv == IInv /\ [Next]_vars => IInv'
  <1> SUFFICES ASSUME IInv, [Next]_vars PROVE IInv'
    OBVIOUS
  <1>1. CASE Tick
    BY <1>1, TickStep
  <1>2. ASSUME NEW c \in Calls, NEW s \in Sessions, NEW kind \in Kinds, Start(c, s, kind)
        PROVE  IInv'
    BY <1>2, StartStep
  <1>3. ASSUME NEW c \in Calls, Progress(c) PROVE IInv'
    BY <1>3, RefuseSqlStep, ReenterStep, ChargedEndStep, AcquireStep, GrantStep,
       ExecuteStep, ProbeStep DEF Progress
  <1>4. ASSUME NEW c \in Calls, Cancel(c) PROVE IInv'
    BY <1>4, CancelStep
  <1>5. CASE UNCHANGED vars
    <2>1. /\ UNCHANGED permits /\ UNCHANGED waiters /\ UNCHANGED spend /\ UNCHANGED call
      BY <1>5 DEF vars
    <2>2. \A pc : In(pc)' = In(pc)
      BY <2>1 DEF In
    <2>3. QED
      BY <2>1, <2>2 DEF IInv, Typed, Dated, Line, Slots
  <1>6. QED
    BY <1>1, <1>2, <1>3, <1>4, <1>5 DEF Next

LEMMA Inductive == Spec => []IInv
  BY InitIInv, NextIInv, PTL DEF Spec

(* Every reachable state of the governor and its calls is well typed: no   *)
(* more permits are free than there are slots.                             *)
THEOREM TypeCorrect == Spec => []TypeOK
  <1>1. IInv => TypeOK
    <2>1. Cardinality(In("execute")) \in Nat
      BY CallsAssumption, FS_Subset, FS_CardinalityType DEF In
    <2>2. QED
      BY <2>1, PolicyAssumption DEF IInv, Typed, Slots, TypeOK
  <1>2. QED
    BY <1>1, Inductive, PTL

(* Whatever times out, fails or is cancelled, in the line or at work, no   *)
(* slot is lost or made up, and the line holds each waiting call once.     *)
THEOREM SlotsAreConserved == Spec => []SlotsConserved
  <1>1. IInv => SlotsConserved
    BY DEF IInv, Line, Slots, SlotsConserved
  <1>2. QED
    BY <1>1, Inductive, PTL

-----------------------------------------------------------------------------
\* What a session is charged when c ends answered covers what was done for it.
Charged(c) ==
    call[c].pc # "idle" /\ call'[c].end = "answered"
        => spend'[call[c].session][0] >= spend[call[c].session][0] + call[c].work

LEMMA Spending ==
    ASSUME Typed, NEW c \in Calls
    PROVE  /\ call[c] \in Call /\ call[c].session \in Sessions
           /\ call[c].age \in Nat /\ call[c].work \in Nat
           /\ spend[call[c].session][0] \in Nat
  <1>1. /\ call[c] \in Call /\ call[c].session \in Sessions
        /\ call[c].age \in Nat /\ call[c].work \in Nat
    BY DEF Typed, Call
  <1>2. spend[call[c].session] \in [0 .. Window -> Nat] /\ 0 \in 0 .. Window
    BY <1>1, PolicyAssumption DEF Typed
  <1>3. spend[call[c].session][0] \in Nat
    BY <1>2, Zenon
  <1>4. QED
    BY <1>1, <1>3

\* A call that does not end, and one that ends uncharged without any work.
LEMMA NotAnswered ==
    ASSUME NEW c \in Calls, call'[c].end # "answered"
    PROVE  Charged(c)
  BY DEF Charged

LEMMA Recorded ==
    ASSUME IInv, NEW c \in Calls, NEW next \in Call, Record(c, next)
    PROVE  Charged(c)
  <1>1. spend'[call[c].session][0] = spend[call[c].session][0] + call[c].age
    BY RecordTyped DEF IInv
  <1>2. call[c].work <= call[c].age
    BY DEF IInv, Dated
  <1>3. QED
    BY <1>1, <1>2, Spending DEF Charged, IInv

LEMMA Forgotten ==
    ASSUME IInv, NEW c \in Calls, NEW next, Forget(c, next), call[c].pc \in {"parse", "reparse"}
    PROVE  Charged(c)
  <1>1. call[c].work = 0 /\ spend' = spend
    BY DEF IInv, Dated, Forget
  <1>2. QED
    BY <1>1, Spending DEF Charged, IInv

LEMMA OwnStep ==
    ASSUME IInv, NEW c \in Calls, Progress(c) \/ Cancel(c)
    PROVE  Charged(c)
  <1>1. CASE RefuseSql(c)
    BY <1>1, Forgotten DEF RefuseSql, Parsing
  <1>2. CASE Reenter(c)
    <2>1. CASE Forget(c, Answered)
      BY <1>2, <2>1, Forgotten DEF Reenter
    <2>2. CASE call' = [call EXCEPT ![c] = [Idle EXCEPT !.pc = "reparse",
                                                        !.session = call[c].session]]
      <3>1. call'[c].end = "none"
        BY <2>2, IdleFacts DEF IInv, Typed, Call
      <3>2. QED
        BY <3>1, NotAnswered
    <2>3. QED
      BY <1>2, <2>1, <2>2 DEF Reenter
  <1>3. CASE RefuseSaved(c) \/ Diagnosed(c)
    BY <1>3, Recorded, IdleFacts DEF RefuseSaved, Diagnosed
  <1>4. CASE Acquire(c) \/ Grant(c) \/ SendProbe(c) \/ ProbeReply(c)
    <2>1. call[c].pc # "idle"
      <3>1. CASE Grant(c)
        <4>1. c \in In("wait")
          BY <3>1, HeadRemoved DEF Grant, IInv, Line, ToSet
        <4>2. QED
          BY <4>1 DEF In
      <3>2. CASE ~Grant(c)
        BY <1>4, <3>2 DEF Acquire, Parsing, SendProbe, ProbeReply
      <3>3. QED
        BY <3>1, <3>2
    <2>2. call'[c].end = call[c].end
      BY <1>4 DEF Acquire, Grant, SendProbe, ProbeReply, IInv, Typed, Call
    <2>3. QED
      BY <2>1, <2>2, NotAnswered DEF IInv, Dated
  <1>5. CASE Execute(c)
    <2>1. CASE Record(c, Answered)
      BY <2>1, Recorded, IdleFacts
    <2>2. CASE Record(c, [Idle EXCEPT !.pc = "diagnose", !.session = call[c].session,
                                      !.left = ProbeBudget])
      <3>1. call'[c].end = "none"
        BY <2>2, IdleFacts DEF Record, IInv, Typed, Call
      <3>2. QED
        BY <3>1, NotAnswered
    <2>3. QED
      BY <1>5, <2>1, <2>2 DEF Execute
  <1>6. CASE Cancel(c)
    <2>1. call'[c].end = "cancelled"
      BY <1>6, IdleFacts DEF Cancel, Forget, IInv, Typed
    <2>2. QED
      BY <2>1, NotAnswered
  <1>7. QED
    BY <1>1, <1>2, <1>3, <1>4, <1>5, <1>6 DEF Progress

\* A call that a step is not about has not ended in it.
LEMMA Unmoved ==
    ASSUME IInv, NEW c \in Calls,
           call'[c] = call[c] \/ call'[c].end = call[c].end
    PROVE  Charged(c)
  BY DEF IInv, Dated, Charged

LEMMA ChargedStep == IInv /\ [Next]_vars => \A c \in Calls : Charged(c)
  <1> SUFFICES ASSUME IInv, [Next]_vars, NEW c \in Calls PROVE Charged(c)
    OBVIOUS
  <1>1. CASE Tick
    <2>1. call'[c].end = call[c].end
      BY <1>1 DEF Tick, Older, IInv, Typed, Call
    <2>2. QED
      BY <2>1, Unmoved
  <1>2. ASSUME NEW d \in Calls, NEW s \in Sessions, NEW kind \in Kinds, Start(d, s, kind)
        PROVE  Charged(c)
    <2>1. CASE d = c
      BY <1>2, <2>1 DEF Start, Charged
    <2>2. CASE d # c
      BY <1>2, <2>2, Unmoved DEF Start, IInv, Typed
    <2>3. QED
      BY <2>1, <2>2
  <1>3. ASSUME NEW d \in Calls, Progress(d) \/ Cancel(d)
        PROVE  Charged(c)
    <2>1. CASE d = c
      BY <1>3, <2>1, OwnStep
    <2>2. CASE d # c
      <3>1. call'[c] = call[c]
        BY <1>3, <2>2 DEF Progress, RefuseSql, Reenter, RefuseSaved, Acquire, Grant, Execute,
           SendProbe, ProbeReply, Diagnosed, Cancel, Record, Forget, IInv, Typed
      <3>2. QED
        BY <3>1, Unmoved
    <2>3. QED
      BY <2>1, <2>2
  <1>4. CASE UNCHANGED vars
    BY <1>4, Unmoved DEF vars
  <1>5. QED
    BY <1>1, <1>2, <1>3, <1>4 DEF Next

(* Every second that Epicor executed for a call, a probe's too, is charged *)
(* to its session by the time the call is answered, however it ends.       *)
THEOREM ExecutedWorkIsCharged == Spec => WorkIsCharged
  <1>1. IInv /\ [Next]_vars =>
            [\A c \in Calls :
               LET s == call[c].session IN
               call[c].pc # "idle" /\ call'[c].end = "answered"
                  => spend'[s][0] >= spend[s][0] + call[c].work]_vars
    BY ChargedStep DEF Charged
  <1>2. QED
    BY <1>1, Inductive, PTL DEF Spec, WorkIsCharged

-----------------------------------------------------------------------------
(* The wait.  A call has a place in the line; the executions that end       *)
(* before it is served have begun, or will as others end.                  *)

\* The executions among these calls that have lasted for x.
Slow(calls, x) == {e \in Calls : calls[e].pc = "execute" /\ calls[e].step >= x}

\* c, at place i, is served in the k-th round after this one at the latest:
\* of the executions under way and the free slots, as many as are ahead of it
\* in its round end in time for it.
Fits(free, calls, c, i, k) ==
    /\ calls[c].age + (k + 1) * Timeout <= MaxAge
    /\ i <= free + Cardinality(Slow(calls, calls[c].age + (k + 2) * Timeout - MaxAge))
              + k * MaxInflight

LineInTime ==
    \A i \in DOMAIN waiters, k \in Nat :
        k * MaxInflight < i /\ i <= (k + 1) * MaxInflight
            => Fits(permits, call, waiters[i], i, k)

\* How long a call's own timers let it be where it is.
OwnTime(cl) ==
    /\ cl.pc \in {"parse", "reparse"} => cl.age = cl.step /\ cl.step <= ParseTimeout
    /\ cl.pc = "execute" => cl.step <= Timeout /\ cl.age + (Timeout - cl.step) <= MaxAge
    /\ cl.pc \in {"diagnose", "probe"} => cl.step <= Timeout
    /\ cl.pc = "diagnose" =>
          /\ cl.left = 0 => cl.step = 0
          /\ cl.age <= 2 * Timeout * (ProbeBudget - cl.left) + cl.step
    /\ cl.pc = "probe" =>
          cl.age + Timeout <= 2 * Timeout * (ProbeBudget - cl.left) + cl.step

InTime == \A c \in Calls : OwnTime(call[c])

Timed == IInv /\ LineInTime /\ InTime

\* Products of naturals grow with their factors.
LEMMA Products ==
    /\ \A a, b \in Nat : a * b \in Nat
    /\ \A a, b, m \in Nat : a <= b => a * m <= b * m
    /\ \A a, m \in Nat : (a + 1) * m = a * m + m /\ (a + 2) * m = a * m + m + m
    /\ \A m \in Nat : 0 * m = 0 /\ 1 * m = m
  <1>1. \A a, b \in Nat : a * b \in Nat
    OBVIOUS
  <1>2. ASSUME NEW a \in Nat, NEW b \in Nat, NEW m \in Nat, a <= b
        PROVE  a * m <= b * m
    <2>1. b - a \in Nat /\ (b - a) * m \in Nat
      BY <1>2
    <2>2. b * m = a * m + (b - a) * m
      BY <1>2
    <2>3. QED
      BY <2>1, <2>2
  <1>3. QED
    BY <1>1, <1>2

\* How many rounds there can be: no more than the other calls fill.
Rounds == (Cardinality(Calls) - 1) \div MaxInflight

LEMMA RoundFacts ==
    ASSUME NEW c \in Calls
    PROVE  /\ Cardinality(Calls) \in Nat \ {0} /\ Rounds \in Nat
           /\ Rounds * MaxInflight <= Cardinality(Calls) - 1
           /\ Cardinality(Calls) - 1 < (Rounds + 1) * MaxInflight
           /\ MaxAge = ParseTimeout + (Rounds + 1) * Timeout
           /\ MaxAge \in Nat /\ ParseTimeout + Timeout <= MaxAge
  <1>1. Cardinality(Calls) \in Nat \ {0}
    BY CallsAssumption, FS_CardinalityType, FS_EmptySet
  <1> DEFINE n == Cardinality(Calls) - 1
  <1>2. n \in Nat
    BY <1>1
  <1> HIDE DEF n
  <1>3. n \div MaxInflight \in Nat
    BY <1>2, PolicyAssumption
  <1>4. /\ (n \div MaxInflight) * MaxInflight <= n
        /\ n < (n \div MaxInflight + 1) * MaxInflight
    BY <1>2, PolicyAssumption
  <1>5. Rounds = n \div MaxInflight
    BY DEF Rounds, n
  <1>6. MaxAge = ParseTimeout + (Rounds + 1) * Timeout
    <2>1. MaxAge = ParseTimeout + Timeout * (Rounds + 1)
      BY DEF MaxAge, Rounds
    <2>2. QED
      BY <1>3, <1>5, <2>1, PolicyAssumption
  <1>7. 1 * Timeout <= (Rounds + 1) * Timeout
    BY <1>3, <1>5, Products, PolicyAssumption
  <1>8. QED
    BY <1>1, <1>3, <1>4, <1>5, <1>6, <1>7, Products, PolicyAssumption DEF n

\* A place that others can fill is within the rounds.
LEMMA WithinRounds ==
    ASSUME NEW c \in Calls, NEW k \in Nat, k * MaxInflight < Cardinality(Calls)
    PROVE  k <= Rounds /\ (k + 1) * Timeout <= MaxAge - ParseTimeout
  <1>1. ~(Rounds + 1 <= k)
    <2>1. ASSUME Rounds + 1 <= k PROVE FALSE
      <3>1. (Rounds + 1) * MaxInflight <= k * MaxInflight
        BY <2>1, RoundFacts, Products, PolicyAssumption
      <3>2. Rounds * MaxInflight \in Nat /\ (Rounds + 1) * MaxInflight \in Nat
            /\ k * MaxInflight \in Nat
        BY RoundFacts, Products, PolicyAssumption
      <3>3. QED
        BY <3>1, <3>2, RoundFacts
    <2>2. QED
      BY <2>1
  <1>2. k <= Rounds
    BY <1>1, RoundFacts
  <1>3. (k + 1) * Timeout <= (Rounds + 1) * Timeout
    BY <1>2, RoundFacts, Products, PolicyAssumption
  <1>4. QED
    BY <1>2, <1>3, RoundFacts, Products, PolicyAssumption
-----------------------------------------------------------------------------
(* Counting the executions.                                                *)

LEMMA SlowFinite ==
    ASSUME NEW calls, NEW x
    PROVE  /\ Slow(calls, x) \subseteq Calls /\ IsFiniteSet(Slow(calls, x))
           /\ Cardinality(Slow(calls, x)) \in Nat
  <1>1. Slow(calls, x) \subseteq Calls
    BY DEF Slow
  <1>2. QED
    BY <1>1, CallsAssumption, FS_Subset, FS_CardinalityType

\* A call that does not come to Execute leaves the executions, but for its own.
LEMMA SlowLeft ==
    ASSUME NEW c \in Calls, NEW x,
           \A d \in Calls \ {c} : call'[d] = call[d],
           call'[c].pc # "execute"
    PROVE  Slow(call', x) = Slow(call, x) \ {c}
  BY DEF Slow

\* What is free or late enough is not fewer after a step that moves one call,
\* unless that call begins to execute.
LEMMA SlotsFreed ==
    ASSUME IInv, IInv', NEW c \in Calls, NEW x \in Int,
           \A d \in Calls \ {c} : call'[d] = call[d],
           call'[c].pc # "execute",
           permits' = IF call[c].pc = "execute" THEN permits + 1 ELSE permits
    PROVE  permits' + Cardinality(Slow(call', x)) >= permits + Cardinality(Slow(call, x))
  <1>1. Slow(call', x) = Slow(call, x) \ {c}
    BY SlowLeft
  <1>2. permits \in Nat
    BY DEF IInv, Typed
  <1>3. CASE call[c].pc = "execute"
    <2>1. Cardinality(Slow(call, x) \ {c}) >= Cardinality(Slow(call, x)) - 1
      <3>1. Cardinality(Slow(call, x) \ {c}) =
              IF c \in Slow(call, x) THEN Cardinality(Slow(call, x)) - 1
              ELSE Cardinality(Slow(call, x))
        BY SlowFinite, FS_RemoveElement
      <3>2. QED
        BY <3>1, SlowFinite
    <2>2. Cardinality(Slow(call', x)) \in Nat /\ Cardinality(Slow(call, x)) \in Nat
      BY SlowFinite
    <2>3. QED
      BY <1>1, <1>2, <1>3, <2>1, <2>2
  <1>4. CASE call[c].pc # "execute"
    <2>1. Slow(call', x) = Slow(call, x)
      BY <1>1, <1>4 DEF Slow
    <2>2. QED
      BY <1>2, <1>4, <2>1, SlowFinite
  <1>5. QED
    BY <1>3, <1>4

\* A call that begins to execute takes a free slot.
LEMMA SlotUsed ==
    ASSUME IInv, NEW c \in Calls, NEW x \in Int,
           \A d \in Calls \ {c} : call'[d] = call[d],
           call[c].pc # "execute", permits' = permits - 1
    PROVE  permits' + Cardinality(Slow(call', x)) + 1 >= permits + Cardinality(Slow(call, x))
  <1>1. Slow(call, x) \subseteq Slow(call', x)
    BY DEF Slow
  <1>2. Cardinality(Slow(call, x)) <= Cardinality(Slow(call', x))
    BY <1>1, SlowFinite, FS_Subset
  <1>3. permits \in Nat
    BY DEF IInv, Typed
  <1>4. QED
    BY <1>2, <1>3, SlowFinite

-----------------------------------------------------------------------------
(* The line.                                                               *)

LEMMA LineFacts ==
    ASSUME IInv
    PROVE  /\ DOMAIN waiters = 1 .. Len(waiters) /\ Len(waiters) \in Nat
           /\ \A i \in DOMAIN waiters :
                  /\ waiters[i] \in Calls /\ call[waiters[i]].pc = "wait"
                  /\ call[waiters[i]].age \in Nat
  <1>1. /\ DOMAIN waiters = 1 .. Len(waiters) /\ Len(waiters) \in Nat
        /\ \A i \in DOMAIN waiters : waiters[i] \in Calls
    BY LenProperties, ElementOfSeq DEF IInv, Typed
  <1>2. \A i \in DOMAIN waiters : waiters[i] \in In("wait")
    BY DEF IInv, Line, ToSet
  <1>3. QED
    BY <1>1, <1>2 DEF In, IInv, Typed, Call

\* Each place has a round, and no place two.
LEMMA RoundOf ==
    ASSUME NEW i \in Nat \ {0}
    PROVE  \E k \in Nat : k * MaxInflight < i /\ i <= (k + 1) * MaxInflight
  <1> DEFINE k == (i - 1) \div MaxInflight
  <1>1. k \in Nat /\ k * MaxInflight <= i - 1 /\ i - 1 < (k + 1) * MaxInflight
    <2>1. i - 1 \in Nat
      OBVIOUS
    <2> DEFINE n == i - 1
    <2> HIDE DEF n
    <2>2. n \in Nat => /\ n \div MaxInflight \in Nat
                       /\ (n \div MaxInflight) * MaxInflight <= n
                       /\ n < (n \div MaxInflight + 1) * MaxInflight
      BY PolicyAssumption
    <2>3. QED
      BY <2>1, <2>2 DEF n
  <1> HIDE DEF k
  <1>2. k * MaxInflight \in Nat /\ (k + 1) * MaxInflight \in Nat
    BY <1>1, Products, PolicyAssumption
  <1>3. QED
    BY <1>1, <1>2

\* One place ahead: a round ahead, and then everybody is in time, or the same
\* round, and there is one more to spare.
LEMMA Ahead ==
    ASSUME IInv, LineInTime, NEW i \in DOMAIN waiters, NEW k \in Nat,
           k * MaxInflight < i - 1, i - 1 <= (k + 1) * MaxInflight
    PROVE  LET age == call[waiters[i]].age
               x   == age + (k + 2) * Timeout - MaxAge
           IN  /\ age + (k + 1) * Timeout <= MaxAge
               /\ x <= 0 \/ i <= permits + Cardinality(Slow(call, x)) + k * MaxInflight
  <1>1. i \in Nat /\ call[waiters[i]].age \in Nat
    BY LineFacts
  <1>2. /\ k * MaxInflight \in Nat /\ (k + 1) * MaxInflight = k * MaxInflight + MaxInflight
        /\ (k + 2) * MaxInflight = k * MaxInflight + MaxInflight + MaxInflight
        /\ k * Timeout \in Nat /\ (k + 1) * Timeout = k * Timeout + Timeout
        /\ (k + 2) * Timeout = k * Timeout + Timeout + Timeout
        /\ MaxInflight \in Nat \ {0} /\ Timeout \in Nat \ {0}
    BY Products, PolicyAssumption
  <1>3. MaxAge \in Nat
    BY LineFacts, RoundFacts
  <1>4. CASE i <= (k + 1) * MaxInflight
    <2>1. Fits(permits, call, waiters[i], i, k)
      BY <1>1, <1>2, <1>4 DEF LineInTime
    <2>2. QED
      BY <2>1 DEF Fits
  <1>5. CASE i > (k + 1) * MaxInflight
    <2>1. (k + 1) * MaxInflight < i /\ i <= ((k + 1) + 1) * MaxInflight /\ k + 1 \in Nat
      BY <1>1, <1>2, <1>5
    <2>2. Fits(permits, call, waiters[i], i, k + 1)
      BY <2>1 DEF LineInTime
    <2>3. call[waiters[i]].age + ((k + 1) + 1) * Timeout <= MaxAge
      BY <2>2 DEF Fits
    <2>4. ((k + 1) + 1) * Timeout = (k + 2) * Timeout
      BY <1>2
    <2>5. QED
      BY <1>1, <1>2, <1>3, <2>3, <2>4
  <1>6. QED
    BY <1>1, <1>2, <1>4, <1>5

\* Every slot is free, or has lasted for nothing at least.
LEMMA AllSlotsOf ==
    ASSUME NEW free \in Int, NEW calls \in [Calls -> Call], NEW x \in Int, x <= 0,
           free + Cardinality({e \in Calls : calls[e].pc = "execute"}) = MaxInflight
    PROVE  free + Cardinality(Slow(calls, x)) = MaxInflight
  <1>1. \A e \in Calls : calls[e].step \in Nat
    BY DEF Call
  <1>2. Slow(calls, x) = {e \in Calls : calls[e].pc = "execute"}
    BY <1>1 DEF Slow
  <1>3. QED
    BY <1>2

\* What has to be said of each place after a step.
LEMMA LineInTimeNext ==
    ASSUME \A i \in DOMAIN waiters', k \in Nat :
               k * MaxInflight < i /\ i <= (k + 1) * MaxInflight
                   => Fits(permits', call', waiters'[i], i, k)
    PROVE  LineInTime'
  BY DEF LineInTime, Fits, Slow

\* c's step leaves the line alone.
LEMMA LineKept ==
    ASSUME IInv, IInv', LineInTime, NEW c \in Calls,
           \A d \in Calls \ {c} : call'[d] = call[d],
           call[c].pc # "wait", call'[c].pc # "execute", waiters' = waiters,
           permits' = IF call[c].pc = "execute" THEN permits + 1 ELSE permits
    PROVE  LineInTime'
  <1> SUFFICES ASSUME NEW i \in DOMAIN waiters, NEW k \in Nat,
                      k * MaxInflight < i, i <= (k + 1) * MaxInflight
               PROVE  Fits(permits', call', waiters[i], i, k)
    BY LineInTimeNext
  <1>1. /\ waiters[i] \in Calls /\ call[waiters[i]].pc = "wait"
        /\ call[waiters[i]].age \in Nat /\ i \in Nat
    BY LineFacts
  <1>2. call'[waiters[i]] = call[waiters[i]]
    BY <1>1
  <1> DEFINE x == call[waiters[i]].age + (k + 2) * Timeout - MaxAge
  <1>3. /\ call[waiters[i]].age + (k + 1) * Timeout <= MaxAge
        /\ i <= permits + Cardinality(Slow(call, x)) + k * MaxInflight
    BY DEF LineInTime, Fits
  <1>4. x \in Int /\ k * MaxInflight \in Nat
    BY <1>1, RoundFacts, Products, PolicyAssumption
  <1> HIDE DEF x
  <1>5. permits' + Cardinality(Slow(call', x)) >= permits + Cardinality(Slow(call, x))
    BY <1>4, SlotsFreed
  <1>6. permits' \in Nat /\ permits \in Nat
    BY DEF IInv, Typed
  <1>7. i <= permits' + Cardinality(Slow(call', x)) + k * MaxInflight
    BY <1>1, <1>3, <1>4, <1>5, <1>6, SlowFinite
  <1>8. QED
    BY <1>2, <1>3, <1>7 DEF Fits, x

\* c leaves the line: for good, or from its head to execute.
LEMMA LineShorter ==
    ASSUME IInv, IInv', LineInTime, NEW c \in Calls,
           \A d \in Calls \ {c} : call'[d] = call[d],
           NEW q \in DOMAIN waiters, waiters[q] = c, waiters' = RemoveAt(waiters, q),
           \/ call'[c].pc # "execute" /\ permits' = permits
           \/ q = 1 /\ call'[c].pc = "execute" /\ permits' = permits - 1
    PROVE  LineInTime'
  <1>1. /\ DOMAIN waiters = 1 .. Len(waiters) /\ Len(waiters) \in Nat
        /\ call[c].pc = "wait"
        /\ \A i \in DOMAIN waiters : waiters[i] \in Calls /\ call[waiters[i]].age \in Nat
    BY LineFacts
  <1>2. /\ waiters' \in Seq(Calls) /\ Len(waiters') = Len(waiters) - 1
        /\ \A j \in 1 .. Len(waiters) - 1 :
               waiters'[j] = IF j < q THEN waiters[j] ELSE waiters[j + 1]
    BY Removed DEF IInv
  <1>3. DOMAIN waiters' = 1 .. Len(waiters) - 1
    BY <1>2, LenProperties
  <1>4. \A i \in DOMAIN waiters : waiters[i] = c => i = q
    BY DEF IInv, Line, IsInjective
  <1>5. permits' \in Nat /\ permits \in Nat
    BY DEF IInv, Typed
  <1> SUFFICES ASSUME NEW j \in 1 .. Len(waiters) - 1, NEW k \in Nat,
                      k * MaxInflight < j, j <= (k + 1) * MaxInflight
               PROVE  Fits(permits', call', waiters'[j], j, k)
    BY <1>3, LineInTimeNext
  <1>6. /\ k * MaxInflight \in Nat /\ (k + 1) * MaxInflight = k * MaxInflight + MaxInflight
        /\ MaxAge \in Nat /\ (k + 2) * Timeout \in Nat
    BY RoundFacts, Products, PolicyAssumption
  <1>7. CASE j < q
    <2>1. waiters'[j] = waiters[j] /\ j \in DOMAIN waiters /\ j # q /\ q # 1
      BY <1>1, <1>2, <1>7
    <2>2. waiters[j] \in Calls \ {c} /\ call'[waiters[j]] = call[waiters[j]]
      BY <1>1, <1>4, <2>1
    <2> DEFINE x == call[waiters[j]].age + (k + 2) * Timeout - MaxAge
    <2>3. /\ call[waiters[j]].age + (k + 1) * Timeout <= MaxAge
          /\ j <= permits + Cardinality(Slow(call, x)) + k * MaxInflight
      BY <2>1 DEF LineInTime, Fits
    <2>4. x \in Int
      BY <1>1, <1>6, <2>1
    <2> HIDE DEF x
    <2>5. permits' + Cardinality(Slow(call', x)) >= permits + Cardinality(Slow(call, x))
      BY <1>1, <2>1, <2>4, SlotsFreed
    <2>6. j <= permits' + Cardinality(Slow(call', x)) + k * MaxInflight
      BY <1>5, <1>6, <2>3, <2>5, SlowFinite
    <2>7. QED
      BY <2>1, <2>2, <2>3, <2>6 DEF Fits, x
  <1>8. CASE j >= q
    <2>0. j + 1 \in DOMAIN waiters /\ waiters'[j] = waiters[j + 1] /\ j + 1 # q
      BY <1>1, <1>2, <1>8
    <2>1. PICK i \in DOMAIN waiters : waiters'[j] = waiters[i] /\ i # q /\ i = j + 1
      BY <2>0
    <2>2. waiters[i] \in Calls \ {c} /\ call'[waiters[i]] = call[waiters[i]]
      BY <1>1, <1>4, <2>1
    <2> DEFINE x == call[waiters[i]].age + (k + 2) * Timeout - MaxAge
    <2>3. /\ call[waiters[i]].age + (k + 1) * Timeout <= MaxAge
          /\ x <= 0 \/ i <= permits + Cardinality(Slow(call, x)) + k * MaxInflight
      <3>1. k * MaxInflight < i - 1 /\ i - 1 <= (k + 1) * MaxInflight
        BY <1>1, <2>1
      <3>2. QED
        BY <3>1, Ahead
    <2>4. x \in Int
      BY <1>1, <1>6, <2>1
    <2> HIDE DEF x
    <2>5. CASE x <= 0
      <3>1. permits' + Cardinality({e \in Calls : call'[e].pc = "execute"}) = MaxInflight
        BY DEF IInv, Slots, In
      <3>2. permits' + Cardinality(Slow(call', x)) = MaxInflight
        <4>1. permits' \in Int /\ call' \in [Calls -> Call]
          BY DEF IInv, Typed
        <4>2. QED
          BY <2>4, <2>5, <3>1, <4>1, AllSlotsOf
      <3>3. j <= MaxInflight + k * MaxInflight
        BY <1>6, PolicyAssumption
      <3>4. QED
        BY <2>1, <2>2, <2>3, <3>2, <3>3 DEF Fits, x
    <2>6. CASE i <= permits + Cardinality(Slow(call, x)) + k * MaxInflight
      <3>1. permits' + Cardinality(Slow(call', x)) + 1 >= permits + Cardinality(Slow(call, x))
        <4>1. CASE call'[c].pc # "execute" /\ permits' = permits
          <5>1. permits' + Cardinality(Slow(call', x)) >= permits + Cardinality(Slow(call, x))
            BY <1>1, <2>4, <4>1, SlotsFreed
          <5>2. QED
            BY <1>5, <5>1, SlowFinite
        <4>2. CASE call'[c].pc = "execute" /\ permits' = permits - 1
          BY <1>1, <2>4, <4>2, SlotUsed
        <4>3. QED
          BY <4>1, <4>2
      <3>2. j <= permits' + Cardinality(Slow(call', x)) + k * MaxInflight
        <4>1. i \in Int /\ j \in Int
          BY <1>1, <2>1
        <4>2. Cardinality(Slow(call, x)) \in Nat /\ Cardinality(Slow(call', x)) \in Nat
          BY SlowFinite
        <4>3. k * MaxInflight \in Nat /\ j + 1 = i
          BY <1>6, <2>1, <4>1
        <4>4. j + 1 <= permits + Cardinality(Slow(call, x)) + k * MaxInflight
          BY <2>6, <4>3
        <4>5. \A a, b, m, aNext, bNext \in Nat :
                  j + 1 <= a + b + m /\ aNext + bNext + 1 >= a + b => j <= aNext + bNext + m
          BY <4>1
        <4> HIDE DEF x
        <4>6. QED
          BY <1>5, <3>1, <4>2, <4>3, <4>4, <4>5
      <3>3. QED
        BY <2>1, <2>2, <2>3, <3>2 DEF Fits, x
    <2>7. QED
      BY <2>3, <2>5, <2>6
  <1>9. QED
    BY <1>1, <1>7, <1>8

\* A sequence without repetitions is as long as the set of its elements.
LEMMA InjectiveLength ==
    ASSUME NEW S, NEW seq \in Seq(S), IsInjective(seq)
    PROVE  Cardinality(ToSet(seq)) = Len(seq)
  <1>1. DOMAIN seq = 1 .. Len(seq) /\ Len(seq) \in Nat
    BY LenProperties
  <1>2. seq \in [1 .. Len(seq) -> ToSet(seq)]
    <2>1. seq = [i \in 1 .. Len(seq) |-> seq[i]]
      BY <1>1, LenProperties
    <2>2. \A i \in 1 .. Len(seq) : seq[i] \in ToSet(seq)
      BY <1>1 DEF ToSet
    <2>3. QED
      BY <2>1, <2>2
  <1>3. \A a, b \in 1 .. Len(seq) : seq[a] = seq[b] => a = b
    BY <1>1 DEF IsInjective
  <1>4. \A y \in ToSet(seq) : \E i \in 1 .. Len(seq) : seq[i] = y
    BY <1>1 DEF ToSet
  <1>5. seq \in Bijection(1 .. Len(seq), ToSet(seq))
    BY <1>2, <1>3, <1>4 DEF Bijection, Injection, Surjection
  <1>6. QED
    BY <1>1, <1>5, FS_CountingElements DEF ExistsBijection

\* There are not more calls in the line and at work than there are.
LEMMA LineAndSlots ==
    ASSUME NEW line \in Seq(Calls), NEW calls, NEW free \in Nat,
           ToSet(line) = {c \in Calls : calls[c].pc = "wait"}, IsInjective(line),
           free + Cardinality({c \in Calls : calls[c].pc = "execute"}) = MaxInflight
    PROVE  Len(line) + MaxInflight <= Cardinality(Calls) + free
  <1> DEFINE W == {c \in Calls : calls[c].pc = "wait"}
             E == {c \in Calls : calls[c].pc = "execute"}
  <1>1. Cardinality(W) = Len(line) /\ Len(line) \in Nat
    BY InjectiveLength, LenProperties
  <1>2. /\ IsFiniteSet(W) /\ IsFiniteSet(E) /\ W \cap E = {} /\ W \cup E \subseteq Calls
    BY CallsAssumption, FS_Subset
  <1>3. W \cup E \in SUBSET Calls
    BY <1>2
  <1>4. Cardinality(W \cup E) <= Cardinality(Calls)
    BY <1>3, CallsAssumption, FS_Subset
  <1>5. Cardinality(W \cup E) = Cardinality(W) + Cardinality(E) - Cardinality(W \cap E)
    BY <1>2, FS_Union
  <1>6. Cardinality(W \cap E) = 0 /\ Cardinality(E) \in Nat /\ Cardinality(Calls) \in Nat
    BY <1>2, FS_EmptySet, FS_CardinalityType, CallsAssumption
  <1> HIDE DEF W
  <1>7. free + Cardinality(E) = MaxInflight
    OBVIOUS
  <1> HIDE DEF E
  <1>8. Len(line) + Cardinality(E) <= Cardinality(Calls)
    BY <1>1, <1>4, <1>5, <1>6
  <1>9. QED
    BY <1>1, <1>6, <1>7, <1>8

\* c joins the line, with all of its time but its preparation before it.
LEMMA LineLonger ==
    ASSUME IInv, IInv', LineInTime, NEW c \in Calls,
           \A d \in Calls \ {c} : call'[d] = call[d],
           call[c].pc # "execute", call'[c].pc = "wait",
           call'[c].age <= ParseTimeout,
           waiters' = Append(waiters, c), permits' = permits,
           permits = 0 \/ waiters # <<>>
    PROVE  LineInTime'
  <1>1. /\ waiters \in Seq(Calls) /\ Len(waiters) \in Nat
        /\ DOMAIN waiters = 1 .. Len(waiters) /\ permits \in Nat
        /\ call'[c].age \in Nat
    BY LineFacts DEF IInv, Typed, Call
  <1>2. /\ Len(waiters') = Len(waiters) + 1 /\ waiters' \in Seq(Calls)
        /\ \A i \in 1 .. Len(waiters) : waiters'[i] = waiters[i]
        /\ waiters'[Len(waiters) + 1] = c
    BY <1>1, AppendProperties
  <1>3. DOMAIN waiters' = 1 .. Len(waiters) + 1
    BY <1>2, LenProperties
  <1> SUFFICES ASSUME NEW i \in 1 .. Len(waiters) + 1, NEW k \in Nat,
                      k * MaxInflight < i, i <= (k + 1) * MaxInflight
               PROVE  Fits(permits', call', waiters'[i], i, k)
    BY <1>3, LineInTimeNext
  <1>4. /\ k * MaxInflight \in Nat /\ (k + 1) * MaxInflight = k * MaxInflight + MaxInflight
        /\ k * Timeout \in Nat /\ (k + 1) * Timeout = k * Timeout + Timeout
        /\ (k + 2) * Timeout = k * Timeout + Timeout + Timeout
        /\ MaxAge \in Nat /\ MaxInflight \in Nat \ {0} /\ Timeout \in Nat \ {0}
        /\ ParseTimeout \in Nat /\ Cardinality(Calls) \in Nat
    BY RoundFacts, Products, PolicyAssumption
  <1>5. CASE i <= Len(waiters)
    <2>1. /\ waiters'[i] = waiters[i] /\ waiters[i] \in Calls
          /\ call[waiters[i]].pc = "wait" /\ call[waiters[i]].age \in Nat
      BY <1>1, <1>2, <1>5, LineFacts
    <2>2. call'[waiters[i]] = call[waiters[i]]
      <3>1. waiters[i] # c
        <4>1. i \in DOMAIN waiters' /\ Len(waiters) + 1 \in DOMAIN waiters'
              /\ i # Len(waiters) + 1
          BY <1>1, <1>3, <1>5
        <4>2. IsInjective(waiters')
          BY DEF IInv, Line
        <4>3. QED
          BY <1>2, <2>1, <4>1, <4>2 DEF IsInjective
      <3>2. QED
        BY <2>1, <3>1
    <2> DEFINE x == call[waiters[i]].age + (k + 2) * Timeout - MaxAge
    <2>3. /\ call[waiters[i]].age + (k + 1) * Timeout <= MaxAge
          /\ i <= permits + Cardinality(Slow(call, x)) + k * MaxInflight
      BY <1>1, <1>5 DEF LineInTime, Fits
    <2>4. Slow(call', x) = Slow(call, x)
      BY DEF Slow
    <2>5. QED
      BY <2>1, <2>2, <2>3, <2>4 DEF Fits
  <1>6. CASE i = Len(waiters) + 1
    <2>1. waiters'[i] = c
      BY <1>2, <1>6
    <2>2. permits + Cardinality({e \in Calls : call'[e].pc = "execute"}) = MaxInflight
      BY DEF IInv, Slots, In
    <2>3. i + MaxInflight <= Cardinality(Calls) + permits
      <3>1. ToSet(waiters') = {e \in Calls : call'[e].pc = "wait"} /\ IsInjective(waiters')
        BY DEF IInv, Line, In
      <3>2. QED
        BY <1>1, <1>2, <1>6, <2>2, <3>1, LineAndSlots
    <2>4. permits <= MaxInflight
      BY <1>1, <2>2, CallsAssumption, FS_Subset, FS_CardinalityType, PolicyAssumption
    <2>5. k * MaxInflight < Cardinality(Calls)
      BY <1>1, <1>4, <1>6, <2>3, <2>4
    <2>6. call'[c].age + (k + 1) * Timeout <= MaxAge
      <3>1. (k + 1) * Timeout <= MaxAge - ParseTimeout
        BY <2>5, WithinRounds
      <3>2. QED
        BY <1>1, <1>4, <3>1
    <2> DEFINE x == call'[c].age + (k + 2) * Timeout - MaxAge
    <2>7. i <= permits + Cardinality(Slow(call', x)) + k * MaxInflight
      <3>1. x \in Int
        BY <1>1, <1>4
      <3>2. Cardinality(Slow(call', x)) \in Nat
        BY SlowFinite
      <3>3. CASE (k + 1) * MaxInflight < Cardinality(Calls)
        <4>1. x <= 0
          <5>1. ((k + 1) + 1) * Timeout <= MaxAge - ParseTimeout
            BY <3>3, WithinRounds
          <5>2. ((k + 1) + 1) * Timeout = (k + 2) * Timeout
            BY <1>4
          <5>3. QED
            BY <1>1, <1>4, <5>1, <5>2
        <4>2. call' \in [Calls -> Call]
          BY DEF IInv, Typed
        <4> HIDE DEF x
        <4>3. permits + Cardinality(Slow(call', x)) = MaxInflight
          BY <1>1, <2>2, <3>1, <4>1, <4>2, AllSlotsOf
        <4>4. i <= MaxInflight + k * MaxInflight
          BY <1>4
        <4>5. QED
          BY <4>3, <4>4
      <3>4. CASE Cardinality(Calls) <= (k + 1) * MaxInflight
        <4>1. i <= permits + k * MaxInflight
          BY <1>1, <1>4, <2>3, <3>4
        <4> HIDE DEF x
        <4>2. QED
          BY <1>1, <1>4, <3>2, <4>1
      <3>5. QED
        BY <1>4, <3>3, <3>4
    <2>8. QED
      BY <2>1, <2>6, <2>7 DEF Fits
  <1>7. QED
    BY <1>1, <1>5, <1>6

-----------------------------------------------------------------------------
(* Time passes.                                                            *)

LEMMA AgesOn ==
    ASSUME NEW c \in Calls, NEW n \in Nat, n <= MaxAge \/ n <= MaxDiagnosis
    PROVE  Aged(n) = n + 1
  <1>1. MaxAge \in Nat /\ MaxDiagnosis \in Nat
    <2>1. 2 * Timeout \in Nat /\ ProbeBudget \in Nat
      BY PolicyAssumption
    <2>2. QED
      BY <2>1, RoundFacts, Products DEF MaxDiagnosis
  <1>2. QED
    BY <1>1 DEF Aged, AgeBound

\* What a tick does to a call under way.
LEMMA OlderFields ==
    ASSUME IInv, NEW c \in Calls, call[c].pc # "idle"
    PROVE  /\ Older(c).pc = call[c].pc /\ Older(c).age = Aged(call[c].age)
           /\ Older(c).step = IF call[c].pc = "wait" THEN 0 ELSE Aged(call[c].step)
           /\ Older(c).left = call[c].left
           /\ call[c].age \in Nat /\ call[c].step \in Nat /\ call[c].left \in 0 .. ProbeBudget
  BY DEF Older, IInv, Typed, Call

\* A timer that is due stops time, so one that is not has a tick to spare.
LEMMA TimersTick ==
    ASSUME IInv, InTime, ~Due, NEW c \in Calls
    PROVE  OwnTime(Older(c))
  <1>0. OwnTime(call[c])
    BY DEF InTime
  <1>1. /\ Timeout \in Nat \ {0} /\ ParseTimeout \in Nat /\ ProbeBudget \in Nat
        /\ MaxAge \in Nat /\ ParseTimeout + Timeout <= MaxAge
    BY PolicyAssumption, RoundFacts
  <1>2. CASE call[c].pc = "idle"
    BY <1>0, <1>2 DEF Older
  <1>3. CASE call[c].pc \in {"parse", "reparse"}
    <2>1. call[c].age = call[c].step /\ call[c].step < ParseTimeout
      BY <1>0, <1>1, <1>3, OlderFields DEF OwnTime, Due, In
    <2>2. Older(c).age = call[c].age + 1 /\ Older(c).step = call[c].step + 1
      BY <1>1, <1>3, <2>1, OlderFields, AgesOn
    <2>3. Older(c).pc = call[c].pc /\ call[c].step \in Nat
      BY <1>3, OlderFields
    <2>4. Older(c).age = Older(c).step /\ Older(c).step <= ParseTimeout
      BY <1>1, <2>1, <2>2, <2>3
    <2>5. QED
      BY <1>3, <2>3, <2>4 DEF OwnTime
  <1>4. CASE call[c].pc = "wait"
    BY <1>4, OlderFields DEF OwnTime
  <1>5. CASE call[c].pc = "execute"
    <2>1. call[c].step < Timeout /\ call[c].age + (Timeout - call[c].step) <= MaxAge
      BY <1>0, <1>1, <1>5, OlderFields DEF OwnTime, Due, In
    <2>2. call[c].age <= MaxAge /\ call[c].step <= MaxAge
      BY <1>1, <1>5, <2>1, OlderFields
    <2>3. Older(c).age = call[c].age + 1 /\ Older(c).step = call[c].step + 1
      BY <1>5, <2>2, OlderFields, AgesOn
    <2>4. QED
      BY <1>1, <1>5, <2>1, <2>3, OlderFields DEF OwnTime
  <1>6. CASE call[c].pc \in {"diagnose", "probe"}
    <2> DEFINE spell == 2 * Timeout * (ProbeBudget - call[c].left)
    <2>1. /\ call[c].step < Timeout
          /\ call[c].pc = "diagnose" => call[c].left # 0 /\ call[c].age <= spell + call[c].step
          /\ call[c].pc = "probe" => call[c].age + Timeout <= spell + call[c].step
      BY <1>0, <1>1, <1>6, OlderFields DEF OwnTime, Due, In
    <2>2. /\ spell \in Nat /\ spell <= MaxDiagnosis
          /\ call[c].left # 0 => spell + 2 * Timeout <= MaxDiagnosis
      <3>1. /\ 2 * Timeout \in Nat /\ ProbeBudget - call[c].left \in Nat
            /\ ProbeBudget - call[c].left <= ProbeBudget
            /\ call[c].left # 0 => (ProbeBudget - call[c].left) + 1 <= ProbeBudget
        BY <1>1, <1>6, OlderFields
      <3> DEFINE n == ProbeBudget - call[c].left
                 t == 2 * Timeout
      <3>2. /\ MaxDiagnosis = ProbeBudget * t /\ spell = n * t
        BY <1>1, <3>1 DEF MaxDiagnosis
      <3>3. n \in Nat /\ t \in Nat /\ n <= ProbeBudget
            /\ (call[c].left # 0 => n + 1 <= ProbeBudget)
        BY <3>1
      <3> HIDE DEF n, t, spell
      <3>4. /\ n * t \in Nat /\ n * t <= ProbeBudget * t
            /\ n + 1 <= ProbeBudget => (n + 1) * t <= ProbeBudget * t
            /\ (n + 1) * t = n * t + t
        BY <1>1, <3>3, Products
      <3>5. t = 2 * Timeout
        BY DEF t
      <3>6. QED
        BY <3>2, <3>3, <3>4, <3>5
    <2> HIDE DEF spell
    <2>3. MaxDiagnosis \in Nat
      BY <1>1, Products DEF MaxDiagnosis
    <2>4. call[c].age <= MaxDiagnosis /\ call[c].step <= MaxAge
      BY <1>1, <1>6, <2>1, <2>2, <2>3, OlderFields
    <2>5. Older(c).age = call[c].age + 1 /\ Older(c).step = call[c].step + 1
      BY <1>6, <2>4, OlderFields, AgesOn
    <2>6. /\ Older(c).left = call[c].left /\ Older(c).pc = call[c].pc
          /\ call[c].age \in Nat /\ call[c].step \in Nat
      BY <1>6, OlderFields
    <2>7. /\ call[c].pc = "diagnose" => Older(c).age <= spell + Older(c).step
          /\ call[c].pc = "probe" => Older(c).age + Timeout <= spell + Older(c).step
          /\ Older(c).step <= Timeout
      BY <1>1, <2>1, <2>2, <2>5, <2>6
    <2>8. QED
      BY <1>6, <2>1, <2>6, <2>7 DEF OwnTime, spell
  <1>7. QED
    BY <1>2, <1>3, <1>4, <1>5, <1>6 DEF IInv, Typed, Call, Pc

\* Everybody in the line ages, and so does what they wait for.
LEMMA LineTicks ==
    ASSUME IInv, IInv', LineInTime, InTime, Tick
    PROVE  LineInTime'
  <1>1. /\ call' = [c \in Calls |-> Older(c)] /\ waiters' = waiters /\ permits' = permits
        /\ ~Due /\ permits \in Nat
    BY DEF Tick, IInv, Typed
  <1> SUFFICES ASSUME NEW i \in DOMAIN waiters, NEW k \in Nat,
                      k * MaxInflight < i, i <= (k + 1) * MaxInflight
               PROVE  Fits(permits', call', waiters'[i], i, k)
    BY <1>1, LineInTimeNext
  <1> DEFINE c == waiters[i]
             x == call[c].age + (k + 2) * Timeout - MaxAge
  <1>2. c \in Calls /\ call[c].pc = "wait" /\ call[c].age \in Nat /\ i \in Nat
    BY LineFacts
  <1>3. permits = 0
    <2>1. waiters # <<>>
      OBVIOUS
    <2>2. QED
      BY <1>1, <2>1 DEF Due
  <1>4. /\ call[c].age + (k + 1) * Timeout <= MaxAge
        /\ i <= permits + Cardinality(Slow(call, x)) + k * MaxInflight
    BY DEF LineInTime, Fits
  <1>5. /\ k * MaxInflight \in Nat /\ k * Timeout \in Nat
        /\ (k + 1) * Timeout = k * Timeout + Timeout
        /\ (k + 2) * Timeout = k * Timeout + Timeout + Timeout
        /\ Timeout \in Nat \ {0} /\ MaxAge \in Nat /\ ParseTimeout \in Nat
        /\ ParseTimeout + Timeout <= MaxAge
    BY <1>2, Products, PolicyAssumption, RoundFacts
  <1> HIDE DEF c
  <1>6. x \in Int /\ call[c].age <= MaxAge
    BY <1>2, <1>4, <1>5
  <1>7. \A e \in Calls : call[e].pc = "execute" =>
            /\ call[e].step \in Nat /\ call[e].step < Timeout
            /\ Older(e).pc = "execute" /\ Older(e).step = call[e].step + 1
    <2>1. SUFFICES ASSUME NEW e \in Calls, call[e].pc = "execute"
                   PROVE  /\ call[e].step \in Nat /\ call[e].step < Timeout
                          /\ Older(e).pc = "execute" /\ Older(e).step = call[e].step + 1
      OBVIOUS
    <2>2. call[e].step \in Nat /\ call[e].step < Timeout
      <3>1. call[e].step \in Nat
        BY <2>1, OlderFields
      <3>2. ~(call[e].step >= Timeout)
        BY <1>1, <2>1 DEF Due, In
      <3>3. QED
        BY <1>5, <3>1, <3>2
    <2>3. Aged(call[e].step) = call[e].step + 1
      BY <1>5, <2>2, AgesOn
    <2>4. QED
      BY <2>1, <2>2, <2>3, OlderFields
  <1>8. Slow(call, x) \subseteq Slow(call', x + 1)
    BY <1>1, <1>6, <1>7 DEF Slow
  <1>9. Cardinality(Slow(call, x)) <= Cardinality(Slow(call', x + 1))
    BY <1>8, SlowFinite, FS_Subset
  <1>10. call'[c].age = call[c].age + 1
    BY <1>1, <1>2, <1>6, OlderFields, AgesOn
  <1>11. x < Timeout
    <2>1. Cardinality(Slow(call, x)) # 0
      BY <1>2, <1>3, <1>4, <1>5, SlowFinite
    <2>2. Slow(call, x) # {}
      BY <2>1, FS_EmptySet
    <2>3. PICK e \in Slow(call, x) : TRUE
      BY <2>2
    <2>4. e \in Calls /\ call[e].pc = "execute" /\ call[e].step >= x
      BY <2>3 DEF Slow
    <2>5. QED
      BY <1>5, <1>6, <1>7, <2>4
  <1>12. call'[c].age + (k + 1) * Timeout <= MaxAge
    BY <1>2, <1>5, <1>10, <1>11
  <1>13. i <= permits' + Cardinality(Slow(call', x + 1)) + k * MaxInflight
    <2> HIDE DEF x
    <2>1. Cardinality(Slow(call', x + 1)) \in Nat /\ Cardinality(Slow(call, x)) \in Nat
      BY SlowFinite
    <2>2. QED
      BY <1>1, <1>2, <1>4, <1>5, <1>9, <2>1
  <1>14. call'[c].age + (k + 2) * Timeout - MaxAge = x + 1
    BY <1>2, <1>5, <1>10
  <1>15. QED
    BY <1>1, <1>12, <1>13, <1>14 DEF Fits, c

-----------------------------------------------------------------------------
(* One step.                                                               *)

LEMMA OthersInTime ==
    ASSUME InTime, NEW c \in Calls, \A d \in Calls \ {c} : call'[d] = call[d],
           OwnTime(call'[c])
    PROVE  InTime'
  <1>1. \A d \in Calls : OwnTime(call'[d])
    BY DEF InTime
  <1>2. QED
    BY <1>1 DEF InTime, OwnTime

LEMMA IdleInTime ==
    /\ OwnTime(Idle) /\ OwnTime(Answered) /\ OwnTime(Cancelled)
    /\ Idle.pc = "idle" /\ Answered.pc = "idle" /\ Cancelled.pc = "idle"
  BY IdleFacts DEF OwnTime

\* A preparation that starts, or starts anew.
LEMMA FreshInTime ==
    ASSUME NEW cl, cl.pc \in {"parse", "reparse"}, cl.age = 0, cl.step = 0
    PROVE  OwnTime(cl)
  BY PolicyAssumption DEF OwnTime

LEMMA PreparedInTime ==
    ASSUME Timed, NEW c \in Calls, Acquire(c)
    PROVE  /\ call[c].age <= ParseTimeout /\ call'[c].age = call[c].age
           /\ call'[c].pc \in {"execute", "wait"}
           /\ call'[c].pc = "execute" => call'[c].step = 0
           /\ \A d \in Calls \ {c} : call'[d] = call[d]
  <1>1. call[c] \in Call /\ call \in [Calls -> Call]
    BY DEF Timed, IInv, Typed
  <1>2. OwnTime(call[c]) /\ call[c].pc \in {"parse", "reparse"}
    BY DEF Timed, InTime, Acquire, Parsing
  <1>3. call[c].age <= ParseTimeout
    BY <1>2 DEF OwnTime
  <1>4. QED
    BY <1>1, <1>3 DEF Acquire, Call

LEMMA AcquireTimed ==
    ASSUME Timed, IInv', NEW c \in Calls, Acquire(c)
    PROVE  LineInTime' /\ OwnTime(call'[c])
  <1>1. /\ call[c].age <= ParseTimeout /\ call'[c].age = call[c].age
        /\ \A d \in Calls \ {c} : call'[d] = call[d]
        /\ call'[c].pc \in {"execute", "wait"}
        /\ call'[c].pc = "execute" => call'[c].step = 0
    BY PreparedInTime
  <1>2. call[c].pc \in {"parse", "reparse"} /\ call[c].age \in Nat
    BY DEF Acquire, Parsing, Timed, IInv, Typed, Call
  <1>3. /\ Timeout \in Nat /\ ParseTimeout \in Nat /\ MaxAge \in Nat
        /\ ParseTimeout + Timeout <= MaxAge
    BY RoundFacts, PolicyAssumption
  <1>4. OwnTime(call'[c])
    <2>1. CASE call'[c].pc = "execute"
      <3>1. call'[c].step <= Timeout
            /\ call'[c].age + (Timeout - call'[c].step) <= MaxAge
        BY <1>1, <1>2, <1>3, <2>1
      <3>2. QED
        BY <2>1, <3>1 DEF OwnTime
    <2>2. CASE call'[c].pc = "wait"
      BY <2>2 DEF OwnTime
    <2>3. QED
      BY <1>1, <2>1, <2>2
  <1>5. LineInTime'
    <2>1. CASE waiters = <<>> /\ UNCHANGED waiters
      BY <2>1 DEF LineInTime
    <2>2. CASE /\ permits = 0 \/ waiters # <<>>
               /\ waiters' = Append(waiters, c) /\ permits' = permits
               /\ call' = [call EXCEPT ![c].pc = "wait"]
      <3>1. call'[c].pc = "wait"
        BY <2>2 DEF Timed, IInv, Typed, Call
      <3>2. call'[c].age <= ParseTimeout /\ call[c].pc # "execute"
        BY <1>1, <1>2
      <3>3. QED
        BY <1>1, <2>2, <3>1, <3>2, LineLonger DEF Timed
    <2>3. QED
      BY <2>1, <2>2 DEF Acquire
  <1>6. QED
    BY <1>4, <1>5

LEMMA GrantTimed ==
    ASSUME Timed, IInv', NEW c \in Calls, Grant(c)
    PROVE  LineInTime' /\ OwnTime(call'[c])
  <1>1. /\ waiters # <<>> /\ Head(waiters) = c /\ waiters' = Tail(waiters)
        /\ permits' = permits - 1
        /\ call' = [call EXCEPT ![c].pc = "execute", ![c].step = 0]
    BY DEF Grant
  <1>2. /\ 1 \in DOMAIN waiters /\ waiters[1] = c
        /\ waiters' = RemoveAt(waiters, 1)
    BY <1>1, HeadRemoved DEF Timed, IInv
  <1>3. /\ call'[c].pc = "execute" /\ call'[c].step = 0 /\ call'[c].age = call[c].age
        /\ \A d \in Calls \ {c} : call'[d] = call[d]
    BY <1>1 DEF Timed, IInv, Typed, Call
  <1>4. LineInTime'
    BY <1>1, <1>2, <1>3, LineShorter DEF Timed
  <1>5. /\ 0 * MaxInflight = 0 /\ (0 + 1) * MaxInflight = MaxInflight
        /\ (0 + 1) * Timeout = Timeout
        /\ MaxInflight \in Nat \ {0} /\ Timeout \in Nat \ {0}
    BY PolicyAssumption
  <1>6. Fits(permits, call, waiters[1], 1, 0)
    <2>1. 0 \in Nat /\ 0 * MaxInflight < 1 /\ 1 <= (0 + 1) * MaxInflight
      BY <1>5
    <2>2. QED
      BY <1>2, <2>1 DEF Timed, LineInTime
  <1>7. call[c].age + Timeout <= MaxAge
    BY <1>2, <1>5, <1>6 DEF Fits
  <1>8. OwnTime(call'[c])
    <2>1. call[c].age \in Nat /\ MaxAge \in Nat
      BY RoundFacts DEF Timed, IInv, Typed, Call
    <2>2. QED
      BY <1>3, <1>5, <1>7, <2>1 DEF OwnTime
  <1>9. QED
    BY <1>4, <1>8

LEMMA ExecuteTimed ==
    ASSUME Timed, NEW c \in Calls, Execute(c)
    PROVE  /\ OwnTime(call'[c]) /\ call'[c].pc # "execute" /\ call[c].pc = "execute"
           /\ permits' = permits + 1 /\ UNCHANGED waiters
           /\ \A d \in Calls \ {c} : call'[d] = call[d]
  <1> DEFINE next == [Idle EXCEPT !.pc = "diagnose", !.session = call[c].session,
                                  !.left = ProbeBudget]
  <1>1. call \in [Calls -> Call]
    BY DEF Timed, IInv, Typed
  <1>2. OwnTime(next) /\ next.pc # "execute"
    <2>1. /\ next.pc = "diagnose" /\ next.step = 0 /\ next.age = 0
          /\ next.left = ProbeBudget
      BY DEF Idle
    <2>2. 2 * Timeout * (ProbeBudget - ProbeBudget) = 0
      BY PolicyAssumption
    <2> HIDE DEF next
    <2>3. 0 <= 2 * Timeout * (ProbeBudget - next.left) + next.step
      BY <2>1, <2>2
    <2>4. QED
      BY <2>1, <2>3, PolicyAssumption DEF OwnTime
  <1> HIDE DEF next
  <1>3. CASE Record(c, Answered)
    BY <1>1, <1>3, IdleInTime DEF Record, Execute
  <1>4. CASE Record(c, next)
    BY <1>1, <1>2, <1>4 DEF Record, Execute
  <1>5. QED
    BY <1>3, <1>4 DEF Execute, next

\* What the probes that are left leave of the time.
LEMMA ProbeTimed ==
    ASSUME Timed, NEW c \in Calls, SendProbe(c) \/ ProbeReply(c)
    PROVE  /\ OwnTime(call'[c]) /\ call'[c].pc \in {"diagnose", "probe"}
           /\ call[c].pc \in {"diagnose", "probe"}
           /\ UNCHANGED <<permits, waiters>>
           /\ \A d \in Calls \ {c} : call'[d] = call[d]
  <1>1. /\ call \in [Calls -> Call] /\ call[c] \in Call /\ OwnTime(call[c])
        /\ call[c].age \in Nat /\ call[c].step \in Nat /\ call[c].left \in 0 .. ProbeBudget
    BY DEF Timed, IInv, Typed, InTime, Call
  <1>2. Timeout \in Nat /\ ProbeBudget \in Nat
    BY PolicyAssumption
  <1> DEFINE spell(n) == 2 * Timeout * (ProbeBudget - n)
  <1>3. \A n \in 0 .. ProbeBudget : spell(n) \in Nat
    <2>1. ASSUME NEW n \in 0 .. ProbeBudget PROVE spell(n) \in Nat
      <3>1. ProbeBudget - n \in Nat /\ 2 * Timeout \in Nat
        BY <1>2
      <3>2. QED
        BY <3>1, Products
    <2>2. QED
      BY <2>1
  <1>4. CASE SendProbe(c)
    <2>1. PICK pc \in {"probe", "diagnose"} :
              call' = [call EXCEPT ![c].pc = pc, ![c].step = 0, ![c].left = @ - 1]
      BY <1>4 DEF SendProbe
    <2>2. /\ call[c].pc = "diagnose" /\ call[c].left > 0
          /\ UNCHANGED <<permits, waiters>>
      BY <1>4 DEF SendProbe
    <2>3. /\ call'[c].pc = pc /\ call'[c].step = 0 /\ call'[c].left = call[c].left - 1
          /\ call'[c].age = call[c].age /\ \A d \in Calls \ {c} : call'[d] = call[d]
      BY <1>1, <2>1 DEF Call
    <2>4. /\ call[c].age <= spell(call[c].left) + call[c].step /\ call[c].step <= Timeout
      BY <1>1, <2>2 DEF OwnTime
    <2>5. spell(call[c].left - 1) = spell(call[c].left) + 2 * Timeout
      <3>1. ASSUME NEW n \in Nat, NEW t \in Nat
            PROVE  2 * t * (n + 1) = 2 * t * n + 2 * t
        OBVIOUS
      <3>2. ProbeBudget - call[c].left \in Nat
        BY <1>1, <1>2
      <3>3. ProbeBudget - (call[c].left - 1) = (ProbeBudget - call[c].left) + 1
        BY <1>1, <1>2
      <3> DEFINE n == ProbeBudget - call[c].left
      <3> HIDE DEF n
      <3>4. n \in Nat /\ ProbeBudget - call[c].left = n
            /\ ProbeBudget - (call[c].left - 1) = n + 1
        BY <3>2, <3>3 DEF n
      <3>5. QED
        BY <1>2, <3>1, <3>4
    <2>6. spell(call[c].left) \in Nat
      BY <1>1, <1>3
    <2> HIDE DEF spell
    <2>7. /\ call[c].age <= spell(call[c].left - 1)
          /\ call[c].age + Timeout <= spell(call[c].left - 1)
      BY <1>1, <1>2, <2>4, <2>5, <2>6
    <2>8. /\ call'[c].age <= spell(call'[c].left) + call'[c].step
          /\ call'[c].age + Timeout <= spell(call'[c].left) + call'[c].step
      BY <1>1, <1>2, <2>3, <2>5, <2>6, <2>7
    <2>9. QED
      BY <1>2, <2>2, <2>3, <2>8 DEF OwnTime, spell
  <1>5. CASE ProbeReply(c)
    <2>1. /\ call[c].pc = "probe" /\ UNCHANGED <<permits, waiters>>
          /\ call' = [call EXCEPT ![c].pc = "diagnose", ![c].step = 0]
      BY <1>5 DEF ProbeReply
    <2>2. /\ call'[c].pc = "diagnose" /\ call'[c].step = 0 /\ call'[c].left = call[c].left
          /\ call'[c].age = call[c].age /\ \A d \in Calls \ {c} : call'[d] = call[d]
      BY <1>1, <2>1 DEF Call
    <2>3. call[c].age + Timeout <= spell(call[c].left) + call[c].step /\ call[c].step <= Timeout
      BY <1>1, <2>1 DEF OwnTime
    <2>4. spell(call[c].left) \in Nat
      BY <1>1, <1>3
    <2> HIDE DEF spell
    <2>5. call[c].age <= spell(call[c].left)
      BY <1>1, <1>2, <2>3, <2>4
    <2>6. call'[c].age <= spell(call'[c].left) + call'[c].step
      BY <1>1, <2>2, <2>4, <2>5
    <2>7. OwnTime(call'[c])
      BY <1>2, <2>2, <2>6 DEF OwnTime, spell
    <2>8. QED
      BY <2>1, <2>2, <2>7
  <1>6. QED
    BY <1>4, <1>5

LEMMA CancelTimed ==
    ASSUME Timed, IInv', NEW c \in Calls, Cancel(c)
    PROVE  LineInTime' /\ OwnTime(call'[c]) /\ \A d \in Calls \ {c} : call'[d] = call[d]
  <1>1. /\ call' = [call EXCEPT ![c] = Cancelled] /\ LeaveLine(c)
        /\ permits' = IF call[c].pc = "execute" THEN permits + 1 ELSE permits
    BY DEF Cancel, Forget
  <1>2. /\ call'[c] = Cancelled /\ call'[c].pc # "execute" /\ OwnTime(call'[c])
        /\ \A d \in Calls \ {c} : call'[d] = call[d]
    BY <1>1, IdleInTime DEF Timed, IInv, Typed
  <1>3. CASE call[c].pc # "wait" /\ UNCHANGED waiters
    BY <1>1, <1>2, <1>3, LineKept DEF Timed
  <1>4. CASE \E i \in DOMAIN waiters : waiters[i] = c /\ waiters' = RemoveAt(waiters, i)
    <2>1. PICK i \in DOMAIN waiters : waiters[i] = c /\ waiters' = RemoveAt(waiters, i)
      BY <1>4
    <2>2. call[c].pc = "wait"
      BY <2>1, LineFacts DEF Timed
    <2>3. permits' = permits
      BY <1>1, <2>2
    <2>4. QED
      BY <1>2, <2>1, <2>3, LineShorter DEF Timed
  <1>5. QED
    BY <1>1, <1>2, <1>3, <1>4 DEF LeaveLine

\* A step that ends a call, or starts its preparation, takes nobody's time.
LEMMA EndTimed ==
    ASSUME Timed, NEW c \in Calls,
           \/ RefuseSql(c) \/ Reenter(c) \/ RefuseSaved(c) \/ Diagnosed(c)
           \/ \E s \in Sessions, kind \in Kinds : Start(c, s, kind)
    PROVE  /\ OwnTime(call'[c]) /\ call'[c].pc # "execute"
           /\ call[c].pc \notin {"wait", "execute"}
           /\ permits' = permits /\ waiters' = waiters
           /\ \A d \in Calls \ {c} : call'[d] = call[d]
  <1>1. call \in [Calls -> Call]
    BY DEF Timed, IInv, Typed
  <1>2. CASE RefuseSql(c) \/ RefuseSaved(c) \/ Diagnosed(c)
    BY <1>1, <1>2, IdleInTime
    DEF RefuseSql, RefuseSaved, Diagnosed, Parsing, Forget, Record
  <1>3. CASE Reenter(c)
    <2>1. CASE Forget(c, Answered)
      BY <1>1, <1>3, <2>1, IdleInTime DEF Reenter, Forget
    <2>2. CASE call' = [call EXCEPT ![c] = [Idle EXCEPT !.pc = "reparse",
                                                        !.session = call[c].session]]
      <3>1. call'[c] = [Idle EXCEPT !.pc = "reparse", !.session = call[c].session]
        BY <1>1, <2>2
      <3>2. call'[c].pc = "reparse" /\ call'[c].age = 0 /\ call'[c].step = 0
        BY <3>1 DEF Idle
      <3>3. OwnTime(call'[c])
        BY <3>2, FreshInTime
      <3>4. QED
        BY <1>1, <1>3, <2>2, <3>2, <3>3 DEF Reenter
    <2>3. QED
      BY <1>3, <2>1, <2>2 DEF Reenter
  <1>4. ASSUME NEW s \in Sessions, NEW kind \in Kinds, Start(c, s, kind)
        PROVE  /\ OwnTime(call'[c]) /\ call'[c].pc # "execute"
               /\ call[c].pc \notin {"wait", "execute"}
               /\ permits' = permits /\ waiters' = waiters
               /\ \A d \in Calls \ {c} : call'[d] = call[d]
    <2>1. call'[c] = [Idle EXCEPT !.pc = "parse", !.session = s, !.kind = kind]
      BY <1>1, <1>4 DEF Start
    <2>2. call'[c].pc = "parse" /\ call'[c].age = 0 /\ call'[c].step = 0
      BY <2>1 DEF Idle
    <2>3. OwnTime(call'[c])
      BY <2>2, FreshInTime
    <2>4. QED
      BY <1>1, <1>4, <2>2, <2>3 DEF Start
  <1>5. QED
    BY <1>2, <1>3, <1>4

\* The line is empty at first.
LEMMA InitTimed == Init => Timed
  <1> SUFFICES ASSUME Init PROVE Timed
    OBVIOUS
  <1>1. LineInTime
    BY DEF Init, LineInTime
  <1>2. InTime
    <2>1. \A c \in Calls : call[c] = Idle
      BY DEF Init
    <2>2. QED
      BY <2>1, IdleInTime DEF InTime
  <1>3. QED
    BY <1>1, <1>2, InitIInv DEF Timed

LEMMA NextTimed == Timed /\ [Next]_vars => Timed'
  <1> SUFFICES ASSUME Timed, [Next]_vars PROVE Timed'
    OBVIOUS
  <1>0. IInv /\ IInv' /\ LineInTime /\ InTime
    BY NextIInv DEF Timed
  <1>1. CASE Tick
    <2>1. LineInTime'
      BY <1>0, <1>1, LineTicks
    <2>2. \A c \in Calls : OwnTime(Older(c))
      BY <1>0, <1>1, TimersTick DEF Tick
    <2>3. \A c \in Calls : OwnTime(call'[c])
      BY <1>1, <2>2 DEF Tick
    <2>4. InTime'
      BY <2>3 DEF InTime, OwnTime
    <2>5. QED
      BY <1>0, <2>1, <2>4 DEF Timed
  <1>2. ASSUME NEW c \in Calls, LineInTime', OwnTime(call'[c]),
               \A d \in Calls \ {c} : call'[d] = call[d]
        PROVE  Timed'
    BY <1>0, <1>2, OthersInTime DEF Timed
  <1>3. ASSUME NEW c \in Calls,
               \/ RefuseSql(c) \/ Reenter(c) \/ RefuseSaved(c) \/ Diagnosed(c)
               \/ \E s \in Sessions, kind \in Kinds : Start(c, s, kind)
        PROVE  Timed'
    <2>1. /\ OwnTime(call'[c]) /\ call'[c].pc # "execute"
          /\ call[c].pc \notin {"wait", "execute"}
          /\ permits' = permits /\ waiters' = waiters
          /\ \A d \in Calls \ {c} : call'[d] = call[d]
      BY <1>3, EndTimed
    <2>2. LineInTime'
      BY <1>0, <2>1, LineKept
    <2>3. QED
      BY <1>2, <2>1, <2>2
  <1>4. ASSUME NEW c \in Calls, Acquire(c) PROVE Timed'
    BY <1>0, <1>2, <1>4, AcquireTimed, PreparedInTime
  <1>5. ASSUME NEW c \in Calls, Grant(c) PROVE Timed'
    <2>1. \A d \in Calls \ {c} : call'[d] = call[d]
      BY <1>5 DEF Grant, Timed, IInv, Typed
    <2>2. QED
      BY <1>0, <1>2, <1>5, <2>1, GrantTimed
  <1>6. ASSUME NEW c \in Calls, Execute(c) PROVE Timed'
    <2>1. /\ OwnTime(call'[c]) /\ call'[c].pc # "execute" /\ call[c].pc = "execute"
          /\ permits' = permits + 1 /\ UNCHANGED waiters
          /\ \A d \in Calls \ {c} : call'[d] = call[d]
      BY <1>6, ExecuteTimed
    <2>2. LineInTime'
      BY <1>0, <2>1, LineKept
    <2>3. QED
      BY <1>2, <2>1, <2>2
  <1>7. ASSUME NEW c \in Calls, SendProbe(c) \/ ProbeReply(c) PROVE Timed'
    <2>1. /\ OwnTime(call'[c]) /\ call'[c].pc \in {"diagnose", "probe"}
          /\ call[c].pc \in {"diagnose", "probe"}
          /\ UNCHANGED <<permits, waiters>>
          /\ \A d \in Calls \ {c} : call'[d] = call[d]
      BY <1>7, ProbeTimed
    <2>2. /\ call[c].pc # "wait" /\ call[c].pc # "execute" /\ call'[c].pc # "execute"
          /\ waiters' = waiters /\ permits' = permits
      BY <2>1
    <2>3. LineInTime'
      BY <1>0, <2>1, <2>2, LineKept
    <2>4. QED
      BY <1>2, <2>1, <2>3
  <1>8. ASSUME NEW c \in Calls, Cancel(c) PROVE Timed'
    BY <1>0, <1>2, <1>8, CancelTimed
  <1>9. CASE UNCHANGED vars
    <2>1. permits' = permits /\ waiters' = waiters /\ call' = call
      BY <1>9 DEF vars
    <2>2. LineInTime'
      BY <1>0, <2>1 DEF LineInTime, Fits, Slow
    <2>3. InTime'
      BY <1>0, <2>1 DEF InTime
    <2>4. QED
      BY <1>0, <2>2, <2>3 DEF Timed
  <1>10. QED
    BY <1>1, <1>3, <1>4, <1>5, <1>6, <1>7, <1>8, <1>9 DEF Next, Progress

\* A call in the line has a round, and its round is in time.
LEMMA InTimeBounds == Timed => BoundedWait
  <1> SUFFICES ASSUME Timed PROVE BoundedWait
    OBVIOUS
  <1>1. Timeout \in Nat \ {0} /\ ProbeBudget \in Nat
    BY PolicyAssumption
  <1>2. \A c \in Calls : MaxAge \in Nat /\ OwnTime(call[c]) /\ call[c] \in Call
    BY RoundFacts DEF Timed, InTime, IInv, Typed
  <1>3. ASSUME NEW c \in In("wait") PROVE call[c].age <= MaxAge
    <2>1. PICK i \in DOMAIN waiters : waiters[i] = c
      BY DEF Timed, IInv, Line, ToSet
    <2>2. i \in Nat \ {0} /\ c \in Calls /\ call[c].age \in Nat
      BY <2>1, LineFacts DEF Timed
    <2>3. PICK k \in Nat : k * MaxInflight < i /\ i <= (k + 1) * MaxInflight
      BY <2>2, RoundOf
    <2>4. call[c].age + (k + 1) * Timeout <= MaxAge
      BY <2>1, <2>3 DEF Timed, LineInTime, Fits
    <2>5. (k + 1) * Timeout \in Nat
      BY <1>1, Products
    <2>6. QED
      BY <1>2, <2>2, <2>4, <2>5
  <1>4. ASSUME NEW c \in In("execute") PROVE call[c].age <= MaxAge
    <2>1. c \in Calls /\ call[c].pc = "execute"
      BY DEF In
    <2>2. call[c].step <= Timeout /\ call[c].age + (Timeout - call[c].step) <= MaxAge
      BY <1>2, <2>1 DEF OwnTime
    <2>3. call[c].age \in Nat /\ call[c].step \in Nat
      BY <1>2, <2>1 DEF Call
    <2>4. QED
      BY <1>1, <1>2, <2>1, <2>2, <2>3
  <1>5. ASSUME NEW c \in In("diagnose") \cup In("probe") PROVE call[c].age <= MaxDiagnosis
    <2>1. c \in Calls /\ call[c].pc \in {"diagnose", "probe"}
      BY DEF In
    <2>2. /\ call[c].age \in Nat /\ call[c].step \in Nat /\ call[c].left \in 0 .. ProbeBudget
      BY <1>2, <2>1 DEF Call
    <2> DEFINE n == ProbeBudget - call[c].left
               t == 2 * Timeout
    <2>3. n \in Nat /\ t \in Nat /\ n <= ProbeBudget
          /\ (call[c].left # 0 => n + 1 <= ProbeBudget)
      BY <1>1, <2>2
    <2>4. /\ call[c].step <= Timeout
          /\ call[c].pc = "diagnose" =>
                /\ call[c].left = 0 => call[c].step = 0
                /\ call[c].age <= t * n + call[c].step
          /\ call[c].pc = "probe" => call[c].age + Timeout <= t * n + call[c].step
      BY <1>2, <2>1 DEF OwnTime
    <2>5. MaxDiagnosis = t * ProbeBudget /\ t = 2 * Timeout
      BY DEF MaxDiagnosis
    <2> HIDE DEF n, t
    <2>6. /\ t * n = n * t /\ t * ProbeBudget = ProbeBudget * t /\ n * t \in Nat
          /\ n * t <= ProbeBudget * t
          /\ n + 1 <= ProbeBudget => (n + 1) * t <= ProbeBudget * t
          /\ (n + 1) * t = n * t + t
      BY <1>1, <2>3, Products
    <2>7. MaxDiagnosis \in Nat
      BY <1>1, <2>3, <2>5, <2>6, Products
    <2>8. CASE call[c].pc = "diagnose" /\ call[c].left = 0
      BY <2>2, <2>4, <2>5, <2>6, <2>7, <2>8
    <2>9. CASE call[c].pc = "diagnose" /\ call[c].left # 0
      BY <1>1, <2>2, <2>3, <2>4, <2>5, <2>6, <2>7, <2>9
    <2>10. CASE call[c].pc = "probe"
      BY <1>1, <2>2, <2>4, <2>5, <2>6, <2>7, <2>10
    <2>11. QED
      BY <2>1, <2>8, <2>9, <2>10
  <1>6. QED
    BY <1>3, <1>4, <1>5 DEF BoundedWait

(* First come, first served: whatever others do, a call has its rows or    *)
(* its timeout within its preparation and a timeout per round of the calls *)
(* ahead, and a diagnosis ends within two timeouts per probe.              *)
THEOREM WaitsAreBounded == Spec => []BoundedWait
  BY InitTimed, NextTimed, InTimeBounds, PTL DEF Spec

-----------------------------------------------------------------------------
(* The budget.  What a session has spent in the window is a sum over ages.  *)

Sums(upto, seconds) ==
    \A a \in DOMAIN upto : upto[a] = seconds[a] + (IF a = 0 THEN 0 ELSE upto[a - 1])

\* A set of numbers has a least one.
LEMMA LeastOf ==
    ASSUME NEW S, S \subseteq Nat, S # {}
    PROVE  \E n \in S : n \in Nat /\ \A m \in S : n <= m
  <1>1. PICK n \in S : \A m \in S : ~(<<m, n>> \in OpToRel(<, Nat))
    BY NatLessThanWellFounded, WFMin
  <1>2. ASSUME NEW m \in S PROVE n <= m
    <2>1. m \in Nat /\ n \in Nat
      OBVIOUS
    <2>2. ~(m < n)
      BY <1>1, <2>1 DEF OpToRel
    <2>3. QED
      BY <2>1, <2>2
  <1>3. QED
    BY <1>2

\* A set of ages has a first one.
LEMMA FirstOf ==
    ASSUME NEW S, S \subseteq 0 .. Window, S # {}
    PROVE  \E n \in S : n \in 0 .. Window /\ (n # 0 => n - 1 \in 0 .. Window /\ n - 1 \notin S)
  <1>1. S \subseteq Nat
    OBVIOUS
  <1>2. PICK n \in S : n \in Nat /\ \A m \in S : n <= m
    BY <1>1, LeastOf
  <1>3. n - 1 \notin S
    <2>1. ~(n <= n - 1)
      BY <1>2
    <2>2. QED
      BY <1>2, <2>1
  <1>4. n \in 0 .. Window /\ (n # 0 => n - 1 \in 0 .. Window)
    BY <1>2, PolicyAssumption
  <1>5. QED
    BY <1>3, <1>4

LEMMA SumsExist ==
    ASSUME NEW seconds \in [0 .. Window -> Nat]
    PROVE  \E upto \in [0 .. Window -> Nat] : Sums(upto, seconds)
  <1> DEFINE Bad == {n \in 0 .. Window : ~\E upto \in [0 .. n -> Nat] : Sums(upto, seconds)}
  <1>1. Window \in Nat
    BY PolicyAssumption
  <1>2. ASSUME Bad # {} PROVE FALSE
    <2>1. Bad \subseteq 0 .. Window
      OBVIOUS
    <2>2. PICK n \in Bad : /\ n \in 0 .. Window
                           /\ n # 0 => n - 1 \in 0 .. Window /\ n - 1 \notin Bad
      BY <1>2, <2>1, FirstOf, Zenon
    <2>3. n \in 0 .. Window /\ ~\E upto \in [0 .. n -> Nat] : Sums(upto, seconds)
      OBVIOUS
    <2>4. CASE n = 0
      <3>1. [a \in 0 .. 0 |-> seconds[a]] \in [0 .. 0 -> Nat]
        BY <1>1
      <3>2. Sums([a \in 0 .. 0 |-> seconds[a]], seconds)
        <4>1. \A a \in 0 .. 0 : a = 0 /\ seconds[a] \in Nat
          BY <1>1
        <4>2. QED
          BY <4>1 DEF Sums
      <3>3. QED
        BY <2>3, <2>4, <3>1, <3>2
    <2>5. CASE n # 0
      <3>1. n - 1 \in 0 .. Window /\ n - 1 \notin Bad
        BY <2>2, <2>5
      <3>2. PICK upto \in [0 .. n - 1 -> Nat] : Sums(upto, seconds)
        BY <3>1
      <3> DEFINE longer == [a \in 0 .. n |-> IF a = n THEN seconds[n] + upto[n - 1] ELSE upto[a]]
      <3>3. seconds[n] + upto[n - 1] \in Nat
        <4>1. n - 1 \in 0 .. n - 1
          BY <1>1, <2>3, <2>5
        <4>2. seconds[n] \in Nat /\ upto[n - 1] \in Nat
          BY <2>3, <4>1
        <4>3. QED
          BY <4>2
      <3>4. longer \in [0 .. n -> Nat]
        <4>1. \A a \in 0 .. n : a # n => a \in 0 .. n - 1
          BY <2>3
        <4>2. QED
          BY <3>3, <4>1
      <3>5. ASSUME NEW a \in 0 .. n
            PROVE  longer[a] = seconds[a] + (IF a = 0 THEN 0 ELSE longer[a - 1])
        <4>1. CASE a = n
          <5>1. n - 1 \in 0 .. n /\ n - 1 # n
            BY <2>3, <2>5
          <5>2. QED
            BY <2>5, <4>1, <5>1
        <4>2. CASE a # n
          <5>1. a \in 0 .. n - 1 /\ (a # 0 => a - 1 \in 0 .. n /\ a - 1 # n)
            BY <2>3, <4>2
          <5>2. upto[a] = seconds[a] + (IF a = 0 THEN 0 ELSE upto[a - 1])
            BY <3>2, <5>1 DEF Sums
          <5>3. QED
            BY <4>2, <5>1, <5>2
        <4>3. QED
          BY <4>1, <4>2
      <3>6. Sums(longer, seconds)
        BY <3>4, <3>5 DEF Sums
      <3>7. QED
        BY <2>3, <3>4, <3>6
    <2>6. QED
      BY <2>4, <2>5
  <1>3. Window \notin Bad /\ Window \in 0 .. Window
    BY <1>1, <1>2
  <1>4. QED
    BY <1>3

\* What Total adds up.
LEMMA TotalSums ==
    ASSUME NEW seconds \in [0 .. Window -> Nat]
    PROVE  \E upto \in [0 .. Window -> Nat] :
              Sums(upto, seconds) /\ Total(seconds) = upto[Window]
  <1> DEFINE Adds(upto) == upto = [a \in 0 .. Window |->
                              seconds[a] + (IF a = 0 THEN 0 ELSE upto[a - 1])]
  <1>1. \A upto \in [0 .. Window -> Nat] : Sums(upto, seconds) => Adds(upto)
    BY DEF Sums
  <1>2. \E upto : Adds(upto)
    BY <1>1, SumsExist
  <1>3. Adds(CHOOSE upto : Adds(upto))
    BY <1>2
  <1>4. Total(seconds) = (CHOOSE upto : Adds(upto))[Window]
    BY DEF Total
  <1> DEFINE chosen == CHOOSE upto : Adds(upto)
  <1> HIDE DEF chosen
  <1>5. /\ Adds(chosen) /\ Total(seconds) = chosen[Window]
    BY <1>3, <1>4 DEF chosen
  <1>6. DOMAIN chosen = 0 .. Window /\ Sums(chosen, seconds)
    BY <1>5 DEF Sums
  <1>7. chosen \in [0 .. Window -> Nat]
    <2> DEFINE Bad == {a \in 0 .. Window : chosen[a] \notin Nat}
    <2>1. ASSUME Bad # {} PROVE FALSE
      <3>0. Bad \subseteq 0 .. Window
        OBVIOUS
      <3>1. PICK a \in Bad : /\ a \in 0 .. Window
                             /\ a # 0 => a - 1 \in 0 .. Window /\ a - 1 \notin Bad
        BY <2>1, <3>0, FirstOf, Zenon
      <3>2. a # 0 => chosen[a - 1] \in Nat
        BY <3>1
      <3>3. seconds[a] \in Nat
        BY <3>1
      <3>4. chosen[a] = seconds[a] + (IF a = 0 THEN 0 ELSE chosen[a - 1])
        BY <1>6, <3>1 DEF Sums
      <3>5. chosen[a] \in Nat
        BY <3>2, <3>3, <3>4
      <3>6. QED
        BY <3>1, <3>5
    <2>2. QED
      BY <1>5, <2>1
  <1>8. QED
    BY <1>5, <1>6, <1>7

\* Two sums that differ by n at the first age differ by n.
LEMMA TotalMore ==
    ASSUME NEW before \in [0 .. Window -> Nat], NEW n \in Nat,
           NEW after \in [0 .. Window -> Nat], after[0] = before[0] + n,
           \A a \in 0 .. Window : a # 0 => after[a] = before[a]
    PROVE  Total(after) = Total(before) + n
  <1>1. PICK b \in [0 .. Window -> Nat] : Sums(b, before) /\ Total(before) = b[Window]
    BY TotalSums
  <1>2. PICK x \in [0 .. Window -> Nat] : Sums(x, after) /\ Total(after) = x[Window]
    BY TotalSums
  <1> DEFINE Bad == {a \in 0 .. Window : x[a] # b[a] + n}
  <1>3. ASSUME Bad # {} PROVE FALSE
    <2>0. Bad \subseteq 0 .. Window
      OBVIOUS
    <2>1. PICK a \in Bad : /\ a \in 0 .. Window
                           /\ a # 0 => a - 1 \in 0 .. Window /\ a - 1 \notin Bad
      BY <1>3, <2>0, FirstOf, Zenon
    <2>2. /\ a \in 0 .. Window /\ x[a] # b[a] + n
          /\ x[a] = after[a] + (IF a = 0 THEN 0 ELSE x[a - 1])
          /\ b[a] = before[a] + (IF a = 0 THEN 0 ELSE b[a - 1])
          /\ before[a] \in Nat
      BY <1>1, <1>2 DEF Sums
    <2>3. CASE a = 0
      BY <2>2, <2>3
    <2>4. CASE a # 0
      <3>1. a - 1 \in 0 .. Window /\ a - 1 \notin Bad
        BY <2>1, <2>4
      <3>2. x[a - 1] = b[a - 1] + n /\ b[a - 1] \in Nat
        BY <3>1
      <3>3. QED
        BY <2>2, <2>4, <3>2
    <2>5. QED
      BY <2>3, <2>4
  <1>4. Window \in 0 .. Window /\ Window \notin Bad
    <2>1. Bad = {}
      BY <1>3
    <2> HIDE DEF Bad
    <2>2. QED
      BY <2>1, PolicyAssumption
  <1>5. QED
    BY <1>1, <1>2, <1>4

\* What an age later is left of a sum is not more.
LEMMA TotalPruned ==
    ASSUME NEW before \in [0 .. Window -> Nat]
    PROVE  Total([a \in 0 .. Window |-> IF a > 0 THEN before[a - 1] ELSE 0]) <= Total(before)
  <1> DEFINE after == [a \in 0 .. Window |-> IF a > 0 THEN before[a - 1] ELSE 0]
  <1>1. after \in [0 .. Window -> Nat]
    <2>1. \A a \in 0 .. Window : a > 0 => a - 1 \in 0 .. Window
      BY PolicyAssumption
    <2>2. QED
      BY <2>1
  <1>2. \A a \in 0 .. Window : after[a] = IF a > 0 THEN before[a - 1] ELSE 0
    OBVIOUS
  <1> HIDE DEF after
  <1>3. PICK b \in [0 .. Window -> Nat] : Sums(b, before) /\ Total(before) = b[Window]
    BY TotalSums
  <1>4. PICK x \in [0 .. Window -> Nat] : Sums(x, after) /\ Total(after) = x[Window]
    BY <1>1, TotalSums
  <1> DEFINE Bad == {a \in 0 .. Window : x[a] # IF a = 0 THEN 0 ELSE b[a - 1]}
  <1>5. ASSUME Bad # {} PROVE FALSE
    <2>0. Bad \subseteq 0 .. Window
      OBVIOUS
    <2>1. PICK a \in Bad : /\ a \in 0 .. Window
                           /\ a # 0 => a - 1 \in 0 .. Window /\ a - 1 \notin Bad
      BY <1>5, <2>0, FirstOf, Zenon
    <2>2. /\ a \in 0 .. Window /\ x[a] # (IF a = 0 THEN 0 ELSE b[a - 1])
          /\ x[a] = (IF a > 0 THEN before[a - 1] ELSE 0) + (IF a = 0 THEN 0 ELSE x[a - 1])
      BY <1>2, <1>4 DEF Sums
    <2>3. CASE a = 0
      BY <2>2, <2>3
    <2>4. CASE a # 0
      <3>1. a - 1 \in 0 .. Window /\ a - 1 \notin Bad /\ a > 0
        BY <2>1, <2>4, PolicyAssumption
      <3>2. x[a - 1] = IF a - 1 = 0 THEN 0 ELSE b[(a - 1) - 1]
        BY <3>1
      <3>3. b[a - 1] = before[a - 1] + (IF a - 1 = 0 THEN 0 ELSE b[(a - 1) - 1])
        BY <1>3, <3>1 DEF Sums
      <3>4. QED
        BY <2>2, <2>4, <3>1, <3>2, <3>3
    <2>5. QED
      BY <2>3, <2>4
  <1>6. Window \in 0 .. Window /\ Window \notin Bad /\ (Window # 0 => Window - 1 \in 0 .. Window)
    <2>1. Bad = {}
      BY <1>5
    <2> HIDE DEF Bad
    <2>2. QED
      BY <2>1, PolicyAssumption
  <1>7. b[Window] = before[Window] + (IF Window = 0 THEN 0 ELSE b[Window - 1])
    BY <1>3, <1>6 DEF Sums
  <1>8. /\ before[Window] \in Nat /\ b[Window] \in Nat
        /\ (Window # 0 => b[Window - 1] \in Nat)
    BY <1>6
  <1>9. x[Window] = IF Window = 0 THEN 0 ELSE b[Window - 1]
    BY <1>6
  <1>10. x[Window] <= b[Window]
    BY <1>7, <1>8, <1>9
  <1>11. QED
    BY <1>3, <1>4, <1>10 DEF after

\* A session's calls that have still to be charged for their run, and for
\* their diagnosis only.
Owing(calls, s, pcs) == {c \in Calls : calls[c].session = s /\ calls[c].pc \in pcs}
Running(calls, s) == Owing(calls, s, {"parse", "reparse", "wait", "execute"})
Diagnosing(calls, s) == Owing(calls, s, {"diagnose", "probe"})

\* What is spent, with what these many calls can still add to it.
Room(spent, running, diagnosing) ==
    spent + running * (MaxAge + MaxDiagnosis) + diagnosing * MaxDiagnosis
        < Budget + Cardinality(Calls) * (MaxAge + MaxDiagnosis)

Reserved ==
    \A s \in Sessions :
        Room(Total(spend[s]), Cardinality(Running(call, s)),
             Cardinality(Diagnosing(call, s)))

LEMMA TotalNone ==
    ASSUME NEW seconds \in [0 .. Window -> Nat], \A a \in 0 .. Window : seconds[a] = 0
    PROVE  Total(seconds) = 0
  <1>1. PICK upto \in [0 .. Window -> Nat] :
            Sums(upto, seconds) /\ Total(seconds) = upto[Window]
    BY TotalSums
  <1> DEFINE Bad == {a \in 0 .. Window : upto[a] # 0}
  <1>2. ASSUME Bad # {} PROVE FALSE
    <2>0. Bad \subseteq 0 .. Window
      OBVIOUS
    <2>1. PICK a \in Bad : /\ a \in 0 .. Window
                           /\ a # 0 => a - 1 \in 0 .. Window /\ a - 1 \notin Bad
      BY <1>2, <2>0, FirstOf, Zenon
    <2>2. upto[a] # 0 /\ upto[a] = seconds[a] + (IF a = 0 THEN 0 ELSE upto[a - 1])
      BY <1>1, <2>1 DEF Sums
    <2>3. QED
      BY <2>1, <2>2
  <1>3. Window \in 0 .. Window /\ Window \notin Bad
    <2>1. Bad = {}
      BY <1>2
    <2> HIDE DEF Bad
    <2>2. QED
      BY <2>1, PolicyAssumption
  <1>4. QED
    BY <1>1, <1>3

LEMMA TotalNat ==
    ASSUME NEW seconds \in [0 .. Window -> Nat]
    PROVE  Total(seconds) \in Nat
  BY TotalSums, PolicyAssumption

LEMMA Rates ==
    /\ MaxAge \in Nat /\ MaxDiagnosis \in Nat /\ MaxAge + MaxDiagnosis \in Nat
    /\ Budget \in Nat \ {0} /\ Cardinality(Calls) \in Nat
  <1>1. MaxDiagnosis \in Nat
    <2>1. 2 * Timeout \in Nat /\ ProbeBudget \in Nat
      BY PolicyAssumption
    <2>2. QED
      BY <2>1, Products DEF MaxDiagnosis
  <1>2. Cardinality(Calls) \in Nat
    BY CallsAssumption, FS_CardinalityType
  <1>3. MaxAge \in Nat
    <2>1. CASE Calls = {}
      <3>1. Cardinality(Calls) - 1 = -1
        BY <2>1, FS_EmptySet
      <3>2. (-1) \div MaxInflight = -1
        BY PolicyAssumption
      <3>3. QED
        BY <3>1, <3>2, PolicyAssumption DEF MaxAge
    <2>2. CASE Calls # {}
      BY <2>2, RoundFacts
    <2>3. QED
      BY <2>1, <2>2
  <1>4. QED
    BY <1>1, <1>2, <1>3, PolicyAssumption

\* A charge is covered by what was kept back for it.
LEMMA RoomKept ==
    ASSUME NEW spent \in Nat, NEW b \in Nat, NEW a \in Nat, Room(spent, b, a),
           NEW spentNext \in Nat, NEW bNext \in Nat, NEW aNext \in Nat,
           \/ bNext = b /\ aNext = a /\ spentNext <= spent
           \/ bNext + 1 = b /\ aNext = a /\ spentNext <= spent + MaxAge
           \/ bNext + 1 = b /\ aNext = a + 1 /\ spentNext <= spent + MaxAge
           \/ bNext = b /\ aNext + 1 = a /\ spentNext <= spent + MaxDiagnosis
    PROVE  Room(spentNext, bNext, aNext)
  <1> DEFINE k == MaxAge + MaxDiagnosis
             d == MaxDiagnosis
             most == Cardinality(Calls) * k
  <1>1. /\ k \in Nat /\ d \in Nat /\ MaxAge \in Nat /\ k = MaxAge + d /\ most \in Nat
        /\ Budget \in Nat
    BY Rates, Products
  <1>2. spent + b * k + a * d < Budget + most
    BY DEF Room
  <1> HIDE DEF k, d, most
  <1>3. /\ b * k \in Nat /\ a * d \in Nat /\ bNext * k \in Nat /\ aNext * d \in Nat
        /\ (bNext + 1) * k = bNext * k + k
        /\ (aNext + 1) * d = aNext * d + d /\ (a + 1) * d = a * d + d
    BY <1>1, Products
  <1>4. \/ bNext * k = b * k /\ aNext * d = a * d /\ spentNext <= spent
        \/ bNext * k + k = b * k /\ aNext * d = a * d /\ spentNext <= spent + MaxAge
        \/ bNext * k + k = b * k /\ aNext * d = a * d + d /\ spentNext <= spent + MaxAge
        \/ bNext * k = b * k /\ aNext * d + d = a * d /\ spentNext <= spent + d
    <2>1. CASE bNext = b /\ aNext = a /\ spentNext <= spent
      BY <2>1
    <2>2. CASE bNext + 1 = b /\ aNext = a /\ spentNext <= spent + MaxAge
      BY <1>3, <2>2
    <2>3. CASE bNext + 1 = b /\ aNext = a + 1 /\ spentNext <= spent + MaxAge
      BY <1>3, <2>3
    <2>4. CASE bNext = b /\ aNext + 1 = a /\ spentNext <= spent + MaxDiagnosis
      BY <1>3, <2>4 DEF d
    <2>5. QED
      BY <2>1, <2>2, <2>3, <2>4
  <1>5. PICK x \in Nat, y \in Nat, u \in Nat, v \in Nat :
            x = b * k /\ y = a * d /\ u = bNext * k /\ v = aNext * d
    BY <1>3
  <1>6. spent + x + y < Budget + most
    BY <1>2, <1>5
  <1>7. \/ u = x /\ v = y /\ spentNext <= spent
        \/ u + k = x /\ v = y /\ spentNext <= spent + MaxAge
        \/ u + k = x /\ v = y + d /\ spentNext <= spent + MaxAge
        \/ u = x /\ v + d = y /\ spentNext <= spent + d
    BY <1>4, <1>5
  <1>8. spentNext + u + v < Budget + most
    BY <1>1, <1>6, <1>7
  <1>9. spentNext + bNext * k + aNext * d < Budget + most
    BY <1>5, <1>8
  <1>10. QED
    BY <1>9 DEF Room, k, d, most

\* A session that has budget left has room for all the calls there are.
LEMMA RoomAtStart ==
    ASSUME NEW spent \in Nat, spent < Budget, NEW b \in Nat, NEW a \in Nat,
           b + a <= Cardinality(Calls)
    PROVE  Room(spent, b, a)
  <1> DEFINE k == MaxAge + MaxDiagnosis
             d == MaxDiagnosis
             n == Cardinality(Calls)
  <1>1. k \in Nat /\ d \in Nat /\ d <= k /\ n \in Nat /\ Budget \in Nat /\ b + a <= n
    BY Rates
  <1> HIDE DEF k, d, n
  <1>2. /\ (b + a) * k <= n * k /\ (b + a) * k = b * k + a * k
        /\ b * k \in Nat /\ a * k \in Nat /\ a * d \in Nat /\ n * k \in Nat
    <2>1. (b + a) * k <= n * k
      BY <1>1, Products
    <2>2. (b + a) * k = b * k + a * k
      BY <1>1
    <2>3. QED
      BY <1>1, <2>1, <2>2, Products
  <1>3. a * d <= a * k
    <2>1. d * a <= k * a
      BY <1>1, Products
    <2>2. d * a = a * d /\ k * a = a * k
      BY <1>1
    <2>3. QED
      BY <2>1, <2>2
  <1>4. spent + b * k + a * d < Budget + n * k
    BY <1>1, <1>2, <1>3
  <1>5. QED
    BY <1>4 DEF Room, k, d, n

LEMMA OwingFacts ==
    ASSUME NEW calls, NEW s, NEW pcs
    PROVE  /\ Owing(calls, s, pcs) \subseteq Calls /\ IsFiniteSet(Owing(calls, s, pcs))
           /\ Cardinality(Owing(calls, s, pcs)) \in Nat
  <1>1. Owing(calls, s, pcs) \subseteq Calls
    BY DEF Owing
  <1>2. QED
    BY <1>1, CallsAssumption, FS_Subset, FS_CardinalityType

\* No call is counted twice.
LEMMA OwingAll ==
    ASSUME NEW calls, NEW s
    PROVE  Cardinality(Running(calls, s)) + Cardinality(Diagnosing(calls, s))
              <= Cardinality(Calls)
  <1> DEFINE R == Running(calls, s)
             D == Diagnosing(calls, s)
  <1>1. /\ R \subseteq Calls /\ IsFiniteSet(R) /\ Cardinality(R) \in Nat
        /\ D \subseteq Calls /\ IsFiniteSet(D) /\ Cardinality(D) \in Nat
    BY OwingFacts DEF Running, Diagnosing
  <1>2. R \cap D = {}
    BY DEF Running, Diagnosing, Owing
  <1> HIDE DEF R, D
  <1>3. R \cup D \in SUBSET Calls
    BY <1>1
  <1>4. Cardinality(R \cup D) <= Cardinality(Calls)
    BY <1>3, CallsAssumption, FS_Subset
  <1>5. Cardinality(R \cup D) = Cardinality(R) + Cardinality(D) - Cardinality(R \cap D)
    BY <1>1, FS_Union
  <1>6. Cardinality(R \cap D) = 0 /\ Cardinality(Calls) \in Nat
    BY <1>2, FS_EmptySet, CallsAssumption, FS_CardinalityType
  <1>7. Cardinality(R) + Cardinality(D) <= Cardinality(Calls)
    BY <1>1, <1>4, <1>5, <1>6
  <1>8. QED
    BY <1>7 DEF R, D

LEMMA OwingMoves ==
    ASSUME NEW calls, NEW next, NEW c \in Calls, \A d \in Calls \ {c} : next[d] = calls[d],
           NEW s, NEW pcs
    PROVE  LET was == Owing(calls, s, pcs)
               is  == Owing(next, s, pcs)
           IN  /\ (c \in was <=> c \in is) => is = was
               /\ c \in was /\ c \notin is => Cardinality(is) + 1 = Cardinality(was)
               /\ c \notin was /\ c \in is => Cardinality(is) = Cardinality(was) + 1
  <1> DEFINE was == Owing(calls, s, pcs)
             is  == Owing(next, s, pcs)
  <1>1. \A d \in Calls \ {c} : d \in was <=> d \in is
    BY DEF Owing
  <1>2. /\ was \subseteq Calls /\ IsFiniteSet(was) /\ Cardinality(was) \in Nat
        /\ is \subseteq Calls /\ IsFiniteSet(is) /\ Cardinality(is) \in Nat
    BY OwingFacts
  <1> HIDE DEF was, is
  <1>3. (c \in was <=> c \in is) => is = was
    BY <1>1, <1>2
  <1>4. ASSUME c \in was, c \notin is PROVE Cardinality(is) + 1 = Cardinality(was)
    <2>1. is = was \ {c}
      BY <1>1, <1>2, <1>4
    <2>2. Cardinality(is) = Cardinality(was) - 1
      BY <1>2, <1>4, <2>1, FS_RemoveElement
    <2>3. QED
      BY <1>2, <2>2
  <1>5. ASSUME c \notin was, c \in is PROVE Cardinality(is) = Cardinality(was) + 1
    <2>1. is = was \cup {c}
      BY <1>1, <1>2, <1>5
    <2>2. QED
      BY <1>2, <1>5, <2>1, FS_AddElement
  <1>6. QED
    BY <1>3, <1>4, <1>5 DEF was, is

\* What has to be said of each session after a step.
LEMMA ReservedNext ==
    ASSUME \A r \in Sessions :
               Room(Total(spend'[r]), Cardinality(Running(call', r)),
                    Cardinality(Diagnosing(call', r)))
    PROVE  Reserved'
  BY DEF Reserved, Room, Total, Running, Diagnosing, Owing, MaxAge, MaxDiagnosis

LEMMA SpendTyped ==
    /\ Typed => \A r \in Sessions : spend[r] \in [0 .. Window -> Nat] /\ Total(spend[r]) \in Nat
    /\ Typed' => \A r \in Sessions : spend'[r] \in [0 .. Window -> Nat] /\ Total(spend'[r]) \in Nat
  BY TotalNat DEF Typed

RunningPc == {"parse", "reparse", "wait", "execute"}
DiagnosingPc == {"diagnose", "probe"}

\* c's step charges its session no more than was kept back for c.
LEMMA ChargeKept ==
    ASSUME IInv, IInv', Reserved, NEW c \in Calls,
           \A d \in Calls \ {c} : call'[d] = call[d],
           \A r \in Sessions : r # call[c].session => spend'[r] = spend[r],
           NEW charge \in Nat,
           Total(spend'[call[c].session]) <= Total(spend[call[c].session]) + charge,
           call'[c].pc = "idle" \/ call'[c].session = call[c].session,
           \/ call[c].pc \in RunningPc /\ call'[c].pc \in RunningPc /\ charge = 0
           \/ call[c].pc \in RunningPc /\ call'[c].pc \notin RunningPc /\ charge <= MaxAge
           \/ call[c].pc \in DiagnosingPc /\ call'[c].pc \in DiagnosingPc /\ charge = 0
           \/ /\ call[c].pc \in DiagnosingPc /\ call'[c].pc = "idle"
              /\ charge <= MaxDiagnosis
    PROVE  Reserved'
  <1> SUFFICES ASSUME NEW r \in Sessions
               PROVE  Room(Total(spend'[r]), Cardinality(Running(call', r)),
                           Cardinality(Diagnosing(call', r)))
    BY ReservedNext
  <1> DEFINE b == Cardinality(Running(call, r))
             a == Cardinality(Diagnosing(call, r))
             bNext == Cardinality(Running(call', r))
             aNext == Cardinality(Diagnosing(call', r))
  <1>1. /\ b \in Nat /\ a \in Nat /\ bNext \in Nat /\ aNext \in Nat
    BY OwingFacts DEF Running, Diagnosing
  <1>2. /\ Total(spend[r]) \in Nat /\ Total(spend'[r]) \in Nat
    BY SpendTyped DEF IInv
  <1>3. Room(Total(spend[r]), b, a)
    BY DEF Reserved
  <1>4. /\ c \in Running(call, r) <=> call[c].session = r /\ call[c].pc \in RunningPc
        /\ c \in Running(call', r) <=> call'[c].session = r /\ call'[c].pc \in RunningPc
        /\ c \in Diagnosing(call, r) <=> call[c].session = r /\ call[c].pc \in DiagnosingPc
        /\ c \in Diagnosing(call', r) <=> call'[c].session = r /\ call'[c].pc \in DiagnosingPc
    BY DEF Running, Diagnosing, Owing, RunningPc, DiagnosingPc
  <1>5. /\ (c \in Running(call, r) <=> c \in Running(call', r)) => bNext = b
        /\ c \in Running(call, r) /\ c \notin Running(call', r) => bNext + 1 = b
        /\ (c \in Diagnosing(call, r) <=> c \in Diagnosing(call', r)) => aNext = a
        /\ c \in Diagnosing(call, r) /\ c \notin Diagnosing(call', r) => aNext + 1 = a
        /\ c \notin Diagnosing(call, r) /\ c \in Diagnosing(call', r) => aNext = a + 1
    BY OwingMoves DEF Running, Diagnosing
  <1>6. /\ "idle" \notin RunningPc /\ "idle" \notin DiagnosingPc
        /\ \A pc : ~(pc \in RunningPc /\ pc \in DiagnosingPc)
    BY DEF RunningPc, DiagnosingPc
  <1> HIDE DEF b, a, bNext, aNext
  <1>7. CASE call[c].session # r
    <2>1. bNext = b /\ aNext = a /\ Total(spend'[r]) = Total(spend[r])
      BY <1>4, <1>5, <1>6, <1>7
    <2>2. QED
      BY <1>1, <1>2, <1>3, <2>1 DEF b, a, bNext, aNext
  <1>8. CASE call[c].session = r
    <2>1. Total(spend'[r]) <= Total(spend[r]) + charge
      BY <1>8
    <2>2. CASE \/ call[c].pc \in RunningPc /\ call'[c].pc \in RunningPc /\ charge = 0
               \/ call[c].pc \in DiagnosingPc /\ call'[c].pc \in DiagnosingPc /\ charge = 0
      <3>1. bNext = b /\ aNext = a
        BY <1>4, <1>5, <1>6, <1>8, <2>2
      <3>2. Total(spend'[r]) <= Total(spend[r])
        BY <1>2, <2>1, <2>2
      <3>3. QED
        BY <1>1, <1>2, <1>3, <3>1, <3>2, RoomKept DEF bNext, aNext
    <2>3. CASE call[c].pc \in RunningPc /\ call'[c].pc \notin RunningPc /\ charge <= MaxAge
      <3>1. bNext + 1 = b /\ (aNext = a \/ aNext = a + 1)
        BY <1>4, <1>5, <1>6, <1>8, <2>3
      <3>2. Total(spend'[r]) <= Total(spend[r]) + MaxAge
        BY <1>2, <2>1, <2>3, Rates
      <3>3. QED
        BY <1>1, <1>2, <1>3, <3>1, <3>2, RoomKept DEF bNext, aNext
    <2>4. CASE /\ call[c].pc \in DiagnosingPc /\ call'[c].pc = "idle"
               /\ charge <= MaxDiagnosis
      <3>1. bNext = b /\ aNext + 1 = a
        BY <1>4, <1>5, <1>6, <1>8, <2>4
      <3>2. Total(spend'[r]) <= Total(spend[r]) + MaxDiagnosis
        BY <1>2, <2>1, <2>4, Rates
      <3>3. QED
        BY <1>1, <1>2, <1>3, <3>1, <3>2, RoomKept DEF bNext, aNext
    <2>5. QED
      BY <2>2, <2>3, <2>4
  <1>9. QED
    BY <1>7, <1>8

\* A charge adds c's age to what its session has spent, and to no other's.
LEMMA RecordTotal ==
    ASSUME IInv, IInv', NEW c \in Calls, NEW next \in Call, Record(c, next)
    PROVE  /\ Total(spend'[call[c].session]) = Total(spend[call[c].session]) + call[c].age
           /\ \A r \in Sessions : r # call[c].session => spend'[r] = spend[r]
  <1>1. call[c].session \in Sessions /\ call[c].age \in Nat
    BY DEF IInv, Typed, Call
  <1> DEFINE before == spend[call[c].session]
             after == spend'[call[c].session]
  <1>2. before \in [0 .. Window -> Nat] /\ after \in [0 .. Window -> Nat]
    BY <1>1 DEF IInv, Typed
  <1>3. after[0] = before[0] + call[c].age
    BY RecordTyped DEF IInv
  <1>4. /\ \A a \in 0 .. Window : a # 0 => after[a] = before[a]
        /\ \A r \in Sessions : r # call[c].session => spend'[r] = spend[r]
    <2>1. spend' = [spend EXCEPT ![call[c].session] =
                       [spend[call[c].session] EXCEPT ![0] = @ + call[c].age]]
      BY <1>1 DEF Record, IInv, Typed
    <2>2. after = [before EXCEPT ![0] = @ + call[c].age]
      BY <1>1, <2>1 DEF IInv, Typed
    <2>3. \A a \in 0 .. Window : a # 0 => after[a] = before[a]
      BY <1>2, <2>2
    <2>4. QED
      BY <2>1, <2>3 DEF IInv, Typed
  <1> HIDE DEF before, after
  <1>5. Total(after) = Total(before) + call[c].age
    BY <1>1, <1>2, <1>3, <1>4, TotalMore
  <1>6. QED
    BY <1>4, <1>5 DEF before, after

LEMMA AgeBounds ==
    ASSUME Timed, NEW c \in Calls
    PROVE  /\ call[c] \in Call /\ call[c].age \in Nat
           /\ call[c].pc \in RunningPc => call[c].age <= MaxAge
           /\ call[c].pc \in DiagnosingPc => call[c].age <= MaxDiagnosis
  <1>1. call[c] \in Call /\ call[c].age \in Nat /\ call[c].step \in Nat
    BY DEF Timed, IInv, Typed, Call
  <1>2. BoundedWait
    BY InTimeBounds
  <1>3. CASE call[c].pc \in {"parse", "reparse"}
    <2>1. call[c].age <= ParseTimeout
      BY <1>3 DEF Timed, InTime, OwnTime
    <2>2. QED
      BY <1>1, <1>3, <2>1, RoundFacts, PolicyAssumption DEF DiagnosingPc
  <1>4. CASE call[c].pc \notin {"parse", "reparse"}
    BY <1>1, <1>2, <1>4 DEF BoundedWait, In, RunningPc, DiagnosingPc
  <1>5. QED
    BY <1>3, <1>4

Afforded == Timed /\ Reserved

LEMMA StartAfforded ==
    ASSUME Afforded, IInv', NEW c \in Calls, NEW s \in Sessions, NEW kind \in Kinds,
           Start(c, s, kind)
    PROVE  Reserved'
  <1> SUFFICES ASSUME NEW r \in Sessions
               PROVE  Room(Total(spend'[r]), Cardinality(Running(call', r)),
                           Cardinality(Diagnosing(call', r)))
    BY ReservedNext
  <1>1. /\ call[c].pc = "idle" /\ Total(spend[s]) < Budget /\ spend' = spend
        /\ call' = [call EXCEPT ![c] = [Idle EXCEPT !.pc = "parse", !.session = s,
                                                    !.kind = kind]]
    BY DEF Start, Spent
  <1>2. call'[c].session = s /\ \A d \in Calls \ {c} : call'[d] = call[d]
    BY <1>1 DEF Afforded, Timed, IInv, Typed, Idle
  <1>3. CASE r = s
    <2>1. Cardinality(Running(call', r)) + Cardinality(Diagnosing(call', r))
              <= Cardinality(Calls)
      BY OwingAll
    <2>2. /\ Cardinality(Running(call', r)) \in Nat
          /\ Cardinality(Diagnosing(call', r)) \in Nat
      BY OwingFacts DEF Running, Diagnosing
    <2>3. Total(spend'[r]) \in Nat /\ Total(spend'[r]) < Budget
      BY <1>1, <1>3, SpendTyped DEF Afforded, Timed, IInv
    <2>4. QED
      BY <2>1, <2>2, <2>3, RoomAtStart
  <1>4. CASE r # s
    <2>1. Running(call', r) = Running(call, r) /\ Diagnosing(call', r) = Diagnosing(call, r)
      BY <1>1, <1>2, <1>4 DEF Running, Diagnosing, Owing
    <2>2. QED
      BY <1>1, <2>1 DEF Afforded, Reserved
  <1>5. QED
    BY <1>3, <1>4

\* A step that charges nothing, and ends c, or leaves it where its charge is due.
LEMMA ForgetAfforded ==
    ASSUME Afforded, IInv', NEW c \in Calls,
           \A d \in Calls \ {c} : call'[d] = call[d], spend' = spend,
           call'[c].pc = "idle" \/ call'[c].session = call[c].session,
           \/ call[c].pc \in RunningPc /\ call'[c].pc \in RunningPc
           \/ call[c].pc \in DiagnosingPc /\ call'[c].pc \in DiagnosingPc
           \/ call[c].pc \in RunningPc \cup DiagnosingPc /\ call'[c].pc = "idle"
    PROVE  Reserved'
  <1>1. call[c].session \in Sessions
    BY DEF Afforded, Timed, IInv, Typed, Call
  <1>2. Total(spend'[call[c].session]) <= Total(spend[call[c].session]) + 0
    BY <1>1, SpendTyped DEF Afforded, Timed, IInv
  <1>3. 0 \in Nat /\ 0 <= MaxAge /\ 0 <= MaxDiagnosis /\ "idle" \notin RunningPc
    BY Rates DEF RunningPc
  <1>4. QED
    BY <1>2, <1>3, ChargeKept DEF Afforded, Timed

\* A charge ends the run, or the diagnosis.
LEMMA RecordAfforded ==
    ASSUME Afforded, IInv', NEW c \in Calls, NEW next \in Call, Record(c, next),
           next.pc = "idle" \/ next.session = call[c].session,
           \/ call[c].pc \in RunningPc /\ next.pc \notin RunningPc
           \/ call[c].pc \in DiagnosingPc /\ next.pc = "idle"
    PROVE  Reserved'
  <1>1. call'[c] = next /\ \A d \in Calls \ {c} : call'[d] = call[d]
    BY DEF Record, Afforded, Timed, IInv, Typed
  <1>2. /\ Total(spend'[call[c].session]) = Total(spend[call[c].session]) + call[c].age
        /\ \A r \in Sessions : r # call[c].session => spend'[r] = spend[r]
    BY RecordTotal DEF Afforded, Timed
  <1>3. /\ call[c].age \in Nat
        /\ call[c].pc \in RunningPc => call[c].age <= MaxAge
        /\ call[c].pc \in DiagnosingPc => call[c].age <= MaxDiagnosis
    BY AgeBounds DEF Afforded
  <1>4. Total(spend'[call[c].session]) <= Total(spend[call[c].session]) + call[c].age
    <2>1. call[c].session \in Sessions
      BY DEF Afforded, Timed, IInv, Typed, Call
    <2>2. Total(spend[call[c].session]) \in Nat
      BY <2>1, SpendTyped DEF Afforded, Timed, IInv
    <2>3. QED
      BY <1>2, <1>3, <2>2
  <1>5. QED
    BY <1>1, <1>2, <1>3, <1>4, ChargeKept DEF Afforded, Timed

LEMMA ProgressAfforded ==
    ASSUME Afforded, IInv', NEW c \in Calls, Progress(c)
    PROVE  Reserved'
  <1>1. /\ call \in [Calls -> Call] /\ call[c] \in Call
    BY DEF Afforded, Timed, IInv, Typed
  <1>2. /\ Answered \in Call /\ Answered.pc = "idle"
        /\ "idle" \notin RunningPc /\ "diagnose" \notin RunningPc
        /\ \A pc \in {"parse", "reparse", "wait", "execute"} : pc \in RunningPc
        /\ \A pc \in {"diagnose", "probe"} : pc \in DiagnosingPc
    BY IdleFacts DEF RunningPc, DiagnosingPc
  <1>3. CASE RefuseSql(c)
    BY <1>1, <1>2, <1>3, ForgetAfforded DEF RefuseSql, Parsing, Forget
  <1>4. CASE Reenter(c)
    <2>1. CASE Forget(c, Answered)
      BY <1>1, <1>2, <1>4, <2>1, ForgetAfforded DEF Reenter, Forget
    <2>2. CASE /\ call' = [call EXCEPT ![c] = [Idle EXCEPT !.pc = "reparse",
                                                    !.session = call[c].session]]
               /\ UNCHANGED spend
      <3>1. /\ call'[c].pc = "reparse" /\ call'[c].session = call[c].session
            /\ \A d \in Calls \ {c} : call'[d] = call[d]
        BY <1>1, <2>2 DEF Idle
      <3>2. call[c].pc = "parse"
        BY <1>4 DEF Reenter
      <3>3. QED
        BY <1>2, <2>2, <3>1, <3>2, ForgetAfforded
    <2>3. QED
      BY <1>4, <2>1, <2>2 DEF Reenter
  <1>5. CASE RefuseSaved(c) \/ Diagnosed(c)
    <2>1. Record(c, Answered) /\ (call[c].pc \in RunningPc \/ call[c].pc \in DiagnosingPc)
      BY <1>2, <1>5 DEF RefuseSaved, Diagnosed
    <2>2. QED
      BY <1>2, <2>1, RecordAfforded
  <1>6. CASE Acquire(c) \/ Grant(c)
    <2>1. call[c].pc \in RunningPc
      <3>1. CASE Acquire(c)
        BY <1>2, <3>1 DEF Acquire, Parsing
      <3>2. CASE Grant(c)
        <4>1. 1 \in DOMAIN waiters /\ waiters[1] = c
          BY <3>2, HeadRemoved DEF Grant, Afforded, Timed, IInv
        <4>2. call[c].pc = "wait"
          BY <4>1, LineFacts DEF Afforded, Timed
        <4>3. QED
          BY <1>2, <4>2
      <3>3. QED
        BY <1>6, <3>1, <3>2
    <2>2. /\ call'[c].pc \in {"wait", "execute"} /\ call'[c].session = call[c].session
          /\ spend' = spend /\ \A d \in Calls \ {c} : call'[d] = call[d]
      BY <1>1, <1>6 DEF Acquire, Grant, Call
    <2>3. QED
      BY <1>2, <2>1, <2>2, ForgetAfforded
  <1>7. CASE Execute(c)
    <2> DEFINE next == [Idle EXCEPT !.pc = "diagnose", !.session = call[c].session,
                                    !.left = ProbeBudget]
    <2>1. /\ next \in Call /\ next.pc = "diagnose" /\ next.session = call[c].session
      <3>1. call[c].session \in Sessions /\ ProbeBudget \in 0 .. ProbeBudget
        BY <1>1, PolicyAssumption DEF Call
      <3>2. QED
        BY <3>1, IdleFacts DEF Call, Pc
    <2>2. call[c].pc \in RunningPc /\ (Record(c, Answered) \/ Record(c, next))
      BY <1>2, <1>7 DEF Execute
    <2> HIDE DEF next
    <2>3. QED
      BY <1>2, <2>1, <2>2, RecordAfforded
  <1>8. CASE SendProbe(c) \/ ProbeReply(c)
    <2>1. /\ call[c].pc \in {"diagnose", "probe"} /\ call'[c].pc \in {"diagnose", "probe"}
          /\ call'[c].session = call[c].session
          /\ spend' = spend /\ \A d \in Calls \ {c} : call'[d] = call[d]
      BY <1>1, <1>8 DEF SendProbe, ProbeReply, Call
    <2>2. QED
      BY <1>2, <2>1, ForgetAfforded
  <1>9. QED
    BY <1>3, <1>4, <1>5, <1>6, <1>7, <1>8 DEF Progress

LEMMA CancelAfforded ==
    ASSUME Afforded, IInv', NEW c \in Calls, Cancel(c)
    PROVE  Reserved'
  <1>1. /\ call'[c].pc = "idle" /\ spend' = spend /\ \A d \in Calls \ {c} : call'[d] = call[d]
    BY IdleFacts DEF Cancel, Forget, Afforded, Timed, IInv, Typed
  <1>2. call[c].pc \in RunningPc \cup DiagnosingPc
    BY DEF Cancel, Afforded, Timed, IInv, Typed, Call, Pc, RunningPc, DiagnosingPc
  <1>3. QED
    BY <1>1, <1>2, ForgetAfforded

\* What leaves the window leaves more room.
LEMMA TickAfforded ==
    ASSUME Afforded, IInv', Tick
    PROVE  Reserved'
  <1> SUFFICES ASSUME NEW r \in Sessions
               PROVE  Room(Total(spend'[r]), Cardinality(Running(call', r)),
                           Cardinality(Diagnosing(call', r)))
    BY ReservedNext
  <1>1. \A c \in Calls : call'[c].pc = call[c].pc /\ call'[c].session = call[c].session
    BY DEF Tick, Older, Afforded, Timed, IInv, Typed, Call
  <1>2. Running(call', r) = Running(call, r) /\ Diagnosing(call', r) = Diagnosing(call, r)
    BY <1>1 DEF Running, Diagnosing, Owing
  <1>3. spend[r] \in [0 .. Window -> Nat] /\ spend'[r] = Pruned(r)
    BY DEF Tick, Afforded, Timed, IInv, Typed
  <1>4. Total(spend'[r]) <= Total(spend[r])
    BY <1>3, TotalPruned DEF Pruned
  <1>5. Room(Total(spend[r]), Cardinality(Running(call, r)), Cardinality(Diagnosing(call, r)))
    BY DEF Afforded, Reserved
  <1>6. /\ Cardinality(Running(call, r)) \in Nat /\ Cardinality(Diagnosing(call, r)) \in Nat
        /\ Total(spend[r]) \in Nat /\ Total(spend'[r]) \in Nat
    BY OwingFacts, SpendTyped DEF Running, Diagnosing, Afforded, Timed, IInv
  <1>7. QED
    BY <1>2, <1>4, <1>5, <1>6, RoomKept

LEMMA InitAfforded == Init => Afforded
  <1> SUFFICES ASSUME Init PROVE Afforded
    OBVIOUS
  <1>1. Timed
    BY InitTimed
  <1>2. ASSUME NEW s \in Sessions
        PROVE  Room(Total(spend[s]), Cardinality(Running(call, s)),
                    Cardinality(Diagnosing(call, s)))
    <2>1. spend[s] \in [0 .. Window -> Nat] /\ \A a \in 0 .. Window : spend[s][a] = 0
      BY DEF Init
    <2>2. Total(spend[s]) = 0
      BY <2>1, TotalNone
    <2>3. /\ Cardinality(Running(call, s)) \in Nat /\ Cardinality(Diagnosing(call, s)) \in Nat
          /\ Cardinality(Running(call, s)) + Cardinality(Diagnosing(call, s))
                <= Cardinality(Calls)
      BY OwingFacts, OwingAll DEF Running, Diagnosing
    <2>4. QED
      BY <2>2, <2>3, RoomAtStart, Rates
  <1>3. QED
    BY <1>1, <1>2 DEF Afforded, Reserved

LEMMA NextAfforded == Afforded /\ [Next]_vars => Afforded'
  <1> SUFFICES ASSUME Afforded, [Next]_vars PROVE Afforded'
    OBVIOUS
  <1>1. Timed' /\ IInv'
    BY NextTimed, NextIInv DEF Afforded, Timed
  <1>2. Reserved'
    <2>1. CASE Tick
      BY <1>1, <2>1, TickAfforded
    <2>2. ASSUME NEW c \in Calls, NEW s \in Sessions, NEW kind \in Kinds, Start(c, s, kind)
          PROVE  Reserved'
      BY <1>1, <2>2, StartAfforded
    <2>3. ASSUME NEW c \in Calls, Progress(c) PROVE Reserved'
      BY <1>1, <2>3, ProgressAfforded
    <2>4. ASSUME NEW c \in Calls, Cancel(c) PROVE Reserved'
      BY <1>1, <2>4, CancelAfforded
    <2>5. CASE UNCHANGED vars
      BY <2>5 DEF vars, Afforded, Reserved
    <2>6. QED
      BY <2>1, <2>2, <2>3, <2>4, <2>5 DEF Next
  <1>3. QED
    BY <1>1, <1>2 DEF Afforded

LEMMA RoomBounds == Afforded => BoundedOvershoot
  <1> SUFFICES ASSUME Afforded, NEW s \in Sessions
               PROVE  Spent(s) < Budget + Cardinality(Calls) * (MaxAge + MaxDiagnosis)
    BY DEF BoundedOvershoot
  <1> DEFINE b == Cardinality(Running(call, s))
             a == Cardinality(Diagnosing(call, s))
             k == MaxAge + MaxDiagnosis
             most == Budget + Cardinality(Calls) * k
  <1>1. Total(spend[s]) + b * k + a * MaxDiagnosis < most
    BY DEF Afforded, Reserved, Room
  <1>2. /\ b \in Nat /\ a \in Nat /\ k \in Nat /\ MaxDiagnosis \in Nat
        /\ Total(spend[s]) \in Nat
    BY OwingFacts, SpendTyped, Rates DEF Running, Diagnosing, Afforded, Timed, IInv
  <1>3. most \in Nat
    BY <1>2, Rates, Products
  <1> HIDE DEF a, b, k, most
  <1>4. b * k \in Nat /\ a * MaxDiagnosis \in Nat
    BY <1>2, Products
  <1>5. Total(spend[s]) < most
    BY <1>1, <1>2, <1>3, <1>4
  <1>6. QED
    BY <1>5 DEF Spent, most, k

(* The budget is asked before a call and charged after it: what a session  *)
(* has spent in the window is its budget and at most what the calls in     *)
(* progress can add, each its longest wait, Execute and diagnosis.         *)
THEOREM OvershootIsBounded == Spec => []BoundedOvershoot
  BY InitAfforded, NextAfforded, RoomBounds, PTL DEF Spec
=============================================================================
