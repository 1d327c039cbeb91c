---------------------------- MODULE GrainProofs ----------------------------
(***************************************************************************)
(* Machine-checked proofs about Grain, for any number of sources, any      *)
(* columns, keys and conditions: a join that multiplies is warned of, and  *)
(* what is warned of can multiply.                                         *)
(***************************************************************************)
EXTENDS Grain, WellFoundedInduction, TLAPS

-----------------------------------------------------------------------------
(* ---- Types ---- *)

LEMMA ConditionFacts ==
    ASSUME stmt \in Statement
    PROVE  /\ stmt.keys \in [Source -> SUBSET ((SUBSET Column) \ {{}})]
           /\ stmt.left \subseteq Source
           /\ stmt.on \in [Source -> SUBSET Conjunct]
           /\ \A n \in Source : \A c \in stmt.on[n] : Readable(c) /\ c \in Conditions
           /\ \A c \in stmt.where : Readable(c) /\ c \in Conditions
           /\ \A c \in Conditions : Readable(c)
  <1>1. /\ stmt.keys \in Keys /\ stmt.left \in Lefts
        /\ stmt.on \in Ons /\ stmt.where \in Wheres
    BY DEF Statement
  <1>2. /\ \A n \in Source : \A c \in stmt.on[n] : Readable(c)
        /\ \A c \in stmt.where : Readable(c)
    BY <1>1, GrainAssumption
  <1>3. QED
    BY <1>1, <1>2, GrainAssumption DEF Conditions

LEMMA TypeInit == Init => TypeOK
  BY DEF Init, TypeOK, Keyed

LEMMA TypeStep == TypeOK /\ [Next]_vars => TypeOK'
  <1> SUFFICES ASSUME TypeOK, [Next]_vars
               PROVE  TypeOK'
    OBVIOUS
  <1>1. ASSUME NEW q \in Ref, NEW r \in Ref, Learn(q, r)
        PROVE  TypeOK'
    BY <1>1 DEF TypeOK, Learn, Keyed
  <1>2. ASSUME NEW n \in Source, Determine(n)
        PROVE  TypeOK'
    BY <1>2 DEF TypeOK, Determine, Undetermined, Keyed
  <1>3. CASE Judge
    BY <1>3 DEF TypeOK, Judge, Undetermined, Keyed
  <1>4. CASE UNCHANGED vars
    BY <1>4 DEF TypeOK, vars, Keyed
  <1>5. QED
    BY <1>1, <1>2, <1>3, <1>4 DEF Next

(* Every state of the test is well typed.                                  *)
THEOREM TypeCorrect == Spec => []TypeOK
  BY TypeInit, TypeStep, PTL DEF Spec

-----------------------------------------------------------------------------
(* ---- What the test has established when it judges ---- *)

(* Constants are known and the fixed rows determined from the start; at    *)
(* the end nothing more can be inferred, and a source without a warning    *)
(* lacks at most Company in one of its keys.                               *)
Judged ==
    /\ \A r \in Ref : {r} \in Conditions => r \in known
    /\ fixed \subseteq determined
    /\ pc = "judged" =>
          /\ Closed
          /\ fans = Undetermined \ companyOnly
          /\ \A n \in Undetermined \ fans : \E g \in Gaps(n) : g \subseteq {Company}

LEMMA JudgedStep == TypeOK /\ Judged /\ [Next]_vars => Judged'
  <1> SUFFICES ASSUME TypeOK, Judged, [Next]_vars
               PROVE  Judged'
    OBVIOUS
  <1>1. ASSUME NEW q \in Ref, NEW r \in Ref, Learn(q, r)
        PROVE  Judged'
    BY <1>1 DEF Judged, Learn, Conditions
  <1>2. ASSUME NEW n \in Source, Determine(n)
        PROVE  Judged'
    BY <1>2 DEF Judged, Determine, Conditions
  <1>3. CASE Judge
    <2>1. UNCHANGED <<stmt, fixed, known, determined>>
      BY <1>3 DEF Judge
    <2>2. /\ Conditions' = Conditions /\ Undetermined' = Undetermined /\ Closed' = Closed
          /\ \A n : Gaps(n)' = Gaps(n)
      BY <2>1 DEF Conditions, Undetermined, Keyed, Closed, IsKnown, Bound, Gaps
    <2>3. ASSUME NEW n \in Undetermined \ fans'
          PROVE  \E g \in Gaps(n) : g \subseteq {Company}
      <3>1. n \in companyOnly'
        BY <1>3, <2>3 DEF Judge
      <3>2. QED
        BY <1>3, <2>3, <3>1 DEF Judge, Smallest
    <2>4. QED
      BY <1>3, <2>1, <2>2, <2>3 DEF Judge, Judged
  <1>4. CASE UNCHANGED vars
    <2>1. /\ Conditions' = Conditions /\ Undetermined' = Undetermined /\ Closed' = Closed
          /\ \A n : Gaps(n)' = Gaps(n)
      BY <1>4 DEF vars, Conditions, Undetermined, Keyed, Closed, IsKnown, Bound, Gaps
    <2>2. QED
      BY <1>4, <2>1 DEF Judged, vars
  <1>5. QED
    BY <1>1, <1>2, <1>3, <1>4 DEF Next

LEMMA JudgedInv == Spec => [](TypeOK /\ Judged)
  <1>1. Init => Judged
    BY DEF Init, Judged
  <1>2. QED
    BY <1>1, TypeInit, TypeStep, JudgedStep, PTL DEF Spec

-----------------------------------------------------------------------------
(* ---- A warning is about something that can happen ---- *)

(* Two rows that agree on what is known, and on Company, and on nothing    *)
(* else are two rows of a result.                                          *)
LEMMA WarningStep == TypeOK /\ Judged => WarningsPossible
  <1> SUFFICES ASSUME TypeOK, Judged, pc = "judged",
                      \A n \in Undetermined : {Company} \notin Gaps(n)
               PROVE  \E p \in Pair : Result(p) /\ \A n \in fans : p.same[n] # Column
    BY DEF WarningsPossible
  <1> DEFINE p == [same |-> [n \in Source |-> {x \in Column : x = Company \/ IsKnown(<<n, x>>)}],
                   gone |-> [i \in 1 .. 2 |-> {}]]
  <1>0. stmt \in Statement
    BY DEF TypeOK
  <1>1. Closed /\ fans \subseteq Undetermined
    BY DEF Judged
  <1>2. p \in Pair
    BY GrainAssumption DEF Pair
  <1>3. \A n \in Source : \A x \in Column : x \in p.same[n] <=> x = Company \/ IsKnown(<<n, x>>)
    OBVIOUS
  <1>4. \A n : InBoth(p, n) /\ ~InNone(p, n)
    BY DEF InBoth, InNone
  <1>5. \A i \in 1 .. 2 : p.gone[i] = {}
    OBVIOUS
  <1> HIDE DEF p
  <1>6. ASSUME NEW c \in Conditions
        PROVE  Holds(p, c)
    <2>1. Readable(c) /\ c \subseteq Ref
      BY <1>0, ConditionFacts DEF Readable, Conjunct
    <2>2. \A r \in c : r[1] \in Source /\ r[2] \in Column /\ r = <<r[1], r[2]>>
      BY <2>1 DEF Ref
    <2>3. ASSUME NEW q \in c, NEW r \in c, Agree(p, q)
          PROVE  Agree(p, r)
      <3>1. CASE q = r
        BY <3>1, <2>3
      <3>2. CASE q # r
        <4>1. c = {q, r}
          BY <2>1, <3>2 DEF Readable, Conjunct
        <4>2. IsKnown(q) => IsKnown(r)
          BY <4>1, <1>1, <1>6, <2>1 DEF Closed
        <4>3. q[2] = Company <=> r[2] = Company
          BY <2>1, <3>2 DEF Readable
        <4>4. q[2] = Company \/ IsKnown(q)
          BY <2>3, <2>2, <1>3 DEF Agree
        <4>5. QED
          BY <4>2, <4>3, <4>4, <2>2, <1>3 DEF Agree
      <3>3. QED
        BY <3>1, <3>2
    <2>4. ASSUME NEW r \in c, c = {r}
          PROVE  Agree(p, r)
      <3>1. IsKnown(r)
        BY <2>4, <2>1, <1>6 DEF Judged, IsKnown
      <3>2. QED
        BY <3>1, <2>2, <1>3 DEF Agree
    <2>5. QED
      BY <2>3, <2>4, <1>4 DEF Holds
  <1>7. ASSUME NEW n \in Undetermined, NEW k \in stmt.keys[n]
        PROVE  ~(k \subseteq p.same[n])
    <2>1. n \in Source /\ n \notin determined /\ k \subseteq Column
      BY <1>0, <1>7, ConditionFacts DEF Undetermined, Keyed
    <2>2. PICK x \in k : ~IsKnown(<<n, x>>)
      BY <1>1, <1>7 DEF Closed, Bound
    <2>3. {c \in k : <<n, c>> \notin known} \in Gaps(n)
      BY <1>7 DEF Gaps
    <2>4. {c \in k : <<n, c>> \notin known} # {Company}
      BY <2>3, <1>7
    <2>5. <<n, x>> \notin known
      BY <2>2 DEF IsKnown
    <2>6. PICK y \in k : <<n, y>> \notin known /\ y # Company
      BY <2>4, <2>5
    <2>7. ~IsKnown(<<n, y>>)
      BY <2>6, <2>1 DEF IsKnown
    <2>8. QED
      BY <2>1, <2>6, <2>7, <1>3
  <1>8. ASSUME NEW n \in Source, n \in determined
        PROVE  p.same[n] = Column
    <2>1. p.same[n] \subseteq Column
      BY <1>2 DEF Pair
    <2>2. QED
      BY <2>1, <1>3, <1>8 DEF IsKnown
  <1>9. ASSUME NEW n \in Source
        PROVE  Joined(p, n)
    <2>1. Company \in p.same[n]
      BY <1>3, GrainAssumption
    <2>2. ASSUME NEW k \in stmt.keys[n], k \subseteq p.same[n]
          PROVE  p.same[n] = Column
      <3>1. n \in Keyed
        BY <2>2 DEF Keyed
      <3>2. n \in determined
        BY <3>1, <2>2, <1>7 DEF Undetermined
      <3>3. QED
        BY <3>2, <1>8
    <2>3. \A c \in stmt.on[n] : Holds(p, c)
      BY <1>0, <1>6, ConditionFacts
    <2>4. QED
      BY <2>1, <2>2, <2>3, <1>4, <1>5 DEF Joined
  <1>10. \A c \in stmt.where : Holds(p, c)
    BY <1>6 DEF Conditions
  <1>11. \A n \in fixed : InBoth(p, n) /\ p.same[n] = Column
    BY <1>4, <1>8 DEF TypeOK, Judged, Keyed
  <1>12. Result(p)
    BY <1>9, <1>10, <1>11 DEF Result
  <1>13. ASSUME NEW n \in fans
         PROVE  p.same[n] # Column
    <2>1. n \in Undetermined
      BY <1>1
    <2>2. PICK k \in stmt.keys[n] : TRUE
      BY <2>1 DEF Undetermined, Keyed
    <2>3. k \subseteq Column
      BY <2>1, <1>0, ConditionFacts DEF Undetermined, Keyed
    <2>4. QED
      BY <2>1, <2>3, <1>7
  <1>14. QED
    BY <1>2, <1>12, <1>13

(* Whenever no source lacks Company alone, each warning is about something *)
(* that a result can hold, LEFT JOINs of any form included.                *)
THEOREM WarningsArePossible == Spec => []WarningsPossible
  BY JudgedInv, WarningStep, PTL

-----------------------------------------------------------------------------
(* ---- No warning means no repetition ---- *)

(* A source that some row of the pair has no row of.                       *)
Loose(p, n) == ~InBoth(p, n)

(* What the test infers is right of the sources that both rows have.  Of a *)
(* LEFT JOINed source that is missing it infers a column only from the one *)
(* that its ON equates it with, so nothing flows back through the ON.      *)
Sound(p) ==
    /\ \A r \in Ref : IsKnown(r) /\ InBoth(p, r[1]) => Agree(p, r)
    /\ \A n \in Source : Loose(p, n) =>
          \A q, r \in Ref : {q, r} \in stmt.on[n] /\ q[1] = n /\ r[1] # n =>
              (IsKnown(q) => IsKnown(r))

Soundness == Plain => \A p \in Pair : Result(p) => Sound(p)

(* A condition about a source that is missing from a row of the result is  *)
(* in its own ON, or in that of a source that is missing as well, where it *)
(* compares a column with one of an earlier source.                        *)
LEMMA LooseConditions ==
    ASSUME stmt \in Statement, Plain,
           NEW p \in Pair, Result(p),
           NEW c \in Conditions, NEW r \in c, Loose(p, r[1])
    PROVE  \E n \in stmt.left : c \in stmt.on[n] /\ Loose(p, n)
  <1>1. \A d : Holds(p, d) /\ r \in d => InBoth(p, r[1])
    BY DEF Holds
  <1>2. c \notin stmt.where
    BY <1>1 DEF Result, Loose
  <1>3. PICK n \in Source : c \in stmt.on[n]
    BY <1>2 DEF Conditions
  <1>4. Loose(p, n)
    BY <1>1, <1>3 DEF Result, Joined, Loose
  <1>5. n \in stmt.left
    BY <1>4 DEF Loose, InBoth, Pair
  <1>6. QED
    BY <1>3, <1>4, <1>5

(* What a plain LEFT JOIN says of one of its conditions: x is its only     *)
(* column of the joined source, and the only use of that column.           *)
OwnColumn(n, c, x) ==
    /\ <<n, x>> \in c
    /\ \A r \in c : r[1] = n => r = <<n, x>>
    /\ \A d \in stmt.on[n] : <<n, x>> \in d => d = c
    /\ (\E r \in c : r[1] # n) => \A k \in stmt.keys[n] : x \in k
    /\ \A r \in c : r[1] # n => r[1] \in 1 .. n - 1

LEMMA PlainConditions ==
    ASSUME stmt \in Statement, Plain,
           NEW n \in stmt.left, NEW c \in stmt.on[n]
    PROVE  \E x \in Column : OwnColumn(n, c, x)
  <1>0. n \in Source /\ n \in Int
    BY ConditionFacts, GrainAssumption DEF Source
  <1>1. PICK x \in Column :
            /\ \A d \in stmt.on[n] : <<n, x>> \in d => d = c
            /\ \/ c = {<<n, x>>}
               \/ /\ \A k \in stmt.keys[n] : x \in k
                  /\ \E m \in 1 .. n - 1, y \in Column : c = {<<n, x>>, <<m, y>>}
    BY DEF Plain
  <1>2. CASE c = {<<n, x>>}
    BY <1>1, <1>2 DEF OwnColumn
  <1>3. ASSUME \A k \in stmt.keys[n] : x \in k,
               NEW m \in 1 .. n - 1, NEW y \in Column, c = {<<n, x>>, <<m, y>>}
        PROVE  /\ \A r \in c : r[1] = n => r = <<n, x>>
               /\ \A r \in c : r[1] # n => r[1] \in 1 .. n - 1
    <2>1. m # n
      BY <1>0
    <2>2. QED
      BY <2>1, <1>3
  <1>4. QED
    BY <1>1, <1>2, <1>3 DEF OwnColumn

LEMMA SoundInit == Init => Soundness
  <1> SUFFICES ASSUME Init, Plain, NEW p \in Pair, Result(p)
               PROVE  Sound(p)
    BY DEF Soundness
  <1>0. stmt \in Statement /\ fixed \subseteq Source
    BY DEF Init, Keyed
  <1>1. ASSUME NEW r \in Ref, IsKnown(r), InBoth(p, r[1])
        PROVE  Agree(p, r)
    <2>1. r[1] \in Source /\ r[2] \in Column
      BY DEF Ref
    <2>2. CASE r[1] \in fixed
      BY <2>1, <2>2 DEF Result, Agree
    <2>3. CASE {r} \in Conditions
      <3>1. Holds(p, {r}) => Agree(p, r)
        BY DEF Holds
      <3>2. CASE {r} \in stmt.where
        BY <3>1, <3>2 DEF Result
      <3>3. ASSUME NEW n \in Source, {r} \in stmt.on[n]
            PROVE  Agree(p, r)
        <4>1. CASE InBoth(p, n)
          BY <3>1, <3>3, <4>1 DEF Result, Joined
        <4>2. CASE ~InBoth(p, n)
          <5>1. n \in stmt.left
            BY <4>2 DEF InBoth, Pair
          <5>2. r[1] = n
            <6>1. PICK x \in Column : OwnColumn(n, {r}, x)
              BY <5>1, <1>0, <3>3, PlainConditions
            <6>2. QED
              BY <6>1 DEF OwnColumn
          <5>3. QED
            BY <5>2, <4>2, <1>1
        <4>3. QED
          BY <4>1, <4>2
      <3>4. QED
        BY <2>3, <3>2, <3>3 DEF Conditions
    <2>4. QED
      BY <1>1, <2>2, <2>3 DEF Init, IsKnown
  <1>2. ASSUME NEW n \in Source, Loose(p, n),
               NEW a \in Ref, NEW b \in Ref, {a, b} \in stmt.on[n],
               a[1] = n, b[1] # n, IsKnown(a)
        PROVE  FALSE
    <2>1. n \notin fixed
      BY <1>2 DEF Result, Loose
    <2>2. {a} \in Conditions
      BY <2>1, <1>2 DEF Init, IsKnown
    <2>3. PICK l \in stmt.left : {a} \in stmt.on[l] /\ Loose(p, l)
      BY <2>2, <1>0, <1>2, LooseConditions
    <2>4. PICK x \in Column : OwnColumn(l, {a}, x)
      BY <2>3, <1>0, PlainConditions
    <2>5. a = <<l, x>> /\ l = n
      BY <2>4, <1>2 DEF OwnColumn
    <2>6. {a, b} = {a}
      BY <2>4, <2>5, <1>2 DEF OwnColumn
    <2>7. QED
      BY <2>6, <1>2
  <1>3. QED
    BY <1>1, <1>2 DEF Sound

LEMMA SoundLearn ==
    ASSUME TypeOK, Soundness, NEW q \in Ref, NEW r \in Ref, Learn(q, r)
    PROVE  Soundness'
  <1>0. stmt \in Statement /\ {q, r} \in Conditions /\ UNCHANGED <<stmt, fixed, determined>>
    BY DEF TypeOK, Learn
  <1>1. q[1] # r[1]
    <2>1. q # r
      BY DEF Learn
    <2>2. QED
      BY <2>1, <1>0, ConditionFacts DEF Readable
  <1>2. \A s : IsKnown(s)' <=> IsKnown(s) \/ s = r
    BY DEF Learn, IsKnown
  <1>3. Plain' = Plain /\ Pair' = Pair /\ \A p : Result(p)' = Result(p)
    BY <1>0 DEF Plain, Pair, Result, Joined, Holds, Agree, InBoth, InNone
  <1> SUFFICES ASSUME Plain, NEW p \in Pair, Result(p)
               PROVE  Sound(p)'
    BY <1>3 DEF Soundness
  <1>4. Sound(p)
    BY DEF Soundness
  <1>5. ASSUME NEW n \in stmt.left, {q, r} \in stmt.on[n], Loose(p, n), q[1] = n
        PROVE  FALSE
    <2>1. n \in Source
      BY <1>0, ConditionFacts
    <2>2. IsKnown(r)
      BY <1>4, <1>5, <1>1, <2>1 DEF Sound, Learn
    <2>3. QED
      BY <2>2 DEF Learn
  <1>6. ASSUME InBoth(p, r[1])
        PROVE  Agree(p, r)
    <2>1. ASSUME NEW n \in stmt.left, {q, r} \in stmt.on[n], Loose(p, n)
          PROVE  FALSE
      <3>1. PICK x \in Column : OwnColumn(n, {q, r}, x)
        BY <1>0, <2>1, PlainConditions
      <3>2. q[1] = n \/ r[1] = n
        BY <3>1 DEF OwnColumn
      <3>3. QED
        BY <3>2, <2>1, <1>5, <1>6 DEF Loose
    <2>2. InBoth(p, q[1])
      BY <2>1, <1>0, LooseConditions DEF Loose
    <2>3. Agree(p, q)
      BY <2>2, <1>4 DEF Sound, Learn
    <2>4. Holds(p, {q, r})
      <3>1. CASE {q, r} \in stmt.where
        BY <3>1 DEF Result
      <3>2. ASSUME NEW n \in Source, {q, r} \in stmt.on[n]
            PROVE  Holds(p, {q, r})
        <4>1. InBoth(p, n)
          BY <2>1, <3>2 DEF Loose, InBoth, Pair
        <4>2. QED
          BY <4>1, <3>2 DEF Result, Joined
      <3>3. QED
        BY <3>1, <3>2, <1>0 DEF Conditions
    <2>5. QED
      BY <2>3, <2>4 DEF Holds
  <1>7. ASSUME NEW n \in Source, Loose(p, n),
               NEW a \in Ref, NEW b \in Ref, {a, b} \in stmt.on[n],
               a[1] = n, b[1] # n, IsKnown(a) \/ a = r
        PROVE  IsKnown(b)
    <2>1. CASE IsKnown(a)
      BY <2>1, <1>4, <1>7 DEF Sound
    <2>2. CASE a = r
      <3>1. PICK l \in stmt.left : {q, r} \in stmt.on[l] /\ Loose(p, l)
        BY <2>2, <1>0, <1>7, LooseConditions
      <3>2. PICK x \in Column : OwnColumn(l, {q, r}, x)
        BY <3>1, <1>0, PlainConditions
      <3>3. q[1] # l
        BY <3>1, <1>5
      <3>4. r = <<l, x>> /\ l = n
        BY <3>2, <3>3, <2>2, <1>7 DEF OwnColumn
      <3>5. {a, b} = {q, r}
        BY <3>2, <3>4, <2>2, <1>7 DEF OwnColumn
      <3>6. b = q
        BY <3>5, <2>2, <1>7
      <3>7. QED
        BY <3>6 DEF Learn
    <2>3. QED
      BY <2>1, <2>2, <1>7
  <1>8. \A s \in Ref : IsKnown(s)' /\ InBoth(p, s[1]) => Agree(p, s)
    BY <1>2, <1>4, <1>6 DEF Sound
  <1>9. QED
    BY <1>0, <1>2, <1>7, <1>8 DEF Sound, Loose, InBoth, Agree

LEMMA SoundDetermine ==
    ASSUME TypeOK, Soundness, NEW m \in Source, Determine(m)
    PROVE  Soundness'
  <1>0. stmt \in Statement /\ UNCHANGED <<stmt, fixed, known>>
    BY DEF TypeOK, Determine
  <1>2. \A s : IsKnown(s)' <=> IsKnown(s) \/ s[1] = m
    BY DEF Determine, IsKnown
  <1>3. Plain' = Plain /\ Pair' = Pair /\ \A p : Result(p)' = Result(p)
    BY <1>0 DEF Plain, Pair, Result, Joined, Holds, Agree, InBoth, InNone
  <1> SUFFICES ASSUME Plain, NEW p \in Pair, Result(p)
               PROVE  Sound(p)'
    BY <1>3 DEF Soundness
  <1>4. Sound(p)
    BY DEF Soundness
  <1>5. PICK k \in stmt.keys[m] : Bound(m, k)
    BY DEF Determine
  <1>6. k \subseteq Column
    BY <1>0, <1>5, ConditionFacts
  <1>7. ASSUME NEW s \in Ref, s[1] = m, InBoth(p, m)
        PROVE  Agree(p, s)
    <2>1. ASSUME NEW x \in k
          PROVE  x \in p.same[m]
      <3>1. IsKnown(<<m, x>>) /\ <<m, x>> \in Ref
        BY <1>5, <1>6 DEF Bound, Ref
      <3>2. QED
        BY <3>1, <1>4, <1>7 DEF Sound, Agree
    <2>2. p.same[m] = Column
      BY <2>1, <1>5, <1>7 DEF Result, Joined
    <2>3. QED
      BY <2>2, <1>7 DEF Agree, Ref
  <1>8. ASSUME NEW n \in Source, Loose(p, n),
               NEW a \in Ref, NEW b \in Ref, {a, b} \in stmt.on[n],
               a[1] = n, b[1] # n, IsKnown(a) \/ a[1] = m
        PROVE  IsKnown(b)
    <2>1. CASE IsKnown(a)
      BY <2>1, <1>4, <1>8 DEF Sound
    <2>2. CASE a[1] = m
      <3>1. n \in stmt.left
        BY <1>8 DEF Loose, InBoth, Pair
      <3>2. PICK x \in Column : OwnColumn(n, {a, b}, x)
        BY <3>1, <1>0, <1>8, PlainConditions
      <3>3. a = <<n, x>> /\ x \in k
        BY <3>2, <2>2, <1>5, <1>8 DEF OwnColumn
      <3>4. IsKnown(a)
        BY <3>3, <2>2, <1>5, <1>8 DEF Bound
      <3>5. QED
        BY <3>4, <2>1
    <2>3. QED
      BY <2>1, <2>2, <1>8
  <1>9. \A s \in Ref : IsKnown(s)' /\ InBoth(p, s[1]) => Agree(p, s)
    BY <1>2, <1>4, <1>7 DEF Sound
  <1>10. QED
    BY <1>0, <1>2, <1>8, <1>9 DEF Sound, Loose, InBoth, Agree

LEMMA SoundStep == TypeOK /\ Soundness /\ [Next]_vars => Soundness'
  <1> SUFFICES ASSUME TypeOK, Soundness, [Next]_vars
               PROVE  Soundness'
    OBVIOUS
  <1>1. ASSUME UNCHANGED <<stmt, fixed, known, determined>>
        PROVE  Soundness'
    <2>1. Plain' = Plain /\ Pair' = Pair /\ \A p : Result(p)' = Result(p)
      BY <1>1 DEF Plain, Pair, Result, Joined, Holds, Agree, InBoth, InNone
    <2>2. \A r : IsKnown(r)' = IsKnown(r)
      BY <1>1 DEF IsKnown
    <2>3. \A p : Sound(p)' = Sound(p)
      BY <1>1, <2>2 DEF Sound, Loose, InBoth, Agree
    <2>4. QED
      BY <2>1, <2>3 DEF Soundness
  <1>2. CASE Judge
    BY <1>1, <1>2 DEF Judge
  <1>3. CASE UNCHANGED vars
    BY <1>1, <1>3 DEF vars
  <1>4. QED
    BY <1>2, <1>3, SoundLearn, SoundDetermine DEF Next

(* The sources that just one of the two rows has: the first of them would  *)
(* have to be joined on something that differs, and nothing before it      *)
(* does.                                                                   *)
LEMMA NoFanout == TypeOK /\ Judged /\ Soundness => NoMissedFanout
  <1> SUFFICES ASSUME TypeOK, Judged, Soundness,
                      pc = "judged", fans = {}, Keyed = Source, Plain,
                      NEW p \in Pair, Result(p)
               PROVE  \A n \in Source : p.same[n] = Column
    BY DEF NoMissedFanout
  <1>0. stmt \in Statement
    BY DEF TypeOK
  <1>1. Sound(p)
    BY DEF Soundness
  <1>2. ASSUME NEW n \in Source, InBoth(p, n)
        PROVE  p.same[n] = Column
    <2>1. p.same[n] \subseteq Column
      BY DEF Pair
    <2>2. CASE n \in determined
      <3>1. \A x \in Column : <<n, x>> \in Ref /\ IsKnown(<<n, x>>)
        BY <2>2 DEF IsKnown, Ref
      <3>2. QED
        BY <3>1, <2>1, <1>1, <1>2 DEF Sound, Agree
    <2>3. CASE n \notin determined
      <3>1. n \in Undetermined
        BY <2>3 DEF Undetermined
      <3>2. PICK k \in stmt.keys[n] : {x \in k : <<n, x>> \notin known} \subseteq {Company}
        BY <3>1 DEF Judged, Gaps
      <3>3. k \subseteq Column
        BY <1>0, <3>2, ConditionFacts
      <3>4. ASSUME NEW x \in k
            PROVE  x \in p.same[n]
        <4>1. CASE x = Company
          BY <4>1, <1>2 DEF Result, Joined
        <4>2. CASE x # Company
          <5>1. <<n, x>> \in Ref /\ IsKnown(<<n, x>>)
            BY <4>2, <3>2, <3>3 DEF IsKnown, Ref
          <5>2. QED
            BY <5>1, <1>1, <1>2 DEF Sound, Agree
        <4>3. QED
          BY <4>1, <4>2
      <3>5. QED
        BY <3>4, <1>2 DEF Result, Joined
    <2>4. QED
      BY <2>2, <2>3
  <1>3. \A n \in Source : InNone(p, n) => p.same[n] = Column
    BY DEF Result, Joined
  <1> DEFINE Half == {n \in Source : ~InBoth(p, n) /\ ~InNone(p, n)}
  <1>4. ASSUME Half # {}
        PROVE  FALSE
    <2>1. Half \subseteq Nat
      BY GrainAssumption DEF Source
    <2>2. PICK n \in Half : \A i \in Half : ~(<<i, n>> \in OpToRel(<, Nat))
      BY <2>1, <1>4, NatLessThanWellFounded, WFMin
    <2>3. n \in stmt.left /\ n \in Source /\ n \in Nat
      BY <2>1 DEF InBoth, Pair
    <2>4. PICK c \in stmt.on[n] : \E r \in c : r[1] # n /\ ~Agree(p, r)
      BY DEF Result, Joined
    <2>5. PICK r \in c : r[1] # n /\ ~Agree(p, r)
      BY <2>4
    <2>6. PICK x \in Column : OwnColumn(n, c, x)
      BY <2>3, <2>4, <1>0, PlainConditions
    <2>7. Readable(c)
      BY <2>3, <2>4, <1>0, ConditionFacts
    <2>8. r[1] \in 1 .. n - 1 /\ r \in Ref
      BY <2>5, <2>6, <2>7 DEF OwnColumn, Readable, Conjunct
    <2>9. r[1] \in Source /\ r[1] \notin Half
      <3>1. r[1] \in Source /\ r[1] < n /\ r[1] \in Nat
        BY <2>3, <2>8 DEF Ref
      <3>2. <<r[1], n>> \in OpToRel(<, Nat)
        BY <3>1, <2>3 DEF OpToRel
      <3>3. QED
        BY <3>1, <3>2, <2>2
    <2>10. p.same[r[1]] = Column
      BY <2>9, <1>2, <1>3
    <2>11. QED
      BY <2>5, <2>8, <2>10 DEF Agree, Ref
  <1>5. QED
    BY <1>2, <1>3, <1>4

(* A join that multiplies the fixed rows is warned of, in a single-company *)
(* install, where all keys are known and LEFT JOINs are plain.             *)
THEOREM FanoutsAreFound == Spec => []NoMissedFanout
  BY JudgedInv, SoundInit, TypeInit, TypeStep, SoundStep, NoFanout, PTL DEF Spec
=============================================================================
