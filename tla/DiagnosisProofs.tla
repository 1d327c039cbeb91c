-------------------------- MODULE DiagnosisProofs --------------------------
(***************************************************************************)
(* Machine-checked proofs about Diagnosis, for any number of predicates,   *)
(* any probe budgets, cache life-time and others' writes and diagnoses.    *)
(* What carries them: a verdict "matches" stays true, since others only add*)
(* rows; what matched nothing of its own table was added after its count,  *)
(* if it is there now; and what a kept listing of a master lacks was added *)
(* since it was made.                                                      *)
(***************************************************************************)
EXTENDS Diagnosis, WellFoundedInduction, TLAPS

Verdict == {"untested", "matches", "matches_nothing", "skipped", "found"}
Says == {"nothing", "killing_predicate", "killing_having", "genuinely_empty", "undetermined"}

Typed ==
    /\ kind \in [Pred -> Kinds]
    /\ world \in [Pred -> World]
    /\ writes \in 0 .. Changes
    /\ cache \in [Pred -> [Key -> Entry]]
    /\ stmt \in Statement \cup {NoStmt}
    /\ pc \in {"idle", "test", "sibling", "list", "enumerate", "having"}
    /\ verdict \in [Pred -> Verdict]
    /\ domain \in [Pred -> Listing]
    /\ told \in [says : Says, likely : SUBSET Pred]

\* Never more probes than the budget; and what it waits for is there.
Budgeted ==
    /\ probes \in 0 .. stmt.budget
    /\ pc = "enumerate" => probes < stmt.budget

\* What a diagnosis is about while it goes on.
Ordered ==
    /\ pc # "idle" => told = Quiet
    /\ pc \in {"sibling", "list", "enumerate"} => Dead # {}
    /\ pc = "having" => Dead = {}

Truthful ==
    /\ \A p \in Pred : verdict[p] = "matches" => world[p].matches
    /\ told.says = "genuinely_empty" =>
           /\ \A p \in stmt.of : verdict[p] \in {"matches", "skipped"}
           /\ \E p \in stmt.of : verdict[p] = "matches"

\* What was counted, and matched nothing.
Counted0(p) == verdict[p] \in {"matches_nothing", "found"}

\* A column's own values are those of its rows: one that is there, though its
\* predicate matched nothing, was added during the diagnosis.
Absent ==
    /\ \A p \in Pred : kind[p].of = "own" =>
           /\ world[p].matches = world[p].listed
           /\ Counted0(p) /\ world[p].listed => world[p].since = 0
    /\ pc = "idle" /\ told = Quiet => \A p \in Pred : ~Counted0(p)
    /\ told.likely \subseteq Said("found")

\* A listing that is whole and lacks a value that is there now.
Misses(p, l) == l.whole /\ ~l.holds /\ world[p].listed

\* Entries expire after ages that are counted.
Recent(age) == DomainTTL = 0 \/ age <= DomainTTL

\* What a kept listing that was whole lacks was added since.
Sound(p, entry) ==
    /\ entry.listing.whole => entry.age >= 0
    /\ Misses(p, entry.listing) => world[p].since <= entry.age

Dated ==
    /\ \A p \in Pred, key \in Key : Sound(p, cache[p][key])
    /\ \A p \in Pred : Misses(p, domain[p]) => Recent(world[p].since)
    /\ pc = "idle" /\ told = Quiet => domain = [p \in Pred |-> NoListing]
    /\ \A p \in told.likely : kind[p].test \in {"eq", "number"} => ~domain[p].holds

IInv == Typed /\ Budgeted /\ Ordered /\ Truthful /\ Absent /\ Dated

-----------------------------------------------------------------------------
\* A statement is over predicates and has a budget.
LEMMA StatementFacts ==
    ASSUME Typed
    PROVE  stmt.of \subseteq Pred /\ stmt.budget \in Nat
  <1>1. ASSUME stmt \in Statement PROVE stmt.of \subseteq Pred /\ stmt.budget \in Nat
    <2>1. stmt.of \in {1 .. n : n \in Pred} /\ stmt.budget \in Budgets
      BY <1>1 DEF Statement
    <2>2. PICK n \in Pred : stmt.of = 1 .. n
      BY <2>1
    <2>3. 1 .. n \subseteq Pred
      BY DiagnosisAssumption DEF Pred
    <2>4. QED
      BY <2>1, <2>2, <2>3, DiagnosisAssumption
  <1>2. ASSUME stmt = NoStmt PROVE stmt.of \subseteq Pred /\ stmt.budget \in Nat
    BY <1>2 DEF NoStmt
  <1>3. QED
    BY <1>1, <1>2 DEF Typed

\* The predicate that is explained next is one of the statement's.
LEMMA FirstDead ==
    ASSUME IInv, pc \in {"sibling", "list", "enumerate"}
    PROVE  First(Dead) \in Dead /\ First(Dead) \in Pred
  <1>1. Dead # {} /\ Dead \subseteq Pred
    BY StatementFacts DEF IInv, Ordered, Dead, Said
  <1>2. Dead \subseteq Nat
    BY <1>1, DiagnosisAssumption DEF Pred
  <1>3. PICK p \in Dead : \A q \in Dead : ~(<<q, p>> \in OpToRel(<, Nat))
    BY <1>1, <1>2, NatLessThanWellFounded, WFMin
  <1>4. ASSUME NEW q \in Dead PROVE p <= q
    <2>1. p \in Nat /\ q \in Nat
      BY <1>2
    <2>2. ~(q < p)
      BY <1>3, <2>1 DEF OpToRel
    <2>3. QED
      BY <2>1, <2>2
  <1>5. First(Dead) \in Dead
    BY <1>4 DEF First
  <1>6. QED
    BY <1>1, <1>5

LEMMA Listings ==
    /\ NoListing \in Listing /\ NoListing.holds /\ ~NoListing.whole
    /\ NotCached \in Entry /\ NotCached.listing = NoListing
    /\ Forgotten \in [Pred -> [Key -> Entry]]
    /\ \A p \in Pred, key \in Key : Forgotten[p][key] = NotCached
  <1>1. NoListing \in Listing /\ NoListing.holds /\ ~NoListing.whole
    BY DEF NoListing, Listing
  <1>2. NotCached \in Entry /\ NotCached.listing = NoListing
    BY <1>1, DiagnosisAssumption DEF NotCached, Entry
  <1>3. QED
    BY <1>1, <1>2 DEF Forgotten

LEMMA QuietFacts ==
    Quiet \in [says : Says, likely : SUBSET Pred] /\ Quiet.says = "nothing" /\ Quiet.likely = {}
  BY DEF Quiet, Says

LEMMA OlderFacts ==
    /\ \A n \in 0 .. DomainTTL + 1 : Older(n) \in 0 .. DomainTTL + 1
    /\ \A n \in -1 .. DomainTTL + 1 : Older(n) \in -1 .. DomainTTL + 1
    /\ \A m \in 0 .. DomainTTL + 1, n \in -1 .. DomainTTL + 1 :
           m <= n => Older(m) <= Older(n)
  BY DiagnosisAssumption DEF Older

LEMMA InitIInv == Init => IInv
  <1> SUFFICES ASSUME Init PROVE IInv
    OBVIOUS
  <1>1. Typed
    BY Listings, QuietFacts, DiagnosisAssumption DEF Init, Typed, Verdict
  <1>2. Budgeted
    BY DEF Init, Budgeted, NoStmt
  <1>3. Ordered /\ Truthful
    BY QuietFacts DEF Init, Ordered, Truthful
  <1>4. Absent
    BY QuietFacts DEF Init, Absent, Counted0, Possible
  <1>5. Dated
    BY Listings, QuietFacts DEF Init, Dated, Misses, Sound
  <1>6. QED
    BY <1>1, <1>2, <1>3, <1>4, <1>5 DEF IInv

-----------------------------------------------------------------------------
LEMMA DiagnoseStep ==
    ASSUME IInv, NEW s \in Statement, Diagnose(s)
    PROVE  IInv'
  <1>1. Typed'
    BY QuietFacts, Listings DEF IInv, Typed, Diagnose, Verdict
  <1>2. stmt'.budget \in Nat
    BY <1>1, DiagnosisAssumption DEF Diagnose, Statement
  <1>3. Budgeted'
    BY <1>2 DEF Diagnose, Budgeted
  <1>4. Ordered'
    BY DEF Diagnose, Ordered
  <1>5. Truthful'
    <2>1. told' = Quiet /\ \A p \in Pred : verdict'[p] # "matches"
      BY DEF Diagnose
    <2>2. QED
      BY <2>1, QuietFacts DEF Truthful
  <1>6. Dated'
    <2>1. /\ told' = Quiet /\ domain' = [p \in Pred |-> NoListing]
          /\ UNCHANGED <<kind, world, cache>>
      BY DEF Diagnose
    <2>2. QED
      BY <2>1, QuietFacts, Listings DEF IInv, Dated, Misses, Sound
  <1>7. Absent'
    <2>1. /\ told' = Quiet /\ UNCHANGED <<kind, world>>
          /\ \A p \in Pred : verdict'[p] \in {"skipped", "untested"}
      BY DEF Diagnose
    <2>2. QED
      BY <2>1, QuietFacts DEF IInv, Absent, Counted0
  <1>8. QED
    BY <1>1, <1>3, <1>4, <1>5, <1>6, <1>7 DEF IInv

LEMMA CountStep ==
    ASSUME IInv, NEW ok \in BOOLEAN, Count(ok)
    PROVE  IInv'
  <1> DEFINE p == First(ToTest)
  <1>1. /\ pc = "test" /\ ToTest # {} /\ probes' = probes + 1
        /\ verdict' = [verdict EXCEPT ![p] = IF ~ok THEN "skipped"
                                             ELSE IF world[p].matches THEN "matches"
                                             ELSE "matches_nothing"]
        /\ UNCHANGED <<kind, world, writes, cache, stmt, pc, domain, told>>
    BY DEF Count
  <1> HIDE DEF p
  <1>2. Typed'
    BY <1>1 DEF IInv, Typed, Verdict
  <1>3. Budgeted'
    <2>1. probes + 1 < stmt.budget
      BY <1>1 DEF ToTest
    <2>2. QED
      BY <1>1, <2>1, StatementFacts DEF IInv, Budgeted
  <1>4. Ordered'
    BY <1>1 DEF IInv, Ordered
  <1>5. Truthful'
    <2>1. told' = Quiet
      BY <1>1 DEF IInv, Ordered
    <2>2. \A q \in Pred : verdict'[q] = "matches" => world'[q].matches
      BY <1>1 DEF IInv, Typed, Truthful
    <2>3. QED
      BY <2>1, <2>2, QuietFacts DEF Truthful
  <1>6. Dated'
    BY <1>1 DEF IInv, Dated, Misses, Sound
  <1>7. Absent'
    <2>1. told' = Quiet /\ pc' # "idle"
      BY <1>1 DEF IInv, Ordered
    <2>2. ASSUME NEW q \in Pred, kind[q].of = "own"
          PROVE  /\ world[q].matches = world[q].listed
                 /\ Counted0(q)' /\ world[q].listed => world[q].since = 0
      <3>1. /\ world[q].matches = world[q].listed
            /\ Counted0(q) /\ world[q].listed => world[q].since = 0
        BY <2>2 DEF IInv, Absent
      <3>2. CASE q = p
        BY <1>1, <3>1, <3>2 DEF Counted0, IInv, Typed
      <3>3. CASE q # p
        BY <1>1, <3>1, <3>3 DEF Counted0, IInv, Typed
      <3>4. QED
        BY <3>1, <3>2, <3>3
    <2>3. QED
      BY <1>1, <2>1, <2>2, QuietFacts DEF Absent
  <1>8. QED
    BY <1>2, <1>3, <1>4, <1>5, <1>6, <1>7 DEF IInv

LEMMA CountedStep ==
    ASSUME IInv, Counted \/ Sibling
    PROVE  IInv'
  <1>1. /\ pc \in {"test", "sibling"} /\ pc' \in {"sibling", "list", "having"}
        /\ probes' = probes \/ (probes' = probes + 1 /\ Remaining > 0)
        /\ UNCHANGED <<kind, world, writes, cache, stmt, verdict, domain, told>>
        /\ pc' = "having" => Dead = {}
        /\ pc' \in {"sibling", "list"} => Dead # {}
    BY DEF Counted, Sibling, IInv, Ordered
  <1>2. Typed'
    BY <1>1 DEF IInv, Typed
  <1>3. Budgeted'
    <2>1. probes \in 0 .. stmt.budget /\ stmt.budget \in Nat
      BY StatementFacts DEF IInv, Budgeted
    <2>2. probes' \in 0 .. stmt.budget
      BY <1>1, <2>1 DEF Remaining
    <2>3. QED
      BY <1>1, <2>2 DEF Budgeted
  <1>4. Ordered'
    BY <1>1 DEF IInv, Ordered, Dead, Said
  <1>5. Truthful'
    BY <1>1 DEF IInv, Truthful
  <1>6. Dated' /\ Absent'
    BY <1>1, QuietFacts DEF IInv, Dated, Absent, Ordered, Misses, Sound, Counted0, Said
  <1>7. QED
    BY <1>2, <1>3, <1>4, <1>5, <1>6 DEF IInv

-----------------------------------------------------------------------------
(* A dead predicate is explained by a listing that misses nothing old.     *)

LEMMA Explained ==
    ASSUME IInv, NEW p, NEW l \in Listing, Explain(p, l),
           pc \in {"list", "enumerate"}, Counted0(p),
           probes' \in 0 .. stmt.budget,
           p \in Pred => (Misses(p, l) => Recent(world[p].since)),
           cache' \in [Pred -> [Key -> Entry]],
           \A q \in Pred, key \in Key : Sound(q, cache'[q][key]),
           UNCHANGED <<kind, world, writes, stmt, told>>
    PROVE  IInv'
  <1>1. /\ domain' = [domain EXCEPT ![p] = l]
        /\ verdict' = [verdict EXCEPT ![p] = "found"]
        /\ pc' = IF Dead \ {p} # {} THEN "sibling" ELSE "having"
    BY DEF Explain
  <1>2. Typed'
    BY <1>1 DEF IInv, Typed, Verdict
  <1>3. Budgeted'
    BY <1>1 DEF Budgeted
  <1>4. told' = Quiet
    BY DEF IInv, Ordered
  <1>5. Ordered'
    <2>1. Dead' = Dead \ {p}
      BY <1>1, StatementFacts DEF Dead, Said, IInv, Typed
    <2>2. QED
      BY <1>1, <1>4, <2>1 DEF Ordered
  <1>6. Truthful'
    <2>1. \A q \in Pred : verdict'[q] = "matches" => world'[q].matches
      BY <1>1 DEF IInv, Typed, Truthful
    <2>2. QED
      BY <1>4, <2>1, QuietFacts DEF Truthful
  <1>7. Dated'
    <2>1. \A q \in Pred : Misses(q, domain'[q]) => Recent(world[q].since)
      BY <1>1 DEF IInv, Typed, Dated
    <2>2. QED
      BY <1>1, <1>4, <2>1, QuietFacts DEF Dated, Misses, Sound, Recent
  <1>8. Absent'
    <2>1. \A q \in Pred : Counted0(q)' => Counted0(q)
      BY <1>1 DEF Counted0, IInv, Typed
    <2>2. pc' # "idle"
      BY <1>1
    <2>3. QED
      BY <1>4, <2>1, <2>2, QuietFacts DEF IInv, Absent
  <1>9. QED
    BY <1>2, <1>3, <1>5, <1>6, <1>7, <1>8 DEF IInv

\* A listing that misses nothing now may be kept.
LEMMA ListedNow ==
    ASSUME IInv, NEW p, NEW key \in Key, NEW l \in Listing, ~Misses(p, l), Keep(p, key, l)
    PROVE  /\ cache' \in [Pred -> [Key -> Entry]]
           /\ \A q \in Pred, k \in Key : Sound(q, cache'[q][k])
  <1> DEFINE e == [listing |-> l, age |-> 0]
  <1>1. e \in Entry /\ e.listing = l
    BY DiagnosisAssumption DEF Entry
  <1> HIDE DEF e
  <1>2. PICK old \in {cache, Forgotten} : cache' = [old EXCEPT ![p][key] = e]
    BY DEF Keep, e
  <1>3. /\ old \in [Pred -> [Key -> Entry]]
        /\ \A q \in Pred, k \in Key : Sound(q, old[q][k])
    <2>1. CASE old = cache
      BY <2>1 DEF IInv, Typed, Dated
    <2>2. CASE old = Forgotten
      BY <2>2, Listings DEF Misses, Sound
    <2>3. QED
      BY <2>1, <2>2
  <1>4. cache' \in [Pred -> [Key -> Entry]]
    BY <1>1, <1>2, <1>3
  <1>5. ASSUME NEW q \in Pred, NEW k \in Key
        PROVE  Sound(q, cache'[q][k])
    <2>1. CASE q = p /\ k = key
      <3>1. cache'[q][k] = e
        BY <1>2, <1>3, <2>1
      <3>2. QED
        BY <1>1, <2>1, <3>1 DEF Sound, e
    <2>2. CASE ~(q = p /\ k = key)
      <3>1. cache'[q][k] = old[q][k]
        BY <1>2, <1>3, <2>2
      <3>2. QED
        BY <1>3, <3>1
    <2>3. QED
      BY <2>1, <2>2
  <1>6. QED
    BY <1>4, <1>5

\* What Epicor says now misses nothing.
LEMMA SaidNow ==
    ASSUME NEW p, NEW l \in Range(p) \cup Values(p)
    PROVE  l \in Listing /\ ~Misses(p, l)
  BY DEF Range, Values, Misses

LEMMA KeysOfPreds ==
    \A p : KeyOf(kind[p]) \in Key /\ "range" \in Key /\ "enumeration" \in Key
  BY DEF KeyOf, Key

\* What is cached, and has not expired, misses nothing but what is recent.
LEMMA CachedIsRecent ==
    ASSUME IInv, NEW p \in Pred, NEW key \in Key, Cached(cache[p][key])
    PROVE  /\ cache[p][key].listing \in Listing
           /\ Misses(p, cache[p][key].listing) => Recent(world[p].since)
  <1>1. cache[p][key] \in Entry /\ world[p].since \in 0 .. DomainTTL + 1
    BY DEF IInv, Typed, World
  <1>2. cache[p][key].listing \in Listing /\ cache[p][key].age \in -1 .. DomainTTL + 1
    BY <1>1 DEF Entry
  <1>3. Misses(p, cache[p][key].listing) => world[p].since <= cache[p][key].age
    BY DEF IInv, Dated, Sound
  <1>4. QED
    BY <1>1, <1>2, <1>3, DiagnosisAssumption DEF Cached, Recent

\* On to the listing of the values.
LEMMA OnToEnumerate ==
    ASSUME IInv, pc = "list", pc' = "enumerate",
           probes' \in 0 .. stmt.budget, probes' < stmt.budget,
           UNCHANGED <<kind, world, writes, cache, stmt, verdict, domain, told>>
    PROVE  IInv'
  <1>1. Typed'
    BY DEF IInv, Typed
  <1>2. Budgeted'
    BY DEF Budgeted
  <1>3. Ordered' /\ Truthful'
    BY DEF IInv, Ordered, Truthful, Dead, Said
  <1>4. Dated' /\ Absent'
    BY DEF IInv, Dated, Absent, Misses, Sound, Counted0, Said
  <1>5. QED
    BY <1>1, <1>2, <1>3, <1>4 DEF IInv

LEMMA ListStep ==
    ASSUME IInv, List
    PROVE  IInv'
  <1> DEFINE p == First(Dead)
             k == kind[p]
             entry == cache[p][KeyOf(k)]
             other == cache[p]["enumeration"]
  <1>1. pc = "list" /\ UNCHANGED <<kind, world, writes, stmt, told>>
    BY DEF List
  <1>2. /\ probes \in 0 .. stmt.budget /\ stmt.budget \in Nat
        /\ cache \in [Pred -> [Key -> Entry]]
        /\ \A q \in Pred, key \in Key : Sound(q, cache[q][key])
    BY StatementFacts DEF IInv, Budgeted, Typed, Dated
  <1>3. p \in Pred /\ Counted0(p)
    BY <1>1, FirstDead DEF Dead, Said, Counted0
  <1>4. ASSUME NEW key \in Key, Cached(cache[p][key]), Explain(p, cache[p][key].listing),
               UNCHANGED cache, probes' \in 0 .. stmt.budget
        PROVE  IInv'
    BY <1>1, <1>2, <1>3, <1>4, CachedIsRecent, Explained
  <1>5. CASE Explain(p, NoListing) /\ UNCHANGED cache /\ probes' \in 0 .. stmt.budget
    <2>1. ~Misses(p, NoListing)
      BY Listings DEF Misses
    <2>2. QED
      BY <1>1, <1>2, <1>3, <1>5, <2>1, Listings, Explained
  <1>6. CASE /\ pc' = "enumerate" /\ UNCHANGED <<cache, verdict, domain>>
             /\ probes' \in 0 .. stmt.budget /\ probes' < stmt.budget
    BY <1>1, <1>6, OnToEnumerate
  <1>7. CASE /\ \E l \in Range(p) : Explain(p, l) /\ Keep(p, "range", l)
             /\ probes' \in 0 .. stmt.budget
    <2>1. PICK l \in Range(p) : Explain(p, l) /\ Keep(p, "range", l)
      BY <1>7
    <2>2. QED
      BY <1>1, <1>3, <1>7, <2>1, SaidNow, KeysOfPreds, ListedNow, Explained
  <1>8. Remaining = stmt.budget - probes /\ probes \in Int
    BY <1>2 DEF Remaining
  <1>9. Remaining > 0 => /\ probes + 1 \in 0 .. stmt.budget /\ probes < stmt.budget
                         /\ Remaining > 1 => probes + 1 < stmt.budget
    BY <1>2, <1>8
  <1> HIDE DEF p
  <1>10. \/ Cached(entry) /\ Explain(p, entry.listing) /\ UNCHANGED <<cache, probes>>
         \/ Explain(p, NoListing) /\ UNCHANGED <<cache, probes>>
         \/ /\ Remaining > 0 /\ pc' = "enumerate"
            /\ UNCHANGED <<cache, probes, verdict, domain>>
         \/ /\ Remaining > 0 /\ probes' = probes + 1
            /\ \/ \E l \in Range(p) : Explain(p, l) /\ Keep(p, "range", l)
               \/ Explain(p, NoListing) /\ UNCHANGED cache
               \/ Cached(other) /\ Explain(p, other.listing) /\ UNCHANGED cache
               \/ Remaining > 1 /\ pc' = "enumerate" /\ UNCHANGED <<cache, verdict, domain>>
    BY DEF List, p
  <1>11. CASE Cached(entry) /\ Explain(p, entry.listing) /\ UNCHANGED <<cache, probes>>
    BY <1>2, <1>4, <1>11, KeysOfPreds
  <1>12. CASE Explain(p, NoListing) /\ UNCHANGED <<cache, probes>>
    BY <1>2, <1>5, <1>12
  <1>13. CASE /\ Remaining > 0 /\ pc' = "enumerate"
              /\ UNCHANGED <<cache, probes, verdict, domain>>
    BY <1>2, <1>6, <1>9, <1>13
  <1>14. CASE /\ Remaining > 0 /\ probes' = probes + 1
              /\ \/ \E l \in Range(p) : Explain(p, l) /\ Keep(p, "range", l)
                 \/ Explain(p, NoListing) /\ UNCHANGED cache
                 \/ Cached(other) /\ Explain(p, other.listing) /\ UNCHANGED cache
                 \/ Remaining > 1 /\ pc' = "enumerate" /\ UNCHANGED <<cache, verdict, domain>>
    BY <1>4, <1>5, <1>6, <1>7, <1>9, <1>14, KeysOfPreds
  <1>15. QED
    BY <1>10, <1>11, <1>12, <1>13, <1>14

LEMMA EnumerateStep ==
    ASSUME IInv, Enumerate
    PROVE  IInv'
  <1> DEFINE p == First(Dead)
  <1>1. /\ pc = "enumerate" /\ probes' = probes + 1
        /\ \/ \E l \in Values(p) : Explain(p, l) /\ Keep(p, KeyOf(kind[p]), l)
           \/ Explain(p, NoListing) /\ UNCHANGED cache
        /\ UNCHANGED <<kind, world, writes, stmt, told>>
    BY DEF Enumerate
  <1>2. probes' \in 0 .. stmt.budget /\ Counted0(p)
    <2>1. Counted0(p)
      BY <1>1, FirstDead DEF Dead, Said, Counted0
    <2>2. QED
      BY <1>1, <2>1, StatementFacts DEF IInv, Budgeted
  <1>3. CASE \E l \in Values(p) : Explain(p, l) /\ Keep(p, KeyOf(kind[p]), l)
    <2>1. PICK l \in Values(p) : Explain(p, l) /\ Keep(p, KeyOf(kind[p]), l)
      BY <1>3
    <2>2. QED
      BY <1>1, <1>2, <2>1, SaidNow, KeysOfPreds, ListedNow, Explained
  <1>4. CASE Explain(p, NoListing) /\ UNCHANGED cache
    <2>1. ~Misses(p, NoListing)
      BY Listings DEF Misses
    <2>2. /\ cache \in [Pred -> [Key -> Entry]]
          /\ \A q \in Pred, key \in Key : Sound(q, cache[q][key])
      BY DEF IInv, Typed, Dated
    <2>3. QED
      BY <1>1, <1>2, <1>4, <2>1, <2>2, Listings, Explained
  <1>5. QED
    BY <1>1, <1>3, <1>4

-----------------------------------------------------------------------------
(* The verdict.                                                            *)

\* Nothing is dead, untested or explained, so all match or were skipped.
LEMMA GenuinelyEmpty ==
    ASSUME IInv, pc = "having", Said("found") = {}, EmptySays = "genuinely_empty"
    PROVE  /\ \A p \in stmt.of : verdict[p] \in {"matches", "skipped"}
           /\ \E p \in stmt.of : verdict[p] = "matches"
  <1>1. Said("untested") = {} /\ Dead = {} /\ Said("matches") # {}
    BY DEF EmptySays, IInv, Ordered
  <1>2. \A p \in stmt.of : verdict[p] \in Verdict
    BY StatementFacts DEF IInv, Typed
  <1>3. QED
    BY <1>1, <1>2 DEF Said, Dead, Verdict

LEMMA Told ==
    ASSUME IInv, pc = "having", NEW says \in Says, NEW likely \in SUBSET Pred,
           Tell(says, likely), says # "nothing",
           says = "genuinely_empty" =>
               /\ \A p \in stmt.of : verdict[p] \in {"matches", "skipped"}
               /\ \E p \in stmt.of : verdict[p] = "matches",
           likely \subseteq Said("found"),
           \A p \in likely : kind[p].test \in {"eq", "number"} => ~domain[p].holds,
           probes' \in 0 .. stmt.budget,
           UNCHANGED <<kind, world, writes, cache, stmt, verdict, domain>>
    PROVE  IInv'
  <1>1. /\ pc' = "idle" /\ told' = [says |-> says, likely |-> likely]
        /\ told'.says = says /\ told'.likely = likely /\ told' # Quiet
    BY DEF Tell, Quiet
  <1>2. Typed'
    BY <1>1 DEF IInv, Typed
  <1>3. Budgeted' /\ Ordered'
    BY <1>1 DEF Budgeted, Ordered
  <1>4. Truthful'
    BY <1>1 DEF IInv, Truthful
  <1>5. Dated' /\ Absent'
    BY <1>1 DEF IInv, Dated, Absent, Misses, Sound, Counted0, Said
  <1>6. QED
    BY <1>2, <1>3, <1>4, <1>5 DEF IInv

LEMMA KillStep ==
    ASSUME IInv, NEW telling \in SUBSET Pred, NEW named \in SUBSET Pred,
           NEW single \in BOOLEAN, Kill(telling, named, single)
    PROVE  IInv'
  <1> DEFINE likely == {p \in Said("found") : Likely(p, telling, named, single)}
  <1>1. /\ likely \in SUBSET Pred /\ likely \subseteq Said("found")
        /\ \A p \in likely : kind[p].test \in {"eq", "number"} => ~domain[p].holds
    BY StatementFacts DEF Said, Likely, Present, IInv
  <1>2. /\ pc = "having" /\ Tell("killing_predicate", likely)
        /\ UNCHANGED <<kind, world, writes, cache, stmt, probes, verdict, domain>>
    BY DEF Kill
  <1> HIDE DEF likely
  <1>3. probes' \in 0 .. stmt.budget /\ "killing_predicate" \in Says
    BY <1>2 DEF IInv, Budgeted, Says
  <1>4. QED
    BY <1>1, <1>2, <1>3, Told

LEMMA EmptyStep ==
    ASSUME IInv, Empty \/ \E groups \in BOOLEAN : Having(groups)
    PROVE  IInv'
  <1>1. /\ pc = "having" /\ Said("found") = {}
        /\ Tell("killing_having", {}) \/ Tell(EmptySays, {})
        /\ UNCHANGED <<kind, world, writes, cache, stmt, verdict, domain>>
        /\ probes' = probes \/ (probes' = probes + 1 /\ Remaining > 0)
    BY DEF Empty, Having
  <1>2. probes' \in 0 .. stmt.budget
    BY <1>1, StatementFacts DEF IInv, Budgeted, Remaining
  <1>3. /\ EmptySays \in Says /\ EmptySays # "nothing"
        /\ "killing_having" \in Says /\ {} \in SUBSET Pred
    BY DEF EmptySays, Says
  <1>4. CASE Tell("killing_having", {})
    BY <1>1, <1>2, <1>3, <1>4, Told
  <1>5. CASE Tell(EmptySays, {})
    <2>1. EmptySays = "genuinely_empty" =>
              /\ \A p \in stmt.of : verdict[p] \in {"matches", "skipped"}
              /\ \E p \in stmt.of : verdict[p] = "matches"
      BY <1>1, GenuinelyEmpty
    <2>2. QED
      BY <1>1, <1>2, <1>3, <1>5, <2>1, Told
  <1>6. QED
    BY <1>1, <1>4, <1>5

-----------------------------------------------------------------------------
(* The others, and time.                                                   *)

LEMMA WriteStep ==
    ASSUME IInv, NEW p \in Pred, NEW rows \in BOOLEAN, Write(p, rows)
    PROVE  IInv'
  <1> DEFINE w == [world[p] EXCEPT !.listed = TRUE, !.matches = rows,
                                   !.since = IF world[p].listed THEN world[p].since ELSE 0]
  <1>1. world[p] \in World
    BY DEF IInv, Typed
  <1>2. /\ w \in World /\ w.listed /\ w.matches = rows
        /\ w.since = IF world[p].listed THEN world[p].since ELSE 0
    <2>1. (IF world[p].listed THEN world[p].since ELSE 0) \in 0 .. DomainTTL + 1
      BY <1>1, DiagnosisAssumption DEF World
    <2>2. QED
      BY <1>1, <2>1 DEF World
  <1> HIDE DEF w
  <1>3. /\ writes < Changes /\ writes' = writes + 1 /\ ~world[p].matches
        /\ world' = [world EXCEPT ![p] = w]
        /\ UNCHANGED <<kind, cache, stmt, pc, probes, verdict, domain, told>>
    BY <1>1 DEF Write, w, IInv, Typed, World
  <1>4. world'[p] = w /\ \A q \in Pred \ {p} : world'[q] = world[q]
    BY <1>3 DEF IInv, Typed
  <1>5. Typed'
    BY <1>2, <1>3, DiagnosisAssumption DEF IInv, Typed
  <1>6. Budgeted' /\ Ordered'
    BY <1>3 DEF IInv, Budgeted, Ordered, Dead, Said
  <1>7. Truthful'
    BY <1>3, <1>4 DEF IInv, Truthful
  <1>8. \A q \in Pred, l \in Listing :
            Misses(q, l)' => \/ world'[q].since = 0
                             \/ Misses(q, l) /\ world'[q].since = world[q].since
    <2>1. ASSUME NEW q \in Pred, NEW l \in Listing, Misses(q, l)'
          PROVE  \/ world'[q].since = 0
                 \/ Misses(q, l) /\ world'[q].since = world[q].since
      <3>1. CASE q = p
        <4>1. CASE world[p].listed
          BY <1>2, <1>3, <1>4, <2>1, <3>1, <4>1 DEF Misses
        <4>2. CASE ~world[p].listed
          BY <1>2, <1>4, <3>1, <4>2
        <4>3. QED
          BY <4>1, <4>2
      <3>2. CASE q # p
        BY <1>3, <1>4, <2>1, <3>2 DEF Misses
      <3>3. QED
        BY <3>1, <3>2
    <2>2. QED
      BY <2>1
  <1>9. Dated'
    <2>1. ASSUME NEW q \in Pred, NEW key \in Key
          PROVE  /\ cache[q][key].listing.whole => cache[q][key].age >= 0
                 /\ Misses(q, cache[q][key].listing)' => world'[q].since <= cache[q][key].age
      <3>1. /\ cache[q][key] \in Entry /\ cache[q][key].listing \in Listing
            /\ cache[q][key].age \in -1 .. DomainTTL + 1
        BY DEF IInv, Typed, Entry
      <3>2. Sound(q, cache[q][key])
        BY DEF IInv, Dated
      <3>3. CASE Misses(q, cache[q][key].listing)'
        <4>1. cache[q][key].listing.whole
          BY <1>3, <3>3 DEF Misses
        <4>2. \/ world'[q].since = 0
              \/ Misses(q, cache[q][key].listing) /\ world'[q].since = world[q].since
          BY <1>3, <1>8, <3>1, <3>3
        <4>3. QED
          BY <3>2, <4>1, <4>2 DEF Sound
      <3>4. QED
        BY <3>2, <3>3 DEF Sound
    <2>2. ASSUME NEW q \in Pred, Misses(q, domain[q])' PROVE Recent(world'[q].since)
      <3>1. domain[q] \in Listing
        BY DEF IInv, Typed
      <3>2. \/ world'[q].since = 0
            \/ Misses(q, domain[q]) /\ world'[q].since = world[q].since
        BY <1>3, <1>8, <2>2, <3>1
      <3>3. QED
        BY <3>2, DiagnosisAssumption DEF IInv, Dated, Recent
    <2>3. QED
      BY <1>3, <2>1, <2>2 DEF IInv, Dated, Sound, Recent
  <1>10. Absent'
    <2>1. ASSUME NEW q \in Pred, kind[q].of = "own"
          PROVE  /\ world'[q].matches = world'[q].listed
                 /\ Counted0(q) /\ world'[q].listed => world'[q].since = 0
      <3>1. /\ world[q].matches = world[q].listed
            /\ Counted0(q) /\ world[q].listed => world[q].since = 0
        BY <2>1 DEF IInv, Absent
      <3>2. CASE q = p
        <4>1. rows /\ ~world[p].listed
          BY <1>3, <2>1, <3>1, <3>2 DEF Write
        <4>2. QED
          BY <1>2, <1>4, <3>2, <4>1
      <3>3. CASE q # p
        BY <1>4, <3>1, <3>3
      <3>4. QED
        BY <3>2, <3>3
    <2>2. QED
      BY <1>3, <2>1 DEF IInv, Absent, Counted0, Said
  <1>11. QED
    BY <1>5, <1>6, <1>7, <1>9, <1>10 DEF IInv

\* Other diagnoses keep what is so now.
LEMMA OthersStep ==
    ASSUME IInv, NEW p \in Pred, NEW key \in Key, Others(p, key)
    PROVE  IInv'
  <1>1. PICK l \in Values(p) \cup Range(p) : Keep(p, key, l)
    BY DEF Others
  <1>2. /\ writes < Changes /\ writes' = writes + 1
        /\ UNCHANGED <<kind, world, stmt, pc, probes, verdict, domain, told>>
    BY DEF Others
  <1>3. /\ cache' \in [Pred -> [Key -> Entry]]
        /\ \A q \in Pred, k \in Key : Sound(q, cache'[q][k])
    BY <1>1, SaidNow, ListedNow
  <1>4. Typed'
    BY <1>2, <1>3, DiagnosisAssumption DEF IInv, Typed
  <1>5. Budgeted' /\ Ordered' /\ Truthful'
    BY <1>2 DEF IInv, Budgeted, Ordered, Truthful, Dead, Said
  <1>6. Absent'
    BY <1>2 DEF IInv, Absent, Counted0, Said
  <1>7. Dated'
    BY <1>2, <1>3 DEF IInv, Dated, Sound, Misses, Recent
  <1>8. QED
    BY <1>4, <1>5, <1>6, <1>7 DEF IInv

LEMMA TickStep ==
    ASSUME IInv, Tick
    PROVE  IInv'
  <1>1. /\ pc = "idle" /\ told = Quiet
        /\ cache' = [p \in Pred |-> [key \in Key |->
                        [cache[p][key] EXCEPT !.age = Older(cache[p][key].age)]]]
        /\ world' = [p \in Pred |-> [world[p] EXCEPT !.since = Older(world[p].since)]]
        /\ UNCHANGED <<kind, writes, stmt, pc, probes, verdict, domain, told>>
    BY DEF Tick
  <1>2. ASSUME NEW p \in Pred
        PROVE  /\ world'[p] \in World /\ world'[p].since = Older(world[p].since)
               /\ world'[p].matches = world[p].matches /\ world'[p].listed = world[p].listed
               /\ world[p].since \in 0 .. DomainTTL + 1
    <2>1. world[p] \in World /\ world'[p] = [world[p] EXCEPT !.since = Older(world[p].since)]
      BY <1>1 DEF IInv, Typed
    <2>2. QED
      BY <2>1, OlderFacts DEF World
  <1>3. ASSUME NEW p \in Pred, NEW key \in Key
        PROVE  /\ cache'[p][key] \in Entry
               /\ cache'[p][key].listing = cache[p][key].listing
               /\ cache'[p][key].age = Older(cache[p][key].age)
               /\ cache[p][key].age \in -1 .. DomainTTL + 1
    <2>1. /\ cache[p][key] \in Entry
          /\ cache'[p][key] = [cache[p][key] EXCEPT !.age = Older(cache[p][key].age)]
      BY <1>1 DEF IInv, Typed
    <2>2. QED
      BY <2>1, OlderFacts DEF Entry
  <1>4. Typed'
    <2>1. cache' \in [Pred -> [Key -> Entry]]
      BY <1>1, <1>3
    <2>2. world' \in [Pred -> World]
      BY <1>1, <1>2
    <2>3. QED
      BY <1>1, <2>1, <2>2 DEF IInv, Typed
  <1>5. Budgeted' /\ Ordered'
    BY <1>1 DEF IInv, Budgeted, Ordered, Dead, Said
  <1>6. Truthful'
    BY <1>1, <1>2 DEF IInv, Truthful
  <1>7. Dated'
    <2>1. ASSUME NEW p \in Pred, NEW key \in Key
          PROVE  Sound(p, cache[p][key])'
      <3>1. Sound(p, cache[p][key])
        BY DEF IInv, Dated
      <3>2. cache'[p][key].listing.whole => cache'[p][key].age >= 0
        BY <1>3, <3>1, DiagnosisAssumption DEF Sound, Older
      <3>3. Misses(p, cache[p][key].listing)' => world'[p].since <= cache'[p][key].age
        BY <1>2, <1>3, <3>1, OlderFacts DEF Sound, Misses
      <3>4. QED
        BY <3>2, <3>3 DEF Sound
    <2>2. domain' = [p \in Pred |-> NoListing] /\ told' = Quiet
      BY <1>1 DEF IInv, Dated
    <2>3. QED
      BY <2>1, <2>2, Listings, QuietFacts DEF Dated, Misses
  <1>8. Absent'
    <2>1. /\ \A p \in Pred : ~Counted0(p) /\ ~Counted0(p)'
          /\ told'.likely = {}
      BY <1>1, QuietFacts DEF IInv, Absent, Counted0
    <2>2. QED
      BY <1>1, <1>2, <2>1 DEF IInv, Absent
  <1>9. QED
    BY <1>4, <1>5, <1>6, <1>7, <1>8 DEF IInv

LEMMA AnswerStep ==
    ASSUME IInv, Answer
    PROVE  IInv'
  <1>1. /\ pc = "idle" /\ told' = Quiet /\ probes' = 0 /\ stmt' = NoStmt
        /\ verdict' = [p \in Pred |-> "untested"] /\ domain' = [p \in Pred |-> NoListing]
        /\ UNCHANGED <<kind, world, writes, cache, pc>>
    BY DEF Answer
  <1>2. Typed'
    BY <1>1, QuietFacts, Listings DEF IInv, Typed, Verdict
  <1>3. Budgeted' /\ Ordered'
    BY <1>1 DEF Budgeted, Ordered, NoStmt
  <1>4. Truthful'
    BY <1>1, QuietFacts DEF Truthful
  <1>5. Dated'
    BY <1>1, QuietFacts, Listings DEF IInv, Dated, Misses, Sound
  <1>6. Absent'
    <2>1. told'.likely = {} /\ \A p \in Pred : ~Counted0(p)'
      BY <1>1, QuietFacts DEF Counted0
    <2>2. QED
      BY <1>1, <2>1 DEF IInv, Absent
  <1>7. QED
    BY <1>2, <1>3, <1>4, <1>5, <1>6 DEF IInv

LEMMA NextIInv == IInv /\ [Next]_vars => IInv'
  <1> SUFFICES ASSUME IInv, [Next]_vars PROVE IInv'
    OBVIOUS
  <1>1. ASSUME NEW s \in Statement, Diagnose(s) PROVE IInv'
    BY <1>1, DiagnoseStep
  <1>2. CASE Step
    BY <1>2, CountStep, CountedStep, ListStep, EnumerateStep, EmptyStep, KillStep DEF Step
  <1>3. ASSUME NEW p \in Pred, NEW rows \in BOOLEAN, Write(p, rows) PROVE IInv'
    BY <1>3, WriteStep
  <1>4. CASE Tick
    BY <1>4, TickStep
  <1>5. CASE Answer
    BY <1>5, AnswerStep
  <1>6. ASSUME NEW p \in Pred, NEW key \in Key, Others(p, key) PROVE IInv'
    BY <1>6, OthersStep
  <1>7. CASE UNCHANGED vars
    BY <1>7 DEF vars, IInv, Typed, Budgeted, Ordered, Truthful, Absent, Counted0,
                Dated, Sound, Misses, Recent, Dead, Said
  <1>8. QED
    BY <1>1, <1>2, <1>3, <1>4, <1>5, <1>6, <1>7 DEF Next

LEMMA Inductive == Spec => []IInv
  BY InitIInv, NextIInv, PTL DEF Spec

(* Every reachable state of the diagnoses and their cache is well typed,   *)
(* and no diagnosis makes more probes than its budget.                     *)
THEOREM TypeCorrect == Spec => []TypeOK
  <1>1. IInv => TypeOK
    BY DEF IInv, Typed, Budgeted, TypeOK, Verdict, Says
  <1>2. QED
    BY <1>1, Inductive, PTL

(* Whatever probes fail and however early the budget ends, an empty result *)
(* is called correct only if some predicate was counted and every one that *)
(* was matches rows still.                                                 *)
THEOREM EmptyIsGenuine == Spec => []NoFalseEmpty
  <1>1. IInv => NoFalseEmpty
    BY StatementFacts DEF IInv, Truthful, NoFalseEmpty
  <1>2. QED
    BY <1>1, Inductive, PTL

(* A predicate that is called a likely mistake matches no value of its own *)
(* table's column but what was added during the diagnosis; and an equality *)
(* none of a master that was listed whole, but what was added within the   *)
(* life of a cache entry.                                                  *)
THEOREM TheAccusedAreAbsent == Spec => []AccusedIsAbsent
  <1>1. IInv => AccusedIsAbsent
    <2> SUFFICES ASSUME IInv, NEW p \in told.likely, world[p].listed
                 PROVE  IF kind[p].of = "own" THEN world[p].since = 0
                        ELSE \/ ~domain[p].whole \/ kind[p].test \notin {"eq", "number"}
                             \/ DomainTTL = 0 \/ world[p].since <= DomainTTL
      BY DEF AccusedIsAbsent
    <2>1. p \in Pred /\ Counted0(p)
      BY StatementFacts DEF IInv, Absent, Said, Counted0
    <2>2. CASE kind[p].of = "own"
      BY <2>1, <2>2 DEF IInv, Absent
    <2>3. CASE kind[p].of # "own"
      BY <2>1, <2>3 DEF IInv, Dated, Misses, Recent
    <2>4. QED
      BY <2>2, <2>3
  <1>2. QED
    BY <1>1, Inductive, PTL
=============================================================================
