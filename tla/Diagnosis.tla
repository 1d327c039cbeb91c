------------------------------ MODULE Diagnosis ------------------------------
(***************************************************************************)
(* diagnose_empty of sql/diagnose_empty.py: why a query returned no rows.  *)
(* Each predicate of the where is counted alone, most suspicious first; of *)
(* one that matches nothing, the values its column does hold are listed,   *)
(* or taken from the DomainCache; if all of them match, the query is run   *)
(* without its having.  Every count, list and run is a probe, of which     *)
(* there is a budget, and every probe may fail (QueryPipe has its gates).  *)
(*                                                                         *)
(* Diagnoses follow one another and share the cache.  Other users add rows *)
(* and values between two probes.                                          *)
(***************************************************************************)
EXTENDS Integers, FiniteSets, Sequences

CONSTANTS
    N,          \* bound: predicates of a statement, numbered by suspicion
    Kinds,      \* bound: which kinds of predicate there are (AllKinds)
    Budgets,    \* bound: the probe budgets of calls
    DomainTTL,  \* DomainCache.ttl_s, in ages; 0 keeps an entry for ever
    Changes     \* bound: what others do, writes and diagnoses

\* A predicate.  test: an equality with a string (eq) or a number; a list (in);
\* like; a comparison (cmp); a NULL test; a predicate of one column without a
\* literal (misc); or one that cannot be counted, because it spans tables, is an
\* OR group or is denied (other).  of: the values of its column are its own
\* table's, or those of a master, the authority (Plant, SiteID).  big: its table
\* is too large to list.  hinted: a sibling table may hold its value.
AllKinds == [test : {"eq", "number", "in", "like", "cmp", "null", "misc", "other"},
             of : {"own", "authority"}, big : BOOLEAN, hinted : BOOLEAN]

Suspicion(k) ==
    CASE k.test = "other" -> 0
      [] k.test # "other" /\ k.of = "authority" -> 8
      [] OTHER -> [eq |-> 7, in |-> 6, number |-> 5, like |-> 4,
                   null |-> 3, cmp |-> 2, misc |-> 1][k.test]

Pred == 1 .. N

ASSUME DiagnosisAssumption ==
    /\ N \in Nat /\ Kinds \subseteq AllKinds
    /\ Budgets \subseteq Nat /\ DomainTTL \in Nat /\ Changes \in Nat

VARIABLES
    kind,       \* of each predicate
    world,      \* external: what Epicor holds of each predicate now
    writes,     \* external: how often others have changed it, or the cache
    cache,      \* DomainCache: what was listed of each predicate's column
    stmt,       \* the statement that is diagnosed
    pc,         \* what _diagnose does next
    probes,     \* probes so far
    verdict,    \* of each predicate: Conjunct.verdict
    domain,     \* of each predicate that matched nothing: what was found listed
    told        \* the diagnosis

vars == <<kind, world, writes, cache, stmt, pc, probes, verdict, domain, told>>

\* matches: rows satisfy the predicate.  listed: so do values of its column, or
\* of the authority.  many: that has more values than are listed.  since: how
\* long ago the first of them was added.
World == [matches : BOOLEAN, listed : BOOLEAN, many : BOOLEAN, since : 0 .. DomainTTL + 1]
\* A column's own values are those that its rows have.
Possible(k, w) ==
    /\ w.matches => w.listed
    /\ k.of = "own" => w.matches = w.listed
    /\ k.test \in {"null", "other"} \/ k.big => ~w.many     \* bound: never listed

\* What is known of a column: nothing, its range, or values of it.  holds: a
\* value satisfies the predicate, or may, in the range.  whole: they are all.
Listing == [what : {"none", "range", "values"}, holds : BOOLEAN, whole : BOOLEAN]
NoListing == [what |-> "none", holds |-> TRUE, whole |-> FALSE]
\* An entry of the cache is under the column and one of two keys.
Key == {"range", "enumeration"}
Entry == [listing : Listing, age : -1 .. DomainTTL + 1]
NotCached == [listing |-> NoListing, age |-> -1]
Forgotten == [p \in Pred |-> [key \in Key |-> NotCached]]
Statement == [of : {1 .. n : n \in Pred}, having : BOOLEAN,
              budget : Budgets]
NoStmt == [of |-> {}, having |-> FALSE, budget |-> 0]
Quiet == [says |-> "nothing", likely |-> {}]

TypeOK ==
    /\ kind \in [Pred -> Kinds]
    /\ world \in [Pred -> World]
    /\ writes \in 0 .. Changes
    /\ cache \in [Pred -> [Key -> Entry]]
    /\ stmt \in Statement \cup {NoStmt}
    /\ pc \in {"idle", "test", "sibling", "list", "enumerate", "having"}
    /\ probes \in 0 .. stmt.budget
    /\ verdict \in [Pred -> {"untested", "matches", "matches_nothing", "skipped", "found"}]
    /\ domain \in [Pred -> Listing]
    /\ told \in [says : {"nothing", "killing_predicate", "killing_having",
                         "genuinely_empty", "undetermined"},
                 likely : SUBSET Pred]

Init ==
    /\ kind \in {k \in [Pred -> Kinds] :
                    \A p, q \in Pred : p < q => Suspicion(k[p]) >= Suspicion(k[q])}
    /\ world \in [Pred -> {w \in World : w.since = DomainTTL + 1}]
    /\ \A p \in Pred : Possible(kind[p], world[p])
    /\ writes = 0
    /\ cache = Forgotten
    /\ stmt = NoStmt
    /\ pc = "idle" /\ probes = 0
    /\ verdict = [p \in Pred |-> "untested"]
    /\ domain = [p \in Pred |-> NoListing]
    /\ told = Quiet

-----------------------------------------------------------------------------
Said(v) == {p \in stmt.of : verdict[p] = v}
\* The most suspicious of some predicates.
First(S) == CHOOSE p \in S : \A q \in S : p <= q
Remaining == stmt.budget - probes
\* One probe is kept for what comes after the counts (sat_cap).
ToTest == IF probes + 1 < stmt.budget THEN Said("untested") ELSE {}

Dead == Said("matches_nothing")     \* not explained yet

\* _diagnose, before its first probe: what has no column of its own cannot be
\* counted.
Diagnose(s) ==
    /\ pc = "idle" /\ told = Quiet
    /\ stmt' = s /\ pc' = "test" /\ probes' = 0 /\ told' = Quiet
    /\ verdict' = [p \in Pred |-> IF kind[p].test = "other" THEN "skipped" ELSE "untested"]
    /\ domain' = [p \in Pred |-> NoListing]
    /\ UNCHANGED <<kind, world, writes, cache>>

\* The satisfiability probe; one that fails leaves its predicate skipped.
Count(ok) ==
    /\ pc = "test" /\ ToTest # {}
    /\ LET p == First(ToTest)
       IN  verdict' = [verdict EXCEPT ![p] = IF ~ok THEN "skipped"
                                             ELSE IF world[p].matches THEN "matches"
                                             ELSE "matches_nothing"]
    /\ probes' = probes + 1
    /\ UNCHANGED <<kind, world, writes, cache, stmt, pc, domain, told>>

Counted ==
    /\ pc = "test" /\ ToTest = {}
    /\ pc' = IF Dead # {} THEN "sibling" ELSE "having"
    /\ UNCHANGED <<kind, world, writes, cache, stmt, probes, verdict, domain, told>>

\* _domain_for, of the first dead predicate: for the value of an equality a
\* sibling table is looked into, whether it helps or not.
Sibling ==
    LET k == kind[First(Dead)] IN
    /\ pc = "sibling"
    /\ pc' = "list"
    /\ probes' = IF k.hinted /\ k.test \in {"eq", "number"} /\ Remaining > 0
                 THEN probes + 1 ELSE probes
    /\ UNCHANGED <<kind, world, writes, cache, stmt, verdict, domain, told>>

\* What Epicor says of p's column now: its range, or at most DOMAIN_LIMIT of
\* its values.
Range(p) == {l \in Listing : l.what = "range" /\ l.whole /\ (world[p].listed => l.holds)}
Values(p) ==
    {l \in Listing : /\ l.what = "values"
                     /\ l.whole <=> ~world[p].many
                     /\ l.whole => (l.holds <=> world[p].listed)
                     /\ l.holds => world[p].listed}

\* A number and a comparison ask for the range of a column, not its values.
Ranged(k) == k.of = "own" /\ k.test \in {"number", "cmp"}
KeyOf(k) == IF Ranged(k) THEN "range" ELSE "enumeration"
TooBig(k) == k.big /\ k.of = "own"

\* The predicate is explained by what is known of its column: on to the next.
Explain(p, l) ==
    /\ domain' = [domain EXCEPT ![p] = l]
    /\ verdict' = [verdict EXCEPT ![p] = "found"]
    /\ pc' = IF Dead \ {p} # {} THEN "sibling" ELSE "having"

\* DomainCache.put: a cache that is full is emptied first.
Keep(p, key, l) ==
    \E old \in {cache, Forgotten} :
        cache' = [old EXCEPT ![p][key] = [listing |-> l, age |-> 0]]

\* Mutant: an entry is good for ever.
CachedForEver(e) == e.age >= 0

\* DomainCache.get.
Cached(e) == e.age >= 0 /\ (DomainTTL = 0 \/ e.age <= DomainTTL)

\* A NULL test explains itself; then the cache is asked; then Epicor, if a probe
\* is left: for a range, or for the values.  A range that cannot be had leaves
\* what is cached of the values, and then the values themselves.
List ==
    LET p == First(Dead)
        k == kind[p]
        entry == cache[p][KeyOf(k)]
        other == cache[p]["enumeration"]
        asked == k.test # "null" /\ ~Cached(entry) /\ Remaining > 0
    IN
    /\ pc = "list"
    /\ \/ /\ k.test # "null" /\ Cached(entry)
          /\ Explain(p, entry.listing)
          /\ UNCHANGED <<cache, probes>>
       \/ /\ \/ k.test = "null"
             \/ ~Cached(entry) /\ Remaining = 0
             \/ ~Cached(entry) /\ ~Ranged(k) /\ TooBig(k)
          /\ Explain(p, NoListing)
          /\ UNCHANGED <<cache, probes>>
       \/ /\ asked /\ ~Ranged(k) /\ ~TooBig(k)
          /\ pc' = "enumerate"
          /\ UNCHANGED <<cache, probes, verdict, domain>>
       \/ /\ asked /\ Ranged(k)
          /\ probes' = probes + 1
          /\ \/ \E l \in Range(p) : Explain(p, l) /\ Keep(p, "range", l)
             \/ /\ Remaining = 1 \/ TooBig(k)
                /\ Explain(p, NoListing)
                /\ UNCHANGED cache
             \/ /\ Remaining > 1 /\ ~TooBig(k) /\ Cached(other)
                /\ Explain(p, other.listing)
                /\ UNCHANGED cache
             \/ /\ Remaining > 1 /\ ~TooBig(k) /\ ~Cached(other)
                /\ pc' = "enumerate"
                /\ UNCHANGED <<cache, verdict, domain>>
    /\ UNCHANGED <<kind, world, writes, stmt, told>>

\* The enumeration probe, or its failure.
Enumerate ==
    LET p == First(Dead) IN
    /\ pc = "enumerate"
    /\ probes' = probes + 1
    /\ \/ \E l \in Values(p) : Explain(p, l) /\ Keep(p, KeyOf(kind[p]), l)
       \/ Explain(p, NoListing) /\ UNCHANGED cache
    /\ UNCHANGED <<kind, world, writes, stmt, told>>

\* _apply_domain: the literal is one of the values.  A list never is, nor what
\* has no literal; a pattern or the bound of a comparison may be (named).
Present(p, named) ==
    CASE kind[p].test \in {"eq", "number"} -> domain[p].holds
      [] kind[p].test = "like" -> domain[p].holds /\ p \in named
      [] kind[p].test = "cmp" -> p \in named
      [] OTHER -> FALSE

\* _apply_domain, of all: which predicates are called likely mistakes.  Of a
\* range, an equality outside it, if it is a small code set (telling); of the
\* values, what is not one of them, but not the only predicate of a column with
\* a single value (single); of a sample, what resembles a value in it (telling).
Likely(p, telling, named, single) ==
    \/ /\ domain[p].what = "range" /\ kind[p].test # "cmp"
       /\ ~domain[p].holds /\ p \in telling
    \/ /\ domain[p].what = "values" /\ ~Present(p, named)
       /\ domain[p].whole \/ p \in telling
       /\ ~(domain[p].whole /\ single /\ stmt.of = {p})

Tell(says, likely) ==
    /\ pc' = "idle"
    /\ told' = [says |-> says, likely |-> likely]

\* _killing_verdict.
Kill(telling, named, single) ==
    /\ pc = "having" /\ Said("found") # {}
    /\ Tell("killing_predicate", {p \in Said("found") : Likely(p, telling, named, single)})
    /\ UNCHANGED <<kind, world, writes, cache, stmt, probes, verdict, domain>>

\* Mutant: a predicate that the budget did not reach is taken for one that matches.
EmptySaysReached == IF Said("matches") # {} THEN "genuinely_empty" ELSE "undetermined"

\* _genuinely_empty.
EmptySays ==
    IF Said("untested") # {} \/ Said("matches") = {} THEN "undetermined" ELSE "genuinely_empty"

\* The having_relaxation probe, which finds the groups that the having removed,
\* or finds none, or fails.
Having(groups) ==
    /\ pc = "having" /\ Said("found") = {} /\ stmt.having /\ Remaining > 0
    /\ probes' = probes + 1
    /\ IF groups THEN Tell("killing_having", {}) ELSE Tell(EmptySays, {})
    /\ UNCHANGED <<kind, world, writes, cache, stmt, verdict, domain>>

Empty ==
    /\ pc = "having" /\ Said("found") = {} /\ ~(stmt.having /\ Remaining > 0)
    /\ Tell(EmptySays, {})
    /\ UNCHANGED <<kind, world, writes, cache, stmt, probes, verdict, domain>>

-----------------------------------------------------------------------------
\* Another user adds a value to a column, with rows or, to a master, without.
Write(p, rows) ==
    /\ writes < Changes /\ ~world[p].matches
    /\ kind[p].of = "own" \/ world[p].listed => rows
    /\ writes' = writes + 1
    /\ world' = [world EXCEPT ![p].listed = TRUE, ![p].matches = rows,
                              ![p].since = IF world[p].listed THEN @ ELSE 0]
    /\ UNCHANGED <<kind, cache, stmt, pc, probes, verdict, domain, told>>

\* Another diagnosis lists the column of p, for a predicate of its own.
Others(p, key) ==
    /\ writes < Changes /\ writes' = writes + 1
    /\ kind[p].test \notin {"null", "other"}
    /\ kind[p].of = "authority" => key = "enumeration"
    /\ \E l \in (IF TooBig(kind[p]) THEN {} ELSE Values(p))
                    \cup (IF key = "range" THEN Range(p) ELSE {}) :
           Keep(p, key, l)
    /\ UNCHANGED <<kind, world, stmt, pc, probes, verdict, domain, told>>

\* Entries and values grow older.
Older(age) == IF age \in 0 .. DomainTTL THEN age + 1 ELSE age
Tick ==
    /\ pc = "idle" /\ told = Quiet      \* bound: diagnoses are much shorter than the TTL
    /\ cache' = [p \in Pred |-> [key \in Key |->
                    [cache[p][key] EXCEPT !.age = Older(@)]]]
    /\ world' = [p \in Pred |-> [world[p] EXCEPT !.since = Older(@)]]
    /\ UNCHANGED <<kind, writes, stmt, pc, probes, verdict, domain, told>>

\* The answer is given, and what it was made of is gone but for the cache.
Answer ==
    /\ pc = "idle" /\ told # Quiet
    /\ told' = Quiet /\ probes' = 0 /\ stmt' = NoStmt
    /\ verdict' = [p \in Pred |-> "untested"]
    /\ domain' = [p \in Pred |-> NoListing]
    /\ UNCHANGED <<kind, world, writes, cache, pc>>

Step ==
    \/ \E ok \in BOOLEAN : Count(ok) \/ Having(ok)
    \/ Counted \/ Sibling \/ List \/ Enumerate \/ Empty
    \/ \E telling, named \in SUBSET Pred, single \in BOOLEAN : Kill(telling, named, single)

Next ==
    \/ \E s \in Statement : Diagnose(s)
    \/ Step
    \/ \E p \in Pred, rows \in BOOLEAN : Write(p, rows)
    \/ \E p \in Pred, key \in Key : Others(p, key)
    \/ Tick
    \/ Answer

Spec == Init /\ [][Next]_vars

-----------------------------------------------------------------------------
(* An empty result that is called the correct answer has a predicate that  *)
(* was counted, and none that matches nothing, but for those that could not*)
(* be counted: a budget that runs out makes no answer of a mistake         *)
(* (diagnose_empty.py:700-735, 1500).                                      *)
NoFalseEmpty ==
    told.says = "genuinely_empty" =>
        /\ \A p \in stmt.of : world[p].matches \/ verdict[p] = "skipped"
        /\ \E p \in stmt.of : world[p].matches

(* A predicate that is called a likely mistake matches nothing that its    *)
(* column holds: of its own table, but for what was added while it was     *)
(* diagnosed; of a master that was listed whole, but for what was added    *)
(* within the life of a cache entry, if entries expire                     *)
(* (diagnose_empty.py:157-170, 960-1012, 1089-1164).  Of a master this is  *)
(* so of equalities only, for which there is the carve-out.                *)
AccusedIsAbsent ==
    \A p \in told.likely :
        world[p].listed =>
            IF kind[p].of = "own" THEN world[p].since = 0
            ELSE \/ ~domain[p].whole \/ kind[p].test \notin {"eq", "number"}
                 \/ DomainTTL = 0 \/ world[p].since <= DomainTTL

(* A value of the master list is never called a mistaken one (diagnose_    *)
(* empty.py:1089-1099).  The code does not meet it: a list, a pattern, a   *)
(* comparison is not looked up in the listing by what satisfies it (1100), *)
(* and is accused of a whole one (1196-1200).                              *)
ListedIsSpared ==
    \A p \in told.likely :
        world[p].listed /\ domain[p].whole => world[p].since <= DomainTTL

(* "0 rows, and this is the correct answer: none of them is a typo" is said*)
(* when every predicate was measured (diagnose_empty.py:726-731, 1498).    *)
(* The code does not meet it: once one matches, others whose probes failed *)
(* or that cannot be counted are passed over (1500), and a having whose    *)
(* probe failed is said to have been checked (1524).                       *)
CorrectIsChecked ==
    told.says = "genuinely_empty" => Said("skipped") = {}
=============================================================================
