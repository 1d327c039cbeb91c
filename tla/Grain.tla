------------------------------- MODULE Grain -------------------------------
(***************************************************************************)
(* The cardinality test of sql/grain.py.  A statement joins sources; given *)
(* those that a measure or a projection reads, the test propagates what    *)
(* their rows fix, through equalities and candidate keys, and warns of     *)
(* each source that stays free: it repeats the rows that were asked for,   *)
(* and Epicor reports nothing.  The code passes over the equalities and    *)
(* the tables until nothing changes; here one inference is a step, and     *)
(* they come in any order.                                                 *)
(*                                                                         *)
(* The reference is what a result may hold: two rows of it, described by   *)
(* the columns on which they agree and by the sources they have no row of. *)
(***************************************************************************)
EXTENDS Integers, FiniteSets

CONSTANTS
    Sources,      \* how many sources are joined; the first is the driver
    Column,       \* columns of a table
    Company,      \* in every key of Erp, constant in a single-company install
    Keys,         \* candidate keys of each source; none: its grain is unknown
    Lefts,        \* which sources are LEFT JOINed
    Ons,          \* the conjuncts of each source's ON
    Wheres        \* the conjuncts of the WHERE

Source == 1 .. Sources

Ref == Source \X Column

(* The conjuncts that the test reads: {r} compares a column with a         *)
(* constant, {q, r} two columns of two sources.                            *)
Conjunct == {{q, r} : q \in Ref, r \in Ref}

(* A company is compared with a company.                                   *)
Readable(c) ==
    /\ c \in Conjunct
    /\ \A q, r \in c : q # r => q[1] # r[1] /\ (q[2] = Company <=> r[2] = Company)

Statement == [keys : Keys, left : Lefts, on : Ons, where : Wheres]

ASSUME GrainAssumption ==
    /\ Sources \in Nat \ {0}
    /\ IsFiniteSet(Column) /\ Company \in Column
    /\ Keys \subseteq [Source -> SUBSET ((SUBSET Column) \ {{}})]
    /\ Lefts \subseteq SUBSET Source
    /\ Ons \subseteq [Source -> SUBSET Conjunct]
    /\ \A on \in Ons : \A n \in Source : \A c \in on[n] : Readable(c)
    /\ \A where \in Wheres : \A c \in where : Readable(c)

VARIABLES
    stmt,         \* the statement
    fixed,        \* the sources whose rows are held fixed
    known,        \* columns of which the value is then known
    determined,   \* sources of which the row is then known
    pc,
    fans,         \* sources that multiply the fixed rows
    companyOnly   \* sources that only lack a predicate on Company

vars == <<stmt, fixed, known, determined, pc, fans, companyOnly>>

-----------------------------------------------------------------------------
(* ---- The test ---- *)

(* Outer or inner, an ON is read as a condition of the result.             *)
Conditions == stmt.where \cup UNION {stmt.on[n] : n \in Source}

Keyed == {n \in Source : stmt.keys[n] # {}}

\* Mutant: a determined row does not make its columns known.
IsKnownColumn(r) == r \in known

IsKnown(r) == r[1] \in determined \/ r \in known

\* Mutant: part of a key is enough.
BoundInPart(n, k) == \E c \in k : IsKnown(<<n, c>>)

Bound(n, k) == \A c \in k : IsKnown(<<n, c>>)

Undetermined == Keyed \ determined

(* What each candidate key of a source lacks.                              *)
Gaps(n) == {{c \in k : <<n, c>> \notin known} : k \in stmt.keys[n]}

(* A tie goes by the order of the key file.                                *)
Smallest(n) == {g \in Gaps(n) : \A h \in Gaps(n) : Cardinality(g) <= Cardinality(h)}

Init ==
    /\ stmt \in Statement
    /\ fixed \in (SUBSET Keyed) \ {{}}
    /\ known = {r \in Ref : {r} \in Conditions}
    /\ determined = fixed
    /\ pc = "closing"
    /\ fans = {} /\ companyOnly = {}

Learn(q, r) ==
    /\ pc = "closing"
    /\ {q, r} \in Conditions
    /\ IsKnown(q) /\ ~IsKnown(r)
    /\ known' = known \cup {r}
    /\ UNCHANGED <<stmt, fixed, determined, pc, fans, companyOnly>>

Determine(n) ==
    /\ pc = "closing"
    /\ n \in Undetermined
    /\ \E k \in stmt.keys[n] : Bound(n, k)
    /\ determined' = determined \cup {n}
    /\ UNCHANGED <<stmt, fixed, known, pc, fans, companyOnly>>

Closed ==
    /\ \A q, r \in Ref : {q, r} \in Conditions => (IsKnown(q) => IsKnown(r))
    /\ \A n \in Undetermined : \A k \in stmt.keys[n] : ~Bound(n, k)

Judge ==
    /\ pc = "closing"
    /\ Closed
    /\ companyOnly' \in SUBSET Undetermined
    /\ \A n \in Undetermined :
          \E best \in Smallest(n) : n \in companyOnly' <=> best \subseteq {Company}
    /\ fans' = Undetermined \ companyOnly'
    /\ pc' = "judged"
    /\ UNCHANGED <<stmt, fixed, known, determined>>

Next ==
    \/ \E q, r \in Ref : Learn(q, r)
    \/ \E n \in Source : Determine(n)
    \/ Judge

Spec == Init /\ [][Next]_vars

TypeOK ==
    /\ stmt \in Statement
    /\ fixed \in SUBSET Keyed
    /\ known \in SUBSET Ref
    /\ determined \in SUBSET Keyed
    /\ pc \in {"closing", "judged"}
    /\ fans \in SUBSET Keyed /\ companyOnly \in SUBSET Keyed

-----------------------------------------------------------------------------
(* ---- The reference: two rows of a result ---- *)

(* same[n]: the columns on which the two rows agree in their rows of       *)
(* source n, in an install of one company; gone[i]: the LEFT JOINed        *)
(* sources that row i has no row of, NULL in all their columns.            *)
Pair == [same : [Source -> {{}} \cup {S \in SUBSET Column : Company \in S}],
         gone : [1 .. 2 -> SUBSET stmt.left]]

InBoth(p, n) == n \notin p.gone[1] /\ n \notin p.gone[2]

InNone(p, n) == n \in p.gone[1] /\ n \in p.gone[2]

Agree(p, r) == r[2] \in p.same[r[1]]

(* Where an equality holds of both rows they agree on its two columns or   *)
(* on neither, and a constant is one value.                                *)
Holds(p, c) ==
    /\ \A r \in c : InBoth(p, r[1])
    /\ \A q, r \in c : Agree(p, q) => Agree(p, r)
    /\ \A r \in c : c = {r} => Agree(p, r)

(* The rows of a source are of a table that has its keys.  It is left out  *)
(* of one of the two only if they differ in something that its ON refers   *)
(* to, and with it what is joined on it.                                   *)
Joined(p, n) ==
    /\ InBoth(p, n) =>
          /\ Company \in p.same[n]
          /\ \A k \in stmt.keys[n] : k \subseteq p.same[n] => p.same[n] = Column
          /\ \A c \in stmt.on[n] : Holds(p, c)
    /\ InNone(p, n) => p.same[n] = Column
    /\ ~InBoth(p, n) /\ ~InNone(p, n) =>
          /\ p.same[n] = {}
          /\ \E c \in stmt.on[n] : \E r \in c : r[1] # n /\ ~Agree(p, r)
    /\ \A i \in 1 .. 2 : n \notin p.gone[i] =>
          \A c \in stmt.on[n] : \A r \in c : r[1] \notin p.gone[i]

(* Two rows of a result of the statement with the same fixed rows.         *)
Result(p) ==
    /\ \A n \in Source : Joined(p, n)
    /\ \A c \in stmt.where : Holds(p, c)
    /\ \A n \in fixed : InBoth(p, n) /\ p.same[n] = Column

(* LEFT JOINs as the reads of Epicor write them: a column of the source,   *)
(* in each of its keys, equals one of an earlier source, or a column is    *)
(* compared with a constant; no column twice.                              *)
Plain ==
    \A n \in stmt.left : \A c \in stmt.on[n] : \E x \in Column :
        /\ \A d \in stmt.on[n] : <<n, x>> \in d => d = c
        /\ \/ c = {<<n, x>>}
           \/ /\ \A k \in stmt.keys[n] : x \in k
              /\ \E m \in 1 .. n - 1, y \in Column : c = {<<n, x>>, <<m, y>>}

(* No warning means no repetition: if no source is said to multiply the    *)
(* fixed rows, and all have known keys, two different rows of the result   *)
(* never have the same fixed rows, in a single-company install.  To make   *)
(* "a fanning join look safe ... is the one direction this module must     *)
(* never fail in" (grain.py:335).  LEFT JOINs that are not plain are left  *)
(* out: their ON says nothing of the rows that they match nothing with.    *)
NoMissedFanout ==
    pc = "judged" /\ fans = {} /\ Keyed = Source /\ Plain =>
        \A p \in Pair : Result(p) => \A n \in Source : p.same[n] = Column

(* A warning is about something that can happen: some result has two rows  *)
(* with the same fixed rows and different rows of every source warned of   *)
(* (grain.py:427).  When a source lacks only Company the test goes on as   *)
(* if that were free, and what it says of sources beyond it may not occur. *)
WarningsPossible ==
    pc = "judged" /\ (\A n \in Undetermined : {Company} \notin Gaps(n)) =>
        \E p \in Pair : Result(p) /\ \A n \in fans : p.same[n] # Column
=============================================================================
