------------------------------ MODULE QueryPipe ------------------------------
(***************************************************************************)
(* One call of the ad-hoc query pipe, run_sql of sql/adhoc.py: a statement *)
(* is bounded and rewritten, parsed by Epicor, gated on what the parse     *)
(* says it reads, run once, and its page is said to be the complete result *)
(* or not; an empty first page is diagnosed by probes, which run through a *)
(* pipe of their own.  A statement with a sort key that is too long is     *)
(* rewritten and put through the whole pipe again.                         *)
(*                                                                         *)
(* An action ends where the code awaits Epicor.  What a text reads is what *)
(* Epicor's parse of it says, for the statement asked for, for a rewritten *)
(* one and for a probe alike.  The budget and the slots are Governor's,    *)
(* and the scope is given to a call by TableScope.                         *)
(***************************************************************************)
EXTENDS Integers, Sequences, FiniteSets

CONSTANTS
    Table,
    Denied,         \* the tables of the deny-list
    NoGate,         \* the scope of a call when nothing is gated (check_table_scope)
    Forms,          \* bound: the shapes of the statements
    Branches,       \* bound: the rows a branch of a statement can have
    Tops,           \* bound: the row bounds callers write
    Sizes,          \* bound: the page sizes callers ask for
    Pages,          \* bound: the pages callers ask for
    MaxPageSize,    \* MAX_PAGE_SIZE
    ProbeBudget     \* settings.sql_diagnose_probe_budget

\* What a select is to the pass that bounds it: plain; distinct; a grand
\* total; or scalar, whose aggregates all stand in subqueries or windows, so
\* that it has a row for each row it reads, and is taken for a grand total.
Kind == {"plain", "distinct", "total", "scalar"}
SetOp == {"union_all", "union", "intersect", "except"}

ASSUME PipeAssumption ==
    /\ Denied \subseteq Table
    /\ Forms \subseteq [op : SetOp \cup {"none"}, of : Kind \X Kind]
    /\ Branches \subseteq Seq(Nat) /\ Tops \subseteq Nat \ {0}
    /\ MaxPageSize \in Nat \ {0} /\ Sizes \subseteq 1 .. MaxPageSize
    /\ Pages \subseteq Nat \ {0} /\ ProbeBudget \in Nat

NoTop == 0              \* the caller wrote no row bound
NoBound == 0            \* the statement cannot carry one

VARIABLES
    ask,        \* what the caller asked for
    granted,    \* what its session may read, as resolved for this call
    pc,         \* where run_sql waits
    scope,      \* run_sql's table_scope
    pass,       \* which pass of the pipe this is: the second one is _sort_wrapped
    tables,     \* what the statement, or the probe, that is under way reads
    sent,       \* calls to Epicor so far, probes aside
    probes,     \* probes so far
    answer      \* what the caller is told

vars == <<ask, granted, pc, scope, pass, tables, sent, probes, answer>>

\* A statement: a select (twice the same, here), or a set operation of two,
\* with the caller's row bound on each plain one.  Longer chains of them, and
\* a select over one in a derived table, are left out.
Asks ==
    { a \in [op : SetOp \cup {"none"}, of : Kind \X Kind, rows : Branches \X Branches,
             top : Tops \cup {NoTop}, size : Sizes, page : Pages] :
        /\ [op |-> a.op, of |-> a.of] \in Forms
        /\ a.op = "none" => a.rows[1] = a.rows[2] /\ a.of[1] = a.of[2]
        /\ a.top # NoTop => \E i \in 1 .. 2 : a.of[i] = "plain" }

Pc == {"called", "parse", "execute", "analyze", "reanalyze",
       "diagnose", "probe_parse", "probe_execute", "done"}

TypeOK ==
    /\ ask \in Asks
    /\ granted \in {NoGate} \cup SUBSET Table /\ scope \in {NoGate} \cup SUBSET Table
    /\ pc \in Pc
    /\ pass \in 1 .. 2
    /\ tables \subseteq Table
    /\ sent \in [parse : Nat, execute : Nat, analyze : Nat]
    /\ probes \in 0 .. ProbeBudget
    /\ answer.says \in {"nothing", "refused", "unreachable", "rows"}

-----------------------------------------------------------------------------
(* Row bounds and pages.                                                   *)

Least(m, n) == IF m <= n THEN m ELSE n
First(n, s) == SubSeq(s, 1, Least(n, Len(s)))

\* The values of a sequence that are in a set, each once.
Distinct(s, set) ==
    LET new    == {i \in DOMAIN s : s[i] \in set /\ \A j \in 1 .. i - 1 : s[j] # s[i]}
        nth(k) == CHOOSE i \in new : Cardinality({j \in new : j <= i}) = k
    IN  [k \in 1 .. Cardinality(new) |-> s[nth(k)]]

Values(s) == {s[i] : i \in DOMAIN s}

\* _bound_one: a bound is injected into a plain branch without one, and one
\* that is too large is clamped.
BranchBound(a) == IF a.top = NoTop THEN a.size ELSE Least(a.top, MaxPageSize)

\* How many rows a branch can return, as far as the server knows.
Limit(a, i) ==
    CASE a.of[i] = "plain" -> BranchBound(a)
      [] a.of[i] = "distinct" -> NoBound
      [] OTHER -> 1

\* _pass_row_bound, _combine_branch_bounds: and the statement.
Bound(a) ==
    CASE a.op = "none" -> Limit(a, 1)
      [] a.op # "none" /\ (Limit(a, 1) = NoBound \/ Limit(a, 2) = NoBound) -> NoBound
      [] OTHER -> Limit(a, 1) + Limit(a, 2)

\* What a branch makes, when a plain one is cut at n rows.
Branch(a, i, n) ==
    CASE a.of[i] = "plain" -> First(n, a.rows[i])
      [] a.of[i] = "distinct" -> Distinct(a.rows[i], Nat)
      [] a.of[i] = "total" -> <<Len(a.rows[i])>>
      [] a.of[i] = "scalar" -> a.rows[i]

\* What the statement makes of them.
Combined(op, u, v) ==
    CASE op = "none" -> u
      [] op = "union_all" -> u \o v
      [] op = "union" -> Distinct(u \o v, Nat)
      [] op = "intersect" -> Distinct(u, Values(v))
      [] op = "except" -> Distinct(u, Nat \ Values(v))

Rows(a, n) == Combined(a.op, Branch(a, 1, n), Branch(a, 2, n))

Whole(a) == Len(a.rows[1] \o a.rows[2])
Asked(a) == Rows(a, IF a.top = NoTop THEN Whole(a) ELSE a.top)
From(a) == a.size * (a.page - 1) + 1

\* Epicor bounds the result first, and takes the page inside it.
Page(a) ==
    LET rows == Rows(a, BranchBound(a))
    IN  SubSeq(rows, From(a), Least(From(a) + a.size - 1, Len(rows)))

\* Mutant: a page whose first row is the last is refused.
UnreachableOffByOne(a) == a.page > 1 /\ Bound(a) # NoBound /\ Bound(a) <= From(a)

\* _page_reachability_refusal.
Unreachable(a) == a.page > 1 /\ Bound(a) # NoBound /\ Bound(a) < From(a)

\* Mutant: a full page is taken for the last.
CompleteFull(a, got, dropped) ==
    /\ got + dropped <= a.size
    /\ dropped = 0
    /\ ~(a.page > 1 /\ got = 0)

\* A page is the complete result unless it is full, rows of it were dropped
\* to fit into the answer, or it is an empty later page.
Complete(a, got, dropped) ==
    /\ got + dropped < a.size
    /\ dropped = 0
    /\ ~(a.page > 1 /\ got = 0)

-----------------------------------------------------------------------------
Nothing == [says |-> "nothing", rows |-> <<>>, complete |-> FALSE]
NoCalls == [parse |-> 0, execute |-> 0, analyze |-> 0]

Init ==
    /\ ask \in Asks
    /\ granted \in {NoGate} \cup SUBSET Table /\ scope = granted
    /\ pc = "called"
    /\ pass = 1
    /\ tables = {}
    /\ sent = NoCalls
    /\ probes = 0
    /\ answer = Nothing

Tell(what) ==
    /\ pc' = "done"
    /\ answer' = [Nothing EXCEPT !.says = what]
    /\ tables' = {}

Refuse == Tell("refused")

\* run_sql down to the parse: a budget that is spent, a statement that is not
\* a read or cannot be rewritten, a page that cannot hold rows and a column
\* that does not exist are refused without a call.
Enter(a, n) ==
    IF Unreachable(a) THEN Tell("unreachable") /\ sent' = n
    ELSE \/ Refuse /\ sent' = n
         \/ pc' = "parse" /\ sent' = [n EXCEPT !.parse = @ + 1] /\ tables' = {}
            /\ answer' = Nothing

\* The tool calls run_sql with the scope of the session (TableScope).
Start ==
    /\ pc = "called"
    /\ Enter(ask, NoCalls)
    /\ UNCHANGED <<ask, granted, scope, pass, probes>>

\* check_parsed_ds and check_table_scope, of what a parse says it reads; a
\* parse in which no table can be found is refused by the scope gate.
Gate(reads) ==
    /\ reads \cap Denied = {}
    /\ scope # NoGate => reads # {} /\ reads \subseteq scope

\* Mutant: the wrapped statement is run without the caller's scope.
ReenterUnscoped ==
    /\ pass = 1 /\ ask.op = "none" /\ ask.of[1] # "distinct"
    /\ pass' = 2
    /\ scope' = NoGate
    /\ Enter(ask, sent)

\* A key that is too long is moved into a CTE, once, of a select that is not
\* distinct, and the statement put through the pipe from its start.  A total
\* or a scalar one is then bounded like a plain one, at a page: only its first
\* page comes this far, so nothing else of it changes.
Reenter ==
    /\ pass = 1 /\ ask.op = "none" /\ ask.of[1] # "distinct"
    /\ pass' = 2
    /\ Enter(ask, sent)
    /\ UNCHANGED scope

\* Epicor parses the statement: the gates, the sort key, then the lint and the
\* cost rules, which may refuse it; what is left is executed.
ParseReply(reads, long) ==
    /\ pc = "parse"
    /\ IF ~Gate(reads) THEN Refuse /\ UNCHANGED <<scope, pass, sent>>
       ELSE IF long
       THEN \/ Reenter
            \/ Refuse /\ UNCHANGED <<scope, pass, sent>>
       ELSE \/ Refuse /\ UNCHANGED <<scope, pass, sent>>
            \/ /\ pc' = "execute" /\ tables' = reads
               /\ sent' = [sent EXCEPT !.execute = @ + 1]
               /\ UNCHANGED <<scope, pass, answer>>
    /\ UNCHANGED <<ask, granted, probes>>

\* The statement cannot be parsed, its execution fails, or the call of either
\* does, or takes too long.
Fail ==
    /\ pc \in {"parse", "execute"}
    /\ Refuse
    /\ UNCHANGED <<ask, granted, scope, pass, sent, probes>>

\* It ran, and failed: Analyze is asked why; and again, without the order by,
\* when it hides the reason.
ExecuteErrors ==
    /\ pc = "execute"
    /\ pc' = "analyze"
    /\ sent' = [sent EXCEPT !.analyze = @ + 1]
    /\ UNCHANGED <<ask, granted, scope, pass, tables, probes, answer>>

Analyzed ==
    /\ \/ pc = "analyze" /\ pc' = "reanalyze" /\ sent' = [sent EXCEPT !.analyze = @ + 1]
          /\ UNCHANGED <<tables, answer>>
       \/ pc \in {"analyze", "reanalyze"} /\ Refuse /\ UNCHANGED sent
    /\ UNCHANGED <<ask, granted, scope, pass, probes>>

\* The rows come, and as many of them as fit are answered with; an empty first
\* page is diagnosed if that is on.
ExecuteReply(fit, diagnose) ==
    LET rows == Page(ask)
        got == Least(fit, Len(rows))
    IN  /\ pc = "execute"
        /\ answer' = [says |-> "rows", rows |-> First(got, rows),
                      complete |-> Complete(ask, got, Len(rows) - got)]
        /\ pc' = IF diagnose /\ rows = <<>> /\ ask.page = 1 THEN "diagnose" ELSE "done"
        /\ tables' = {}
        /\ UNCHANGED <<ask, granted, scope, pass, sent, probes>>

-----------------------------------------------------------------------------
(* The probes of diagnose_empty: whatever it asks, make_probe_runner sends. *)

SendProbe ==
    /\ pc = "diagnose" /\ probes < ProbeBudget
    /\ pc' = "probe_parse" /\ probes' = probes + 1
    /\ UNCHANGED <<ask, granted, scope, pass, tables, sent, answer>>

ProbeParsed(reads) ==
    /\ pc = "probe_parse"
    /\ IF Gate(reads) THEN pc' = "probe_execute" /\ tables' = reads
       ELSE pc' = "diagnose" /\ UNCHANGED tables
    /\ UNCHANGED <<ask, granted, scope, pass, sent, probes, answer>>

\* A probe has its answer, or fails.
ProbeDone ==
    /\ pc \in {"probe_parse", "probe_execute"}
    /\ pc' = "diagnose" /\ tables' = {}
    /\ UNCHANGED <<ask, granted, scope, pass, sent, probes, answer>>

\* The diagnosis is added to the answer; it changes nothing that it says of
\* its rows.
Diagnosed ==
    /\ pc = "diagnose"
    /\ pc' = "done"
    /\ UNCHANGED <<ask, granted, scope, pass, tables, sent, probes, answer>>

Next ==
    \/ Start
    \/ \E reads \in SUBSET Table, long \in BOOLEAN : ParseReply(reads, long)
    \/ Fail \/ ExecuteErrors \/ Analyzed
    \/ \E fit \in 0 .. MaxPageSize, diagnose \in BOOLEAN : ExecuteReply(fit, diagnose)
    \/ SendProbe
    \/ \E reads \in SUBSET Table : ProbeParsed(reads)
    \/ ProbeDone \/ Diagnosed

Spec == Init /\ [][Next]_vars

-----------------------------------------------------------------------------
(* Whatever is executed or analysed, the statement, the statement Epicor   *)
(* was given in its place or a probe of it, reads only tables that are not *)
(* denied and that the session may read: rewriting comes before the gates, *)
(* and a second pass has the gates of the first (adhoc.py:832-911, 595-606).*)
OnlyGatedRuns ==
    pc \in {"execute", "analyze", "reanalyze", "probe_execute"} =>
        /\ tables \cap Denied = {}
        /\ granted # NoGate => tables \subseteq granted

(* However a statement is rewritten or fails, it is given to Epicor to     *)
(* parse at most twice, to run at most once and to analyse at most twice; a*)
(* page refused as out of reach costs no call at all, no rows are told but *)
(* of a run, and only such a run is probed, within the budget, each probe a*)
(* parse and a run more (adhoc.py:877-912, diagnose_empty.py).  A call here*)
(* is one the pipe makes: the HTTP client may send each up to three times  *)
(* (http_client.py:299-331).                                               *)
CallsBounded ==
    /\ sent.parse <= 2 /\ sent.execute <= 1 /\ sent.analyze <= 2
    /\ answer.says = "unreachable" => sent = NoCalls
    /\ answer.says = "rows" => sent.execute = 1
    /\ probes <= ProbeBudget
    /\ probes > 0 => answer.says = "rows" /\ sent.analyze = 0

\* The server's own bound has cut a branch.
Cut(a) ==
    \E i \in 1 .. 2 :
        /\ a.of[i] = "plain"
        /\ Len(First(IF a.top = NoTop THEN Whole(a) ELSE a.top, a.rows[i])) > BranchBound(a)

(* A page that is said to be the complete result leaves nothing of what    *)
(* was asked for behind it (adhoc.py:1099-1140).  Two ways to a false one  *)
(* are known and excepted, both of a statement that the server cut itself  *)
(* (transpile.py:1682-1725): its later pages, and any page of a set        *)
(* operation that removes rows, which may have fewer than a page left, and,*)
(* of an except, rows that are not in the true result.                     *)
CompleteIsWhole ==
    (/\ answer.says = "rows" /\ answer.complete
     /\ ~(Cut(ask) /\ (ask.page > 1 \/ ask.op \in {"union", "intersect", "except"})))
        => answer.rows = SubSeq(Asked(ask), From(ask), Len(Asked(ask)))

(* A page that is refused as out of reach is empty: the bound that the     *)
(* refusal is computed from is one the statement keeps (adhoc.py:470-547). *)
(* A select that is only taken for a grand total does not keep it, and is  *)
(* excepted (_is_agg, transpile.py:493-494, 1799-1802).                    *)
RefusedPagesEmpty ==
    answer.says = "unreachable" /\ (\A i \in 1 .. 2 : ask.of[i] # "scalar")
        => Page(ask) = <<>>

(* A later page of a statement the server bounded is refused, because it   *)
(* cannot discover additional rows (design.md:125): one that is served and *)
(* calls itself complete leaves nothing behind it.  The code does not meet *)
(* it: a bound above MAX_PAGE_SIZE is clamped, and what was cut is not     *)
(* known to the page (adhoc.py:1106).                                      *)
LaterPagesHonest ==
    answer.says = "rows" /\ answer.complete /\ ask.page > 1
        => answer.rows = SubSeq(Asked(ask), From(ask), Len(Asked(ask)))
=============================================================================
