------------------------------- MODULE Reads -------------------------------
(***************************************************************************)
(* How epicor_read pages (tools/read.py, tools/_engine.py,                 *)
(* tools/query_with_children.py) and what its answers say of their rows    *)
(* (response/formatter.py, _augment).  Five kinds of read of one table:    *)
(*   page     a plain read: one page and a cursor to the next              *)
(*   rollup   group_by/aggregate: pages are scanned, then aggregated       *)
(*   join     a parent and its child table, scanned up to the limit        *)
(*   joinroll the same, rolled up                                          *)
(*   count    count_only                                                   *)
(*                                                                         *)
(* A call is one chain of reads by a client: its first answer and those to *)
(* the cursors it follows.  Other users' writes may move the rows between  *)
(* two pages, and Epicor may time out or fail at each.                     *)
(***************************************************************************)
EXTENDS Integers, Sequences, FiniteSets, SequencesExt

CONSTANTS
    Calls, Kinds,
    MaxRows,        \* bound: the rows the table can have at first
    Changes,        \* bound: writes by others
    Limits,         \* the limits clients ask for; the largest is _MAX_LIMIT
    PageSize,       \* page_size of the scans
    MinPage,        \* _MIN_PAGE_SIZE
    MaxPages,       \* max_pages
    Keep,           \* settings.response_truncate_keep
    Offload         \* settings.response_offload_enabled

AllKinds == {"page", "rollup", "join", "joinroll", "count"}
Scans == {"rollup", "join", "joinroll"}

ASSUME ReadsAssumption ==
    /\ Kinds \subseteq AllKinds /\ MaxRows \in Nat /\ Changes \in Nat
    /\ Limits \subseteq Nat \ {0} /\ \E m \in Limits : \A l \in Limits : l <= m
    /\ PageSize \in Nat \ {0} /\ MinPage \in Nat \ {0} /\ MaxPages \in Nat \ {0}
    /\ Keep \in Nat \ {0} /\ Offload \in BOOLEAN

VARIABLES
    table,          \* external: the rows that match, in the order asked for
    writes,         \* external: how often others have changed them
    getrowsOnly,    \* _getrows_services: OData is no longer tried
    call

readVars == <<table, writes, getrowsOnly, call>>

MaxLimit == CHOOSE m \in Limits : \A l \in Limits : l <= m
RowId == 1 .. MaxRows + Changes

\* Where a call's coroutine waits: for OData, GetRows, OData under the plural
\* name, a page of a scan, its retry, or a count.
Waits == {"idle", "odata", "getrows", "plural", "page", "again", "count", "countrows"}
\* The last answer: there is a cursor; this is the complete result; this is
\* not; an error.
Said == {"nothing", "more", "complete", "partial", "error"}
\* Known ways to a false "complete" (see NothingMissing).
Flaw == {"relimited", "scan_error", "stopped_early", "offloaded", "uncounted"}

\* got: the rows the chain has accounted for, in order, as rows of an answer,
\* of a total, or as rows an answer said it dropped.  size, pages: of a scan.
\* moved: the table has changed under the chain.
Idle == [pc |-> "idle", kind |-> "page", limit |-> MaxLimit, skip |-> 0,
         size |-> PageSize, pages |-> 0, got |-> <<>>, said |-> "nothing",
         flaws |-> {}, moved |-> FALSE]

\* What is known of a chain.
Chains == [pc : Waits, kind : AllKinds, limit : Limits, skip : Nat,
           size : 1 .. IF PageSize > MinPage THEN PageSize ELSE MinPage,
           pages : 0 .. MaxPages - 1, got : Seq(RowId), said : Said,
           flaws : SUBSET Flaw, moved : BOOLEAN]

ReadsTypeOK ==
    /\ table \in Seq(RowId) /\ Len(table) <= MaxRows + writes
    /\ writes \in 0 .. Changes
    /\ getrowsOnly \in BOOLEAN
    /\ call \in [Calls -> Chains]

ReadsInit ==
    /\ table \in {[i \in 1 .. n |-> i] : n \in 0 .. MaxRows}
    /\ writes = 0
    /\ getrowsOnly \in BOOLEAN
    /\ call = [c \in Calls |-> Idle]

-----------------------------------------------------------------------------
(* What Epicor returns.                                                    *)

\* $skip and $top: the rows there are of them.
ODataRows(skip, top) ==
    SubSeq(table, skip + 1, IF skip + top < Len(table) THEN skip + top ELSE Len(table))

\* absolutePage is 1-based and counts pages of pageSize rows.
GetRowsRows(page, size) == ODataRows((page - 1) * size, size)

\* run_getrows: the page that holds row skip, less the rows before it, unless
\* there are no more than those.
SkippedRows(skip, top) ==
    LET page == skip \div top + 1
        remainder == skip - (page - 1) * top
        raw == GetRowsRows(page, top)
    IN  IF Len(raw) > remainder THEN SubSeq(raw, remainder + 1, Len(raw)) ELSE raw

\* Mutant: the rows before offset are not cut.
ScanPageUncut(offset, size) ==
    LET raw == GetRowsRows(offset \div size + 1, size)
    IN  [rows |-> raw, short |-> Len(raw) < size]

\* _fetch_page of a scan: the rows from offset on, and whether the page was
\* short, judged by the page as it came and not by what is left of it.
ScanPage(offset, size) ==
    LET page == offset \div size + 1
        remainder == offset - (page - 1) * size
        raw == GetRowsRows(page, size)
    IN  [rows |-> SubSeq(raw, remainder + 1, Len(raw)), short |-> Len(raw) < size]

-----------------------------------------------------------------------------
(* What an answer says.                                                    *)

\* format_response: how many of n rows are left when fit fit into the byte
\* budget: all; else Keep of them, halved until they fit; none at all if one
\* row is too large.
Shown(n, fit) ==
    LET capped[k \in 1 .. Keep] ==
            IF k <= fit \/ k = 1 THEN k ELSE capped[k \div 2]
        kept == capped[IF n < Keep THEN n ELSE Keep]
    IN  IF n <= fit THEN n ELSE IF kept <= fit THEN kept ELSE 0

\* Mutant: a page is measured by the rows that are left of it.
PageSaysShown(c, rows, fit) ==
    LET n == Len(rows) IN
    IF n > fit /\ Offload THEN "complete"
    ELSE IF n > fit /\ Shown(n, fit) = 0 THEN "error"
    ELSE IF Shown(n, fit) >= call[c].limit THEN "more"
    ELSE "complete"

\* _augment, of a page: a full page has a cursor, and a page that was cut to
\* fit is measured by what was fetched; a short one is the complete result.
\* Of an offloaded answer there is nothing to count.
PageSays(c, rows, fit) ==
    LET n == Len(rows) IN
    IF n > fit /\ Offload THEN "complete"
    ELSE IF n > fit /\ Shown(n, fit) = 0 THEN "error"
    ELSE IF n >= call[c].limit THEN "more"
    ELSE IF n > fit THEN "partial" ELSE "complete"

\* c's chain has this answer, after what it had before.
Answer(c, rows, says, flaws) ==
    call' = [call EXCEPT ![c].pc = "idle", ![c].got = @ \o rows,
                         ![c].said = says, ![c].flaws = @ \cup flaws]

AnswerError(c) == Answer(c, <<>>, "error", {})

\* A page of records is formatted and answered; how wide its rows are decides
\* how many fit.
AnswerPage(c, rows, flaws) ==
    \E fit \in 0 .. Len(rows) :
        Answer(c, rows, PageSays(c, rows, fit),
               flaws \cup IF Offload /\ fit < Len(rows) THEN {"offloaded"} ELSE {})

-----------------------------------------------------------------------------
(* Plain reads.                                                            *)

\* run: limit is clamped to _MAX_LIMIT; heavy services and those that are
\* known to need it go to GetRows.
Send(c, kind, limit, skip, got, flaws, moved) ==
    call' = [call EXCEPT ![c] =
        [Idle EXCEPT !.kind = kind, !.limit = limit, !.skip = skip, !.got = got,
                     !.flaws = flaws, !.moved = moved,
                     !.pc = IF kind \in Scans THEN "page"
                            ELSE IF kind = "count" THEN "count"
                            ELSE IF getrowsOnly THEN "getrows" ELSE "odata"]]

\* A first read; and one that resumes from a cursor, perhaps with a limit of
\* its own: an explicit limit wins over the cursor's (_effective_limit).
Read(c, kind, limit) ==
    /\ call[c].pc = "idle"
    /\ Send(c, kind, limit, 0, <<>>, {}, FALSE)
    /\ UNCHANGED <<table, writes, getrowsOnly>>

Resume(c, limit) ==
    LET k == call[c] IN
    /\ k.pc = "idle" /\ k.said = "more"
    /\ Send(c, "page", limit, k.skip + k.limit, k.got, k.flaws, k.moved)
    /\ UNCHANGED <<table, writes, getrowsOnly>>

ODataReply(c) ==
    /\ call[c].pc = "odata"
    /\ AnswerPage(c, ODataRows(call[c].skip, call[c].limit), {})
    /\ UNCHANGED <<table, writes, getrowsOnly>>

\* The segment is not found, or Epicor apologises: the service is remembered
\* as one for GetRows and the read sent there.  Any other error is answered.
ODataFails(c) ==
    /\ call[c].pc = "odata"
    /\ \/ /\ getrowsOnly' = TRUE
          /\ call' = [call EXCEPT ![c].pc = "getrows"]
       \/ /\ AnswerError(c)
          /\ UNCHANGED getrowsOnly
    /\ UNCHANGED <<table, writes>>

GetRowsReply(c) ==
    /\ call[c].pc = "getrows"
    /\ AnswerPage(c, SkippedRows(call[c].skip, call[c].limit),
                  IF call[c].skip % call[c].limit # 0 THEN {"relimited"} ELSE {})
    /\ UNCHANGED <<table, writes, getrowsOnly>>

\* GetRows apologises as well: OData is tried under the plural name, once.
GetRowsFails(c) ==
    /\ call[c].pc = "getrows"
    /\ \/ call' = [call EXCEPT ![c].pc = "plural"]
       \/ AnswerError(c)
    /\ UNCHANGED <<table, writes, getrowsOnly>>

PluralReply(c) ==
    /\ call[c].pc = "plural"
    /\ \/ AnswerPage(c, ODataRows(call[c].skip, call[c].limit), {})
       \/ AnswerError(c)
    /\ UNCHANGED <<table, writes, getrowsOnly>>

-----------------------------------------------------------------------------
(* Scans.                                                                  *)

\* A join has at most limit rows left, and says so (limit_trim), and says so if
\* it was cut at max_pages; of nothing else.  A rollup says if it is partial.
ScanSays(c, rows, how) ==
    LET trimmed == call[c].kind = "join" /\ Len(call[c].got \o rows) > call[c].limit
    IN  IF trimmed \/ how = "ceiling" \/ (call[c].kind = "rollup" /\ how # "exhausted")
        THEN "partial" ELSE "complete"

EndScan(c, rows, how) ==
    Answer(c, rows, ScanSays(c, rows, how),
           IF call[c].kind # "rollup" THEN {how} \cap Flaw ELSE {})

\* A page has come: the scan ends with a short one, at max_pages, or, of an
\* unordered join, when it has as many rows as were asked for.
ScanReply(c) ==
    LET k == call[c]
        page == ScanPage(Len(k.got), k.size)
        enough == k.kind = "join" /\ Len(k.got \o page.rows) >= k.limit
    IN  /\ k.pc \in {"page", "again"}
        /\ IF page.short THEN EndScan(c, page.rows, "exhausted")
           ELSE IF enough THEN EndScan(c, page.rows, "stopped_early")
           ELSE IF k.pages + 1 = MaxPages THEN EndScan(c, page.rows, "ceiling")
           ELSE call' = [call EXCEPT ![c].pc = "page", ![c].got = @ \o page.rows,
                                     ![c].pages = @ + 1]
        /\ UNCHANGED <<table, writes, getrowsOnly>>

\* An error: with nothing gathered it is the answer, else the scan ends.
ScanFails(c) ==
    /\ call[c].pc \in {"page", "again"}
    /\ IF call[c].pages = 0 THEN AnswerError(c) ELSE EndScan(c, <<>>, "scan_error")
    /\ UNCHANGED <<table, writes, getrowsOnly>>

\* A time-out: the page is halved, for good, and the same offset tried again:
\* once, of a rollup; of a join as long as the halves are pages as well.
Half(size) == IF size \div 2 > MinPage THEN size \div 2 ELSE MinPage
ScanTimesOut(c) ==
    LET k == call[c] IN
    /\ k.pc = "page"
    /\ k.kind # "rollup" => Half(k.size) < k.size /\ Len(k.got) % Half(k.size) = 0
    /\ call' = [call EXCEPT ![c].size = Half(k.size),
                            ![c].pc = IF k.kind = "rollup" THEN "again" ELSE "page"]
    /\ UNCHANGED <<table, writes, getrowsOnly>>

-----------------------------------------------------------------------------
(* Counts.                                                                 *)

\* $count is exact.  When it fails under every name, the rows of one GetRows
\* page are counted, and said to be no more than a bound if the page is full;
\* when that fails too there is no count, and the answer says that there is.
CountReply(c) ==
    /\ call[c].pc \in {"count", "countrows"}
    /\ LET rows == IF call[c].pc = "count" THEN table ELSE GetRowsRows(1, MaxLimit)
       IN  Answer(c, rows, IF call[c].pc = "countrows" /\ Len(rows) >= MaxLimit
                           THEN "partial" ELSE "complete", {})
    /\ UNCHANGED <<table, writes, getrowsOnly>>

CountFails(c) ==
    /\ \/ /\ call[c].pc = "count"
          /\ call' = [call EXCEPT ![c].pc = "countrows"]
       \/ /\ call[c].pc = "countrows"
          /\ Answer(c, <<>>, "complete", {"uncounted"})
    /\ UNCHANGED <<table, writes, getrowsOnly>>

-----------------------------------------------------------------------------
\* Another user's write inserts a row, or deletes one, anywhere.
Write ==
    /\ writes < Changes
    /\ writes' = writes + 1
    /\ \/ \E i \in 1 .. Len(table) + 1 : table' = InsertAt(table, i, MaxRows + writes')
       \/ \E i \in 1 .. Len(table) : table' = RemoveAt(table, i)
    /\ call' = [c \in Calls |-> [call[c] EXCEPT !.moved = TRUE]]
    /\ UNCHANGED getrowsOnly

\* What Epicor, or the HTTP client's time-out, makes of a call that waits.
Reply(c) ==
    \/ ODataReply(c) \/ ODataFails(c) \/ GetRowsReply(c) \/ GetRowsFails(c) \/ PluralReply(c)
    \/ ScanReply(c) \/ ScanFails(c) \/ ScanTimesOut(c)
    \/ CountReply(c) \/ CountFails(c)

ReadsNext ==
    \/ \E c \in Calls, kind \in Kinds, limit \in Limits : Read(c, kind, limit)
    \/ \E c \in Calls, limit \in Limits : Resume(c, limit)
    \/ \E c \in Calls : Reply(c)
    \/ Write

ReadsSpec == ReadsInit /\ [][ReadsNext]_readVars

-----------------------------------------------------------------------------
(* What an answer that calls itself complete has, it has: over the whole   *)
(* chain, every row of the table, once and in order, shown or said to be   *)
(* dropped (read.py:1016, 1085; _engine.py:652).  Nothing is said of a     *)
(* table that changes under the chain, and the five flaws are excepted.    *)
NothingMissing ==
    \A c \in Calls :
        call[c].said = "complete" /\ ~call[c].moved /\ call[c].flaws = {}
            => call[c].got = table

(* Whatever fails, times out or is resized on the way, a chain or a scan   *)
(* never skips or repeats a row: what it has is a prefix of the table.     *)
PrefixOnly ==
    \A c \in Calls :
        ~call[c].moved /\ call[c].flaws = {} => IsPrefix(call[c].got, table)
=============================================================================
