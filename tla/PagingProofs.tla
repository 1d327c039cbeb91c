---------------------------- MODULE PagingProofs ----------------------------
(***************************************************************************)
(* Machine-checked proofs about the two ways a caller is given a result in *)
(* pages, and what it is told of them.                                     *)
(*                                                                         *)
(* QueryPipe, for any tables, deny-list and scope, any bounds, pages and   *)
(* probe budget, and whatever the statements, the rewritten ones and the   *)
(* probes read.  Carried along: the scope of the call is still the one it  *)
(* was granted; which calls to Epicor lie behind it, by where it waits     *)
(* (Behind); and what its answer says of its rows is so (Honest).          *)
(*                                                                         *)
(* Reads, for any number of chains, any table and limits, any page sizes   *)
(* and number of pages, whatever fails or times out and whenever others    *)
(* write.  Carried along: the part of the table that each chain has        *)
(* accounted for (Accounted).                                              *)
(***************************************************************************)
EXTENDS QueryPipe, Reads, FiniteSetTheorems, SequenceTheorems, TLAPS

-----------------------------------------------------------------------------
(* The query pipe.                                                         *)

Counts == [parse : Nat, execute : Nat, analyze : Nat]

\* The calls to Epicor that lie behind a call that waits at pc.
Behind ==
    /\ sent.parse <= pass
    /\ pc = "called" => sent = NoCalls
    /\ pc = "parse" => sent.execute = 0 /\ sent.analyze = 0
    /\ pc = "execute" => sent.execute = 1 /\ sent.analyze = 0
    /\ pc = "analyze" => sent.execute = 1 /\ sent.analyze = 1
    /\ sent.execute <= 1 /\ sent.analyze <= 2
    \* A page out of reach is refused before anything is sent.
    /\ pc \notin {"called", "done"} => ~Unreachable(ask)
    /\ answer.says = "unreachable" => sent = NoCalls
    /\ pc \in {"called", "parse", "execute", "analyze", "reanalyze"} =>
           answer = Nothing
    /\ answer.says = "rows" => sent.execute = 1
    \* Only a run that ended without an error is probed.
    /\ pc \in {"diagnose", "probe_parse", "probe_execute"} =>
           answer.says = "rows" /\ sent.analyze = 0
    /\ pc \in {"called", "parse", "execute", "analyze", "reanalyze"} => probes = 0
    /\ probes > 0 => answer.says = "rows" /\ sent.analyze = 0

IInv ==
    /\ TypeOK
    /\ scope = granted
    /\ OnlyGatedRuns
    /\ Behind

-----------------------------------------------------------------------------
LEMMA Answered ==
    /\ Nothing.says = "nothing"
    /\ \A w \in {"refused", "unreachable"} :
           [Nothing EXCEPT !.says = w].says = w
  BY DEF Nothing

LEMMA NothingSent ==
    /\ NoCalls \in Counts
    /\ NoCalls.parse = 0 /\ NoCalls.execute = 0 /\ NoCalls.analyze = 0
  BY DEF NoCalls, Counts

(* One more call of a kind leaves the other kinds as they were.            *)
LEMMA OneMore ==
    ASSUME NEW n \in Counts
    PROVE  /\ [n EXCEPT !.parse = @ + 1] \in Counts
           /\ [n EXCEPT !.parse = @ + 1].parse = n.parse + 1
           /\ [n EXCEPT !.parse = @ + 1].execute = n.execute
           /\ [n EXCEPT !.parse = @ + 1].analyze = n.analyze
           /\ [n EXCEPT !.execute = @ + 1] \in Counts
           /\ [n EXCEPT !.execute = @ + 1].parse = n.parse
           /\ [n EXCEPT !.execute = @ + 1].execute = n.execute + 1
           /\ [n EXCEPT !.execute = @ + 1].analyze = n.analyze
           /\ [n EXCEPT !.analyze = @ + 1] \in Counts
           /\ [n EXCEPT !.analyze = @ + 1].parse = n.parse
           /\ [n EXCEPT !.analyze = @ + 1].execute = n.execute
           /\ [n EXCEPT !.analyze = @ + 1].analyze = n.analyze + 1
  BY DEF Counts

LEMMA InitIInv == Init => IInv
  <1> SUFFICES ASSUME Init PROVE IInv
    OBVIOUS
  <1>1. TypeOK
    BY NothingSent, Answered, PipeAssumption DEF Init, TypeOK, Pc, Counts
  <1>2. scope = granted /\ OnlyGatedRuns
    BY DEF Init, OnlyGatedRuns
  <1>3. Behind
    BY NothingSent, Answered DEF Init, Behind
  <1>4. QED
    BY <1>1, <1>2, <1>3 DEF IInv

(* A call is told something without a run: nothing is under way any more.  *)
LEMMA TellKeeps ==
    ASSUME IInv, NEW w \in {"refused", "unreachable"}, Tell(w),
           w = "unreachable" => sent = NoCalls,
           UNCHANGED <<ask, granted, scope, sent, probes>>,
           pc \in {"called", "parse", "execute", "analyze", "reanalyze"},
           pass' \in 1 .. 2, pass <= pass'
    PROVE  IInv'
  <1>1. TypeOK'
    BY Answered DEF IInv, TypeOK, Tell, Pc
  <1>2. (scope = granted /\ OnlyGatedRuns)'
    BY DEF IInv, OnlyGatedRuns, Tell
  <1>3. Behind'
    <2>1. probes = 0 /\ probes' = probes
      BY DEF IInv, Behind
    <2>2. QED
      BY <2>1, Answered DEF IInv, TypeOK, Behind, Tell
  <1>4. QED
    BY <1>1, <1>2, <1>3 DEF IInv

(* run_sql is entered, from the tool or by itself.                         *)
LEMMA EnterKeeps ==
    ASSUME IInv, Enter(ask, sent), pc \in {"called", "parse"},
           UNCHANGED <<ask, granted, scope, probes>>,
           pc = "called" => UNCHANGED pass,
           pc = "parse" => pass = 1 /\ pass' = 2
    PROVE  IInv'
  <1>1. sent \in Counts /\ pass \in 1 .. 2 /\ pass' \in 1 .. 2 /\ pass <= pass'
    BY DEF IInv, TypeOK, Counts
  <1>2. CASE Unreachable(ask)
    <2>1. Tell("unreachable") /\ UNCHANGED sent
      BY <1>2 DEF Enter
    <2>2. sent = NoCalls
      BY <1>2 DEF IInv, Behind
    <2>3. QED
      BY <1>1, <2>1, <2>2, TellKeeps
  <1>3. CASE ~Unreachable(ask) /\ Refuse /\ sent' = sent
    BY <1>1, <1>3, TellKeeps DEF Refuse
  <1>4. CASE /\ ~Unreachable(ask)
             /\ pc' = "parse" /\ sent' = [sent EXCEPT !.parse = @ + 1]
             /\ tables' = {} /\ answer' = Nothing
    <2>1. /\ sent' \in Counts /\ sent'.parse = sent.parse + 1
          /\ sent'.execute = sent.execute /\ sent'.analyze = sent.analyze
      BY <1>1, <1>4, OneMore
    <2>2. sent.execute = 0 /\ sent.analyze = 0 /\ sent.parse \in Nat
          /\ sent.parse <= IF pc = "called" THEN 0 ELSE 1
      BY <1>1, NothingSent DEF IInv, Behind, Counts
    <2>3. sent'.parse <= pass'
      BY <2>1, <2>2, <1>1
    <2>4. TypeOK'
      BY <1>1, <1>4, <2>1, Answered DEF IInv, TypeOK, Pc, Counts
    <2>5. (scope = granted /\ OnlyGatedRuns)'
      BY <1>4 DEF IInv, OnlyGatedRuns
    <2>6. (Unreachable(ask)' <=> Unreachable(ask)) /\ probes' = 0
      BY DEF Unreachable, Bound, Limit, BranchBound, Least, From, IInv, Behind
    <2>7. Behind'
      BY <1>4, <2>1, <2>2, <2>3, <2>6, Answered DEF Behind
    <2>8. QED
      BY <2>4, <2>5, <2>7 DEF IInv
  <1>5. QED
    BY <1>2, <1>3, <1>4 DEF Enter

LEMMA Gated ==
    ASSUME IInv, NEW reads \in SUBSET Table, Gate(reads)
    PROVE  reads \cap Denied = {} /\ (granted # NoGate => reads \subseteq granted)
  BY DEF IInv, Gate

LEMMA ParseReplyKeeps ==
    ASSUME IInv, NEW reads \in SUBSET Table, NEW long \in BOOLEAN,
           ParseReply(reads, long)
    PROVE  IInv'
  <1>1. /\ pc = "parse" /\ UNCHANGED <<ask, granted, probes>>
        /\ sent \in Counts /\ pass \in 1 .. 2
    BY DEF ParseReply, IInv, TypeOK, Counts
  <1>2. CASE Refuse /\ UNCHANGED <<scope, pass, sent>>
    BY <1>1, <1>2, TellKeeps DEF Refuse
  <1>3. CASE Reenter
    BY <1>1, <1>3, EnterKeeps DEF Reenter
  <1>4. CASE /\ Gate(reads)
             /\ pc' = "execute" /\ tables' = reads
             /\ sent' = [sent EXCEPT !.execute = @ + 1]
             /\ UNCHANGED <<scope, pass, answer>>
    <2>1. /\ sent' \in Counts /\ sent'.parse = sent.parse
          /\ sent'.execute = 1 /\ sent'.analyze = 0
      <3>1. sent.execute = 0 /\ sent.analyze = 0
        BY <1>1 DEF IInv, Behind
      <3>2. /\ sent' \in Counts /\ sent'.parse = sent.parse
            /\ sent'.execute = sent.execute + 1 /\ sent'.analyze = sent.analyze
        BY <1>1, <1>4, OneMore
      <3>3. QED
        BY <3>1, <3>2
    <2>2. TypeOK'
      BY <1>1, <1>4, <2>1 DEF IInv, TypeOK, Pc, Counts
    <2>3. (scope = granted /\ OnlyGatedRuns)'
      BY <1>1, <1>4, Gated DEF IInv, OnlyGatedRuns
    <2>4. answer' = Nothing /\ (Unreachable(ask)' <=> Unreachable(ask))
      BY <1>1, <1>4 DEF IInv, Behind, Unreachable, Bound, Limit, BranchBound, Least, From
    <2>5. Behind'
      BY <1>1, <1>4, <2>1, <2>4, Answered DEF IInv, Behind
    <2>6. QED
      BY <2>2, <2>3, <2>5 DEF IInv
  <1>5. QED
    BY <1>2, <1>3, <1>4 DEF ParseReply

(* Steps that send nothing of the statement's own and leave the answer.    *)
LEMMA ProbesKeep ==
    ASSUME IInv,
           \/ SendProbe \/ ProbeDone \/ Diagnosed
           \/ \E reads \in SUBSET Table : ProbeParsed(reads)
    PROVE  IInv'
  <1>1. UNCHANGED <<ask, granted, scope, pass, sent, answer>>
    BY DEF SendProbe, ProbeDone, Diagnosed, ProbeParsed
  <1>2. TypeOK'
    BY <1>1, PipeAssumption
       DEF IInv, TypeOK, Pc, SendProbe, ProbeDone, Diagnosed, ProbeParsed
  <1>3. (scope = granted /\ OnlyGatedRuns)'
    <2>1. CASE SendProbe \/ ProbeDone \/ Diagnosed
      BY <1>1, <2>1 DEF IInv, OnlyGatedRuns, SendProbe, ProbeDone, Diagnosed
    <2>2. ASSUME NEW reads \in SUBSET Table, ProbeParsed(reads)
          PROVE  (scope = granted /\ OnlyGatedRuns)'
      BY <1>1, <2>2, Gated DEF IInv, OnlyGatedRuns, ProbeParsed
    <2>3. QED
      BY <2>1, <2>2
  <1>4. /\ pc \in {"diagnose", "probe_parse", "probe_execute"}
        /\ pc' \in {"diagnose", "probe_parse", "probe_execute", "done"}
    BY DEF SendProbe, ProbeDone, Diagnosed, ProbeParsed
  <1>5. Unreachable(ask)' <=> Unreachable(ask)
    BY <1>1 DEF Unreachable, Bound, Limit, BranchBound, Least, From
  <1>6. Behind'
    BY <1>1, <1>4, <1>5 DEF IInv, Behind
  <1>7. QED
    BY <1>2, <1>3, <1>6 DEF IInv

LEMMA AnalyzeKeeps ==
    ASSUME IInv, ExecuteErrors \/ Analyzed
    PROVE  IInv'
  <1>1. /\ UNCHANGED <<ask, granted, scope, pass, probes>>
        /\ sent \in Counts /\ pass \in 1 .. 2
    BY DEF ExecuteErrors, Analyzed, IInv, TypeOK, Counts
  <1>2. CASE Refuse /\ UNCHANGED sent
    BY <1>1, <1>2, TellKeeps DEF Refuse, ExecuteErrors, Analyzed
  <1>3. CASE /\ \/ pc = "execute" /\ pc' = "analyze"
                \/ pc = "analyze" /\ pc' = "reanalyze"
             /\ sent' = [sent EXCEPT !.analyze = @ + 1]
             /\ UNCHANGED <<tables, answer>>
    <2>1. /\ sent' \in Counts /\ sent'.parse = sent.parse
          /\ sent'.execute = sent.execute /\ sent'.analyze = sent.analyze + 1
      BY <1>1, <1>3, OneMore
    <2>2. TypeOK'
      BY <1>1, <1>3, <2>1 DEF IInv, TypeOK, Pc, Counts
    <2>3. (scope = granted /\ OnlyGatedRuns)'
      BY <1>1, <1>3 DEF IInv, OnlyGatedRuns
    <2>4. answer' = Nothing /\ (Unreachable(ask)' <=> Unreachable(ask))
      BY <1>1, <1>3 DEF IInv, Behind, Unreachable, Bound, Limit, BranchBound, Least, From
    <2>5. Behind'
      BY <1>1, <1>3, <2>1, <2>4, Answered DEF IInv, Behind
    <2>6. QED
      BY <2>2, <2>3, <2>5 DEF IInv
  <1>4. QED
    BY <1>2, <1>3 DEF ExecuteErrors, Analyzed

LEMMA ReplyKeeps ==
    ASSUME IInv, NEW fit \in 0 .. MaxPageSize, NEW diagnose \in BOOLEAN,
           ExecuteReply(fit, diagnose)
    PROVE  IInv'
  <1>1. /\ pc = "execute" /\ pc' \in {"diagnose", "done"} /\ tables' = {}
        /\ answer'.says = "rows"
        /\ UNCHANGED <<ask, granted, scope, pass, sent, probes>>
    BY DEF ExecuteReply, Complete
  <1>2. TypeOK'
    BY <1>1 DEF IInv, TypeOK, Pc
  <1>3. (scope = granted /\ OnlyGatedRuns)'
    BY <1>1 DEF IInv, OnlyGatedRuns
  <1>4. Unreachable(ask)' <=> Unreachable(ask)
    BY <1>1 DEF Unreachable, Bound, Limit, BranchBound, Least, From
  <1>5. Behind'
    BY <1>1, <1>4 DEF IInv, Behind
  <1>6. QED
    BY <1>2, <1>3, <1>5 DEF IInv

LEMMA NextIInv == IInv /\ [Next]_vars => IInv'
  <1> SUFFICES ASSUME IInv, [Next]_vars PROVE IInv'
    OBVIOUS
  <1>1. CASE Start
    <2>1. sent = NoCalls
      BY <1>1 DEF Start, IInv, Behind
    <2>2. QED
      BY <1>1, <2>1, EnterKeeps DEF Start
  <1>2. ASSUME NEW reads \in SUBSET Table, NEW long \in BOOLEAN, ParseReply(reads, long)
        PROVE  IInv'
    BY <1>2, ParseReplyKeeps
  <1>3. CASE Fail
    <2>1. pass \in 1 .. 2
      BY DEF IInv, TypeOK
    <2>2. QED
      BY <1>3, <2>1, TellKeeps DEF Fail, Refuse
  <1>4. CASE ExecuteErrors \/ Analyzed
    BY <1>4, AnalyzeKeeps
  <1>5. ASSUME NEW fit \in 0 .. MaxPageSize, NEW diagnose \in BOOLEAN,
               ExecuteReply(fit, diagnose)
        PROVE  IInv'
    BY <1>5, ReplyKeeps
  <1>6. CASE \/ SendProbe \/ ProbeDone \/ Diagnosed
             \/ \E reads \in SUBSET Table : ProbeParsed(reads)
    BY <1>6, ProbesKeep
  <1>7. CASE UNCHANGED vars
    BY <1>7 DEF vars, IInv, TypeOK, OnlyGatedRuns, Behind, Unreachable, Bound,
                Limit, BranchBound, Least, From
  <1>8. QED
    BY <1>1, <1>2, <1>3, <1>4, <1>5, <1>6, <1>7 DEF Next

LEMMA Inductive == Spec => []IInv
  BY InitIInv, NextIInv, PTL DEF Spec

(* Every reachable state of a call of the pipe is well typed.              *)
THEOREM TypeCorrect == Spec => []TypeOK
  <1>1. IInv => TypeOK
    BY DEF IInv
  <1>2. QED
    BY <1>1, Inductive, PTL

(* Whatever is executed or analysed reads only tables that are not denied  *)
(* and that the session may read: statements, rewritten ones and probes.   *)
THEOREM OnlyGatedTextRuns == Spec => []OnlyGatedRuns
  <1>1. IInv => OnlyGatedRuns
    BY DEF IInv
  <1>2. QED
    BY <1>1, Inductive, PTL

(* The pipe asks Epicor to parse a statement at most twice, to run it at   *)
(* most once and to analyse it at most twice; a page that is out of reach  *)
(* costs no request, rows are told only of a run, and only such a run is   *)
(* probed, within the budget.  A request is one as the pipe makes it: what *)
(* the client sends again (RequestPath) is not counted.                    *)
THEOREM CallsAreBounded == Spec => []CallsBounded
  <1>1. IInv => CallsBounded
    BY DEF IInv, TypeOK, Behind, CallsBounded
  <1>2. QED
    BY <1>1, Inductive, PTL

-----------------------------------------------------------------------------
(* What a page has of the rows.                                            *)

LEMMA AskFacts ==
    ASSUME NEW a \in Asks
    PROVE  /\ a.op \in SetOp \cup {"none"} /\ a.of[1] \in Kind /\ a.of[2] \in Kind
           /\ a.rows[1] \in Seq(Nat) /\ a.rows[2] \in Seq(Nat)
           /\ Len(a.rows[1]) \in Nat /\ Len(a.rows[2]) \in Nat
           /\ a.top \in Nat /\ a.size \in Nat \ {0} /\ a.size <= MaxPageSize
           /\ a.page \in Nat \ {0} /\ MaxPageSize \in Nat \ {0}
           /\ a.op = "none" => a.rows[1] = a.rows[2] /\ a.of[1] = a.of[2]
           /\ BranchBound(a) \in Nat \ {0}
  <1>1. /\ a.op \in SetOp \cup {"none"} /\ a.of[1] \in Kind /\ a.of[2] \in Kind
        /\ a.rows \in Branches \X Branches
        /\ a.op = "none" => a.rows[1] = a.rows[2] /\ a.of[1] = a.of[2]
        /\ a.top \in Tops \cup {0} /\ a.size \in Sizes /\ a.page \in Pages
    BY DEF Asks, NoTop
  <1>2. a.rows[1] \in Seq(Nat) /\ a.rows[2] \in Seq(Nat)
    BY <1>1, PipeAssumption
  <1>3. Len(a.rows[1]) \in Nat /\ Len(a.rows[2]) \in Nat
    BY <1>2, LenProperties
  <1>4. /\ a.top \in Nat /\ a.size \in Nat \ {0} /\ a.size <= MaxPageSize
        /\ a.page \in Nat \ {0} /\ MaxPageSize \in Nat \ {0}
    <2>1. /\ Tops \subseteq Nat /\ MaxPageSize \in Nat \ {0}
          /\ Sizes \subseteq 1 .. MaxPageSize /\ Pages \subseteq Nat \ {0}
      BY PipeAssumption
    <2>2. a.top \in Nat
      <3>1. a.top \in Tops \cup {0}
        BY <1>1
      <3>2. CASE a.top = 0
        BY <3>2
      <3>3. CASE a.top \in Tops
        BY <2>1, <3>3
      <3>4. QED
        BY <3>1, <3>2, <3>3
    <2>3. a.page \in Nat \ {0}
      BY <1>1, <2>1
    <2>4. a.size \in 1 .. MaxPageSize
      BY <1>1, <2>1
    <2>5. QED
      BY <2>1, <2>2, <2>3, <2>4
  <1>5. BranchBound(a) \in Nat \ {0}
    BY <1>4 DEF BranchBound, Least, NoTop
  <1>6. QED
    BY <1>1, <1>2, <1>3, <1>4, <1>5

LEMMA FirstFacts ==
    ASSUME NEW s \in Seq(Nat), NEW n \in Nat
    PROVE  /\ First(n, s) \in Seq(Nat)
           /\ Len(First(n, s)) = Least(n, Len(s))
           /\ Least(n, Len(s)) \in Nat
  <1>1. Len(s) \in Nat /\ \A i \in 1 .. Len(s) : s[i] \in Nat
    BY LenProperties, ElementOfSeq
  <1>2. /\ Least(n, Len(s)) \in Nat /\ Least(n, Len(s)) <= Len(s)
    BY <1>1 DEF Least
  <1>3. \A i \in 1 .. Least(n, Len(s)) : s[i] \in Nat
    BY <1>1, <1>2
  <1> DEFINE l == Least(n, Len(s))
  <1>4. l \in Nat
    BY <1>2
  <1> HIDE DEF l
  <1>5. /\ SubSeq(s, 1, l) \in Seq(Nat)
        /\ Len(SubSeq(s, 1, l)) = IF 1 <= l THEN l - 1 + 1 ELSE 0
    BY <1>3, <1>4, SubSeqProperties DEF l
  <1>6. Len(SubSeq(s, 1, l)) = l
    BY <1>4, <1>5
  <1>7. QED
    BY <1>4, <1>5, <1>6 DEF First, l

\* A function whose domain is an initial segment is a sequence of its values.
LEMMA SomeSeq ==
    ASSUME NEW n \in Nat, NEW f, DOMAIN f = 1 .. n, f = [i \in 1 .. n |-> f[i]]
    PROVE  \E S : f \in Seq(S) /\ Len(f) = n
  <1> DEFINE S == {f[i] : i \in 1 .. n}
  <1>1. f \in [1 .. n -> S]
    BY Zenon
  <1>2. [1 .. n -> S] \subseteq Seq(S)
    BY SeqDef
  <1>3. f \in Seq(S)
    BY <1>1, <1>2
  <1>4. Len(f) \in Nat /\ DOMAIN f = 1 .. Len(f)
    BY <1>3, LenProperties
  <1>5. Len(f) = n
    BY <1>4
  <1>6. QED
    BY <1>3, <1>5

LEMMA DistinctFacts ==
    ASSUME NEW T, NEW s \in Seq(T), NEW set
    PROVE  /\ \E S : Distinct(s, set) \in Seq(S)
           /\ Len(Distinct(s, set)) \in Nat /\ Len(Distinct(s, set)) <= Len(s)
  <1>1. DOMAIN s = 1 .. Len(s) /\ Len(s) \in Nat
    BY LenProperties
  <1>2. /\ IsFiniteSet(1 .. Len(s)) /\ Cardinality(1 .. Len(s)) = Len(s)
    <2>1. PICK l \in Nat : l = Len(s)
      BY <1>1
    <2>2. IsFiniteSet(1 .. l)
      BY FS_Interval
    <2>3. Cardinality(1 .. l) = IF 1 > l THEN 0 ELSE l - 1 + 1
      BY FS_Interval
    <2>4. Cardinality(1 .. l) = l
      BY <2>3
    <2>5. QED
      BY <2>1, <2>2, <2>4
  <1> DEFINE new == {i \in DOMAIN s : s[i] \in set /\ \A j \in 1 .. i - 1 : s[j] # s[i]}
             nth(k) == CHOOSE i \in new : Cardinality({j \in new : j <= i}) = k
             n == Cardinality(new)
  <1>3. new \subseteq 1 .. Len(s)
    BY <1>1
  <1> HIDE DEF new
  <1>4. n \in Nat /\ n <= Len(s)
    BY <1>2, <1>3, FS_Subset, FS_CardinalityType
  <1>5. Distinct(s, set) = [k \in 1 .. n |-> s[nth(k)]]
    BY DEF Distinct, new
  <1> HIDE DEF nth, n
  <1>6. /\ DOMAIN Distinct(s, set) = 1 .. n
        /\ Distinct(s, set) = [i \in 1 .. n |-> Distinct(s, set)[i]]
    BY <1>5
  <1>7. PICK S : Distinct(s, set) \in Seq(S) /\ Len(Distinct(s, set)) = n
    BY <1>4, <1>6, SomeSeq
  <1>8. QED
    BY <1>4, <1>7

\* Sequences over two sets are over their union.
LEMMA Wider ==
    ASSUME NEW S, NEW T, NEW s \in Seq(S)
    PROVE  s \in Seq(S \cup T)
  <1>1. Len(s) \in Nat /\ s \in [1 .. Len(s) -> S]
    BY LenProperties
  <1>2. s \in [1 .. Len(s) -> S \cup T]
    BY <1>1
  <1>3. QED
    BY <1>1, <1>2, SeqDef

\* What a branch makes: a plain one no more than it is cut at, a total a row.
LEMMA BranchFacts ==
    ASSUME NEW a \in Asks, NEW i \in 1 .. 2, NEW n \in Nat
    PROVE  /\ \E S : Branch(a, i, n) \in Seq(S)
           /\ Len(Branch(a, i, n)) \in Nat
           /\ a.of[i] = "plain" => Len(Branch(a, i, n)) <= n
           /\ a.of[i] = "total" => Len(Branch(a, i, n)) = 1
  <1>1. /\ a.rows[i] \in Seq(Nat) /\ Len(a.rows[i]) \in Nat /\ a.of[i] \in Kind
    <2>1. i = 1 \/ i = 2
      OBVIOUS
    <2>2. QED
      BY <2>1, AskFacts
  <1>2. CASE a.of[i] = "plain"
    <2>1. Branch(a, i, n) = First(n, a.rows[i])
      BY <1>2 DEF Branch
    <2>2. /\ First(n, a.rows[i]) \in Seq(Nat)
          /\ Len(First(n, a.rows[i])) = Least(n, Len(a.rows[i]))
      BY <1>1, FirstFacts
    <2>3. Least(n, Len(a.rows[i])) \in Nat /\ Least(n, Len(a.rows[i])) <= n
      BY <1>1 DEF Least
    <2>4. QED
      BY <1>2, <2>1, <2>2, <2>3
  <1>3. CASE a.of[i] = "distinct"
    <2>1. Branch(a, i, n) = Distinct(a.rows[i], Nat)
      BY <1>3 DEF Branch
    <2>2. QED
      BY <1>1, <1>3, <2>1, DistinctFacts
  <1>4. CASE a.of[i] = "total"
    <2>1. Branch(a, i, n) = <<Len(a.rows[i])>>
      BY <1>4 DEF Branch
    <2>2. <<Len(a.rows[i])>> \in Seq(Nat) /\ Len(<<Len(a.rows[i])>>) = 1
      BY <1>1
    <2>3. QED
      BY <1>4, <2>1, <2>2
  <1>5. CASE a.of[i] = "scalar"
    <2>1. Branch(a, i, n) = a.rows[i]
      BY <1>5 DEF Branch
    <2>2. QED
      BY <1>1, <1>5, <2>1
  <1>6. QED
    BY <1>1, <1>2, <1>3, <1>4, <1>5 DEF Kind

\* A set operation makes no more rows than its branches have together.
LEMMA CombinedFacts ==
    ASSUME NEW S, NEW T, NEW u \in Seq(S), NEW v \in Seq(T),
           NEW op \in SetOp \cup {"none"}
    PROVE  /\ \E X : Combined(op, u, v) \in Seq(X)
           /\ Len(Combined(op, u, v)) \in Nat
           /\ Len(Combined(op, u, v)) <= Len(u) + Len(v)
           /\ op = "union_all" => Len(Combined(op, u, v)) = Len(u) + Len(v)
           /\ op = "none" => Combined(op, u, v) = u
  <1>1. u \in Seq(S \cup T) /\ v \in Seq(S \cup T)
    <2>1. v \in Seq(T \cup S) /\ T \cup S = S \cup T
      BY Wider
    <2>2. QED
      BY <2>1, Wider
  <1>2. PICK m \in Nat, n \in Nat : m = Len(u) /\ n = Len(v)
    BY LenProperties
  <1>3. u \o v \in Seq(S \cup T) /\ Len(u \o v) = m + n
    BY <1>1, <1>2, ConcatProperties
  <1>4. CASE op = "none"
    <2>1. Combined(op, u, v) = u
      BY <1>4 DEF Combined
    <2>2. QED
      BY <1>2, <1>4, <2>1
  <1>5. CASE op = "union_all"
    <2>1. Combined(op, u, v) = u \o v
      BY <1>5 DEF Combined
    <2>2. /\ Combined(op, u, v) \in Seq(S \cup T)
          /\ Len(Combined(op, u, v)) = Len(u) + Len(v)
          /\ Len(u) + Len(v) \in Nat
      BY <1>2, <1>3, <2>1
    <2>3. op # "none"
      BY <1>5
    <2> HIDE DEF Combined
    <2>4. QED
      BY <2>2, <2>3
  <1>6. CASE op = "union"
    <2>1. Combined(op, u, v) = Distinct(u \o v, Nat)
      BY <1>6 DEF Combined
    <2>2. /\ \E X : Distinct(u \o v, Nat) \in Seq(X)
          /\ Len(Distinct(u \o v, Nat)) \in Nat
          /\ Len(Distinct(u \o v, Nat)) <= m + n
      <3>1. Len(u \o v) = m + n /\ m + n \in Nat
        BY <1>3
      <3>2. QED
        BY <1>3, <3>1, DistinctFacts
    <2>3. m + n = Len(u) + Len(v)
      BY <1>2
    <2>4. QED
      BY <1>6, <2>1, <2>2, <2>3
  <1>7. ASSUME NEW set, Combined(op, u, v) = Distinct(u, set), op \in {"intersect", "except"}
        PROVE  /\ \E X : Combined(op, u, v) \in Seq(X)
               /\ Len(Combined(op, u, v)) \in Nat
               /\ Len(Combined(op, u, v)) <= Len(u) + Len(v)
    <2>1. /\ \E X : Distinct(u, set) \in Seq(X)
          /\ Len(Distinct(u, set)) \in Nat /\ Len(Distinct(u, set)) <= m
      BY <1>2, DistinctFacts
    <2>2. Len(Distinct(u, set)) <= m + n
      BY <1>2, <2>1
    <2>3. QED
      BY <1>2, <1>7, <2>1, <2>2
  <1>8. CASE op = "intersect"
    <2>1. Combined(op, u, v) = Distinct(u, Values(v))
      BY <1>8 DEF Combined
    <2>2. QED
      BY <1>7, <1>8, <2>1
  <1>9. CASE op = "except"
    <2>1. Combined(op, u, v) = Distinct(u, Nat \ Values(v))
      BY <1>9 DEF Combined
    <2>2. QED
      BY <1>7, <1>9, <2>1
  <1>10. QED
    BY <1>4, <1>5, <1>6, <1>8, <1>9 DEF SetOp

LEMMA RowsFacts ==
    ASSUME NEW a \in Asks, NEW n \in Nat
    PROVE  /\ \E S : Rows(a, n) \in Seq(S)
           /\ Len(Rows(a, n)) \in Nat
           /\ Len(Rows(a, n)) <= Len(Branch(a, 1, n)) + Len(Branch(a, 2, n))
           /\ a.op = "union_all" =>
                 Len(Rows(a, n)) = Len(Branch(a, 1, n)) + Len(Branch(a, 2, n))
           /\ a.op = "none" => Rows(a, n) = Branch(a, 1, n)
  <1>1. PICK S : Branch(a, 1, n) \in Seq(S)
    BY BranchFacts
  <1>2. PICK T : Branch(a, 2, n) \in Seq(T)
    BY BranchFacts
  <1>3. a.op \in SetOp \cup {"none"}
    BY AskFacts
  <1>4. QED
    BY <1>1, <1>2, <1>3, CombinedFacts DEF Rows

\* The bound that a refusal is computed from is one the statement keeps.
LEMMA BoundKept ==
    ASSUME NEW a \in Asks, Bound(a) # NoBound, \A i \in 1 .. 2 : a.of[i] # "scalar"
    PROVE  /\ Bound(a) \in Nat
           /\ Len(Rows(a, BranchBound(a))) <= Bound(a)
  <1> DEFINE b == BranchBound(a)
  <1>1. b \in Nat
    BY AskFacts
  <1>2. ASSUME NEW i \in 1 .. 2, Limit(a, i) # NoBound
        PROVE  Limit(a, i) \in Nat /\ Len(Branch(a, i, b)) <= Limit(a, i)
    <2>1. a.of[i] \in {"plain", "distinct", "total"}
      <3>1. i = 1 \/ i = 2
        OBVIOUS
      <3>2. QED
        BY <3>1, AskFacts DEF Kind
    <2>2. CASE a.of[i] = "plain"
      <3>1. Limit(a, i) = b
        BY <2>2 DEF Limit
      <3>2. QED
        BY <1>1, <2>2, <3>1, BranchFacts
    <2>3. CASE a.of[i] = "total"
      <3>1. Limit(a, i) = 1
        BY <2>3 DEF Limit
      <3>2. Len(Branch(a, i, b)) = 1
        BY <1>1, <2>3, BranchFacts
      <3>3. QED
        BY <3>1, <3>2
    <2>4. CASE a.of[i] = "distinct"
      BY <1>2, <2>4 DEF Limit
    <2>5. QED
      BY <2>1, <2>2, <2>3, <2>4
  <1>3. Len(Branch(a, 1, b)) \in Nat /\ Len(Branch(a, 2, b)) \in Nat
    BY <1>1, BranchFacts
  <1>4. Len(Rows(a, b)) \in Nat
    BY <1>1, RowsFacts
  <1>5. CASE a.op = "none"
    <2>1. Bound(a) = Limit(a, 1)
      BY <1>5 DEF Bound
    <2>2. Rows(a, b) = Branch(a, 1, b)
      BY <1>1, <1>5, RowsFacts
    <2>3. QED
      BY <1>2, <2>1, <2>2
  <1>6. CASE a.op # "none"
    <2>1. /\ Limit(a, 1) # NoBound /\ Limit(a, 2) # NoBound
          /\ Bound(a) = Limit(a, 1) + Limit(a, 2)
      BY <1>6 DEF Bound
    <2>2. PICK x \in Nat, y \in Nat : x = Limit(a, 1) /\ y = Limit(a, 2)
      BY <1>2, <2>1
    <2>3. PICK m \in Nat, n \in Nat :
              m = Len(Branch(a, 1, b)) /\ n = Len(Branch(a, 2, b)) /\ m <= x /\ n <= y
      BY <1>2, <1>3, <2>1, <2>2
    <2>4. Len(Rows(a, b)) <= m + n
      BY <1>1, <2>3, RowsFacts
    <2>5. QED
      BY <1>4, <2>1, <2>2, <2>3, <2>4
  <1>7. QED
    BY <1>5, <1>6

\* A page that has rows to spare ends with the last row there is.
LEMMA PageFacts ==
    ASSUME NEW a \in Asks
    PROVE  /\ \E S : Page(a) \in Seq(S)
           /\ From(a) \in Nat \ {0} /\ (a.page = 1 => From(a) = 1)
           /\ Len(Rows(a, BranchBound(a))) < From(a) => Page(a) = <<>>
           /\ Len(Page(a)) < a.size =>
                 Page(a) = SubSeq(Rows(a, BranchBound(a)), From(a),
                                  Len(Rows(a, BranchBound(a))))
  <1> DEFINE R == Rows(a, BranchBound(a))
  <1>1. PICK S : R \in Seq(S)
    BY RowsFacts, AskFacts
  <1>2. Len(R) \in Nat /\ \A i \in 1 .. Len(R) : R[i] \in S
    BY <1>1, LenProperties, ElementOfSeq
  <1>3. a.size \in Nat \ {0} /\ a.page \in Nat \ {0}
    BY AskFacts
  <1>4. PICK m \in Nat : m = a.size * (a.page - 1)
    BY <1>3
  <1>5. From(a) = m + 1 /\ (a.page = 1 => m = 0)
    BY <1>3, <1>4 DEF From
  <1> DEFINE to == Least(From(a) + a.size - 1, Len(R))
  <1>6. /\ to \in Nat /\ to <= Len(R) /\ to <= m + a.size
        /\ to = Len(R) \/ to = m + a.size
    BY <1>2, <1>3, <1>5 DEF Least
  <1>7. Page(a) = SubSeq(R, From(a), to)
    BY DEF Page
  <1> HIDE DEF R, to
  <1>8. /\ \A i \in m + 1 .. to : R[i] \in S
    BY <1>2, <1>6
  <1>9. /\ SubSeq(R, m + 1, to) \in Seq(S)
        /\ Len(SubSeq(R, m + 1, to)) = IF m + 1 <= to THEN to - (m + 1) + 1 ELSE 0
    BY <1>6, <1>8, SubSeqProperties
  <1>10. ASSUME Len(R) < m + 1 PROVE SubSeq(R, m + 1, to) = <<>>
    BY <1>2, <1>6, <1>10, SubSeqEmpty
  <1>11. ASSUME Len(SubSeq(R, m + 1, to)) < a.size PROVE to = Len(R)
    BY <1>3, <1>6, <1>9, <1>11
  <1>12. Page(a) = SubSeq(R, m + 1, to) /\ From(a) \in Nat \ {0}
    BY <1>5, <1>7
  <1>13. \E T : Page(a) \in Seq(T)
    BY <1>9, <1>12
  <1>14. Len(R) < From(a) => Page(a) = <<>>
    BY <1>5, <1>10, <1>12
  <1>15. Len(Page(a)) < a.size => Page(a) = SubSeq(R, From(a), Len(R))
    BY <1>5, <1>11, <1>12
  <1>16. a.page = 1 => From(a) = 1
    BY <1>5
  <1>17. QED
    BY <1>12, <1>13, <1>14, <1>15, <1>16 DEF R

LEMMA OneOrTwo == \A i \in 1 .. 2 : i = 1 \/ i = 2
  OBVIOUS

\* What the server's own bound leaves of a branch that it does not cut.
LEMMA Uncut ==
    ASSUME NEW s \in Seq(Nat), NEW t \in Nat, NEW b \in Nat,
           b <= t \/ Len(s) <= t, Len(First(t, s)) <= b
    PROVE  First(b, s) = First(t, s)
  <1>1. Len(First(t, s)) = Least(t, Len(s)) /\ Len(s) \in Nat
    BY FirstFacts, LenProperties
  <1>2. Least(b, Len(s)) = Least(t, Len(s))
    BY <1>1 DEF Least
  <1>3. QED
    BY <1>2 DEF First

\* The caller's bound, or more rows than there are.
Wanted(a) == IF a.top = NoTop THEN Whole(a) ELSE a.top

LEMMA WantedFacts ==
    ASSUME NEW a \in Asks, NEW i \in 1 .. 2
    PROVE  /\ Wanted(a) \in Nat /\ a.rows[i] \in Seq(Nat) /\ Len(a.rows[i]) \in Nat
           /\ BranchBound(a) <= Wanted(a) \/ Len(a.rows[i]) <= Wanted(a)
           /\ Wanted(a) > BranchBound(a) /\ Len(a.rows[i]) > BranchBound(a)
                 => BranchBound(a) >= a.size
  <1>1. /\ a.rows[1] \in Seq(Nat) /\ a.rows[2] \in Seq(Nat)
        /\ Len(a.rows[1]) \in Nat /\ Len(a.rows[2]) \in Nat
    BY AskFacts
  <1>2. Whole(a) = Len(a.rows[1]) + Len(a.rows[2])
    BY <1>1, ConcatProperties DEF Whole
  <1>3. PICK w \in Nat : w = Whole(a) /\ Len(a.rows[1]) <= w /\ Len(a.rows[2]) <= w
    <2>1. PICK m \in Nat, n \in Nat : m = Len(a.rows[1]) /\ n = Len(a.rows[2])
      BY <1>1
    <2>2. m + n \in Nat /\ m <= m + n /\ n <= m + n
      OBVIOUS
    <2>3. Whole(a) = m + n
      BY <1>2, <2>1
    <2>4. QED
      BY <2>1, <2>2, <2>3
  <1>4. a.rows[i] \in Seq(Nat) /\ Len(a.rows[i]) \in Nat /\ Len(a.rows[i]) <= w
    <2>1. i = 1 \/ i = 2
      OBVIOUS
    <2>2. QED
      BY <1>1, <1>3, <2>1
  <1>5. CASE a.top = NoTop
    <2>1. Wanted(a) = w /\ BranchBound(a) = a.size /\ a.size \in Nat
      BY <1>3, <1>5, AskFacts DEF Wanted, BranchBound
    <2>2. QED
      BY <1>3, <1>4, <2>1
  <1>6. CASE a.top # NoTop
    <2>1. /\ Wanted(a) = a.top /\ BranchBound(a) = Least(a.top, MaxPageSize)
          /\ a.top \in Nat /\ MaxPageSize \in Nat /\ a.size \in Nat /\ a.size <= MaxPageSize
      BY <1>6, AskFacts DEF Wanted, BranchBound
    <2>2. QED
      BY <1>4, <2>1 DEF Least
  <1>7. QED
    BY <1>5, <1>6

LEMMA UncutIsAsked ==
    ASSUME NEW a \in Asks, ~Cut(a)
    PROVE  Rows(a, BranchBound(a)) = Asked(a)
  <1>1. Asked(a) = Rows(a, Wanted(a))
    BY DEF Asked, Wanted
  <1>2. ASSUME NEW i \in 1 .. 2
        PROVE  Branch(a, i, BranchBound(a)) = Branch(a, i, Wanted(a))
    <2>1. CASE a.of[i] = "plain"
      <3>1. ~(Len(First(Wanted(a), a.rows[i])) > BranchBound(a))
        BY <2>1 DEF Cut, Wanted
      <3>2. Len(First(Wanted(a), a.rows[i])) \in Nat /\ BranchBound(a) \in Nat
        BY AskFacts, WantedFacts, FirstFacts
      <3>3. First(BranchBound(a), a.rows[i]) = First(Wanted(a), a.rows[i])
        BY <3>1, <3>2, WantedFacts, Uncut
      <3>4. QED
        BY <2>1, <3>3 DEF Branch
    <2>2. CASE a.of[i] # "plain"
      <3>1. a.of[i] \in {"distinct", "total", "scalar"}
        BY <2>2, OneOrTwo, AskFacts DEF Kind
      <3>2. CASE a.of[i] = "distinct"
        BY <3>2 DEF Branch
      <3>3. CASE a.of[i] = "total"
        BY <3>3 DEF Branch
      <3>4. CASE a.of[i] = "scalar"
        BY <3>4 DEF Branch
      <3>5. QED
        BY <3>1, <3>2, <3>3, <3>4
    <2>3. QED
      BY <2>1, <2>2
  <1>3. /\ Branch(a, 1, BranchBound(a)) = Branch(a, 1, Wanted(a))
        /\ Branch(a, 2, BranchBound(a)) = Branch(a, 2, Wanted(a))
    BY <1>2
  <1>4. QED
    BY <1>1, <1>3 DEF Rows

LEMMA LeastFacts ==
    ASSUME NEW m \in Nat, NEW n \in Nat, NEW k \in Nat
    PROVE  /\ Least(m, n) \in Nat /\ Least(m, n) <= m /\ Least(m, n) <= n
           /\ Least(m, n) > k => m > k /\ n > k
           /\ n > m => Least(m, n) = m
  BY DEF Least

\* A branch that the server cuts has as many rows left as a page.
LEMMA CutBranch ==
    ASSUME NEW a \in Asks, NEW i \in 1 .. 2,
           Len(First(Wanted(a), a.rows[i])) > BranchBound(a)
    PROVE  /\ BranchBound(a) >= a.size
           /\ Len(First(BranchBound(a), a.rows[i])) = BranchBound(a)
  <1>1. PICK b \in Nat : b = BranchBound(a)
    BY AskFacts
  <1>2. PICK x \in Nat, y \in Nat : x = Wanted(a) /\ y = Len(a.rows[i])
    BY WantedFacts
  <1>3. a.rows[i] \in Seq(Nat)
    BY WantedFacts
  <1>4. Len(First(x, a.rows[i])) = Least(x, y) /\ Len(First(b, a.rows[i])) = Least(b, y)
    BY <1>2, <1>3, FirstFacts
  <1>5. Least(x, y) > b
    BY <1>1, <1>2, <1>4
  <1>6. x > b /\ y > b
    BY <1>5, LeastFacts
  <1>7. Least(b, y) = b
    BY <1>6, LeastFacts
  <1>8. QED
    BY <1>1, <1>2, <1>4, <1>6, <1>7, WantedFacts

\* So does the statement, if it keeps the rows of both.
LEMMA CutIsFull ==
    ASSUME NEW a \in Asks, Cut(a), a.op \in {"none", "union_all"}
    PROVE  Len(Rows(a, BranchBound(a))) >= a.size
  <1>1. PICK b \in Nat : b = BranchBound(a)
    BY AskFacts
  <1>2. PICK z \in Nat : z = a.size
    BY AskFacts
  <1>3. PICK m \in Nat, n \in Nat : m = Len(Branch(a, 1, b)) /\ n = Len(Branch(a, 2, b))
    BY BranchFacts
  <1>4. PICK i \in 1 .. 2 : a.of[i] = "plain" /\ Len(First(Wanted(a), a.rows[i])) > b
    BY <1>1 DEF Cut, Wanted
  <1>5. b >= z /\ Len(Branch(a, i, b)) = b
    <2>1. b >= a.size /\ Len(First(b, a.rows[i])) = b
      BY <1>1, <1>4, CutBranch
    <2>2. Branch(a, i, b) = First(b, a.rows[i])
      BY <1>4 DEF Branch
    <2>3. QED
      BY <1>2, <2>1, <2>2
  <1>6. i = 1 \/ i = 2
    BY <1>4, OneOrTwo, Zenon
  <1>7. m = b \/ n = b
    BY <1>3, <1>5, <1>6
  <1>8. CASE a.op = "none"
    <2>1. Rows(a, b) = Branch(a, 1, b)
      BY <1>8, RowsFacts
    <2>2. Branch(a, 1, b) = Branch(a, 2, b)
      <3>1. a.rows[1] = a.rows[2] /\ a.of[1] = a.of[2]
        BY <1>8, AskFacts
      <3>2. QED
        BY <3>1 DEF Branch
    <2>3. m = n
      BY <1>3, <2>2
    <2>4. QED
      BY <1>1, <1>2, <1>3, <1>5, <1>7, <2>1, <2>3
  <1>9. CASE a.op = "union_all"
    <2>1. Len(Rows(a, b)) = m + n
      BY <1>3, <1>9, RowsFacts
    <2>2. m + n >= z
      BY <1>5, <1>7
    <2>3. QED
      BY <1>1, <1>2, <2>1, <2>2
  <1>10. QED
    BY <1>8, <1>9

\* The two ways that CompleteIsWhole excepts.
Excepted(a) == Cut(a) /\ (a.page > 1 \/ a.op \in {"union", "intersect", "except"})

\* A page that is shorter than was asked for, of a statement that is not
\* excepted, has what is left of the result.
LEMMA ShortIsWhole ==
    ASSUME NEW a \in Asks, Len(Page(a)) < a.size, ~Excepted(a)
    PROVE  Page(a) = SubSeq(Asked(a), From(a), Len(Asked(a)))
  <1> DEFINE R == Rows(a, BranchBound(a))
  <1>1. Page(a) = SubSeq(R, From(a), Len(R))
    BY PageFacts
  <1>2. Len(R) \in Nat
    BY RowsFacts, AskFacts
  <1>3. R = Asked(a)
    <2>1. CASE ~Cut(a)
      BY <2>1, UncutIsAsked
    <2>2. CASE Cut(a)
      <3>1. a.page = 1
        <4>1. a.page \in Nat \ {0} /\ ~(a.page > 1)
          BY <2>2, AskFacts DEF Excepted
        <4>2. QED
          BY <4>1
      <3>2. From(a) = 1
        BY <3>1, PageFacts
      <3>3. PICK S : R \in Seq(S)
        BY RowsFacts, AskFacts
      <3>4. Page(a) = R
        BY <1>1, <3>2, <3>3, SubSeqFull
      <3>5. a.op \in {"none", "union_all"}
        BY <2>2, AskFacts DEF Excepted, SetOp
      <3>6. Len(R) >= a.size /\ a.size \in Nat
        BY <2>2, <3>5, CutIsFull, AskFacts
      <3>7. QED
        BY <1>2, <3>4, <3>6
    <2>3. QED
      BY <2>1, <2>2
  <1>4. QED
    BY <1>1, <1>3

\* What is told of a page: all of it, if it is called complete.
LEMMA CompletePage ==
    ASSUME NEW a \in Asks, NEW fit \in Nat,
           Complete(a, Least(fit, Len(Page(a))), Len(Page(a)) - Least(fit, Len(Page(a))))
    PROVE  Len(Page(a)) < a.size /\ First(Least(fit, Len(Page(a))), Page(a)) = Page(a)
  <1>1. PICK S : Page(a) \in Seq(S)
    BY PageFacts
  <1>2. PICK n \in Nat : n = Len(Page(a))
    BY <1>1, LenProperties
  <1>3. PICK g \in Nat : g = Least(fit, n)
    BY <1>2, LeastFacts
  <1>4. g + (n - g) < a.size /\ n - g = 0
    BY <1>2, <1>3 DEF Complete
  <1>5. n < a.size /\ g = n
    <2>1. g \in Nat /\ n \in Nat
      BY <1>2, <1>3
    <2>2. PICK z \in Nat : z = a.size
      BY AskFacts
    <2>3. g + (n - g) < z /\ n - g = 0
      BY <1>4, <2>2
    <2>4. g = n
      BY <2>1, <2>3
    <2>5. n < z
      BY <2>1, <2>2, <2>3
    <2>6. QED
      BY <2>2, <2>4, <2>5
  <1>6. First(n, Page(a)) = SubSeq(Page(a), 1, Len(Page(a)))
    BY <1>2 DEF First, Least
  <1>7. First(n, Page(a)) = Page(a)
    BY <1>1, <1>6, SubSeqFull
  <1>8. QED
    BY <1>2, <1>3, <1>5, <1>7

\* An answer says of the rows that were asked for what is so.
Honest(a, told) ==
    /\ told.says = "rows" /\ told.complete /\ ~Excepted(a)
          => told.rows = SubSeq(Asked(a), From(a), Len(Asked(a)))
    /\ told.says = "unreachable" /\ (\A i \in 1 .. 2 : a.of[i] # "scalar")
          => Page(a) = <<>>

LEMMA ToldPage ==
    ASSUME NEW fit \in Nat, NEW diagnose, TypeOK, ExecuteReply(fit, diagnose)
    PROVE  Honest(ask', answer')
  <1>1. ask \in Asks /\ ask' = ask
    BY DEF TypeOK, ExecuteReply
  <1> DEFINE p == Page(ask)
             g == Least(fit, Len(p))
             c == Complete(ask, g, Len(p) - g)
  <1>2. answer' = [says |-> "rows", rows |-> First(g, p), complete |-> c]
    BY DEF ExecuteReply
  <1>3. ASSUME c, ~Excepted(ask)
        PROVE  First(g, p) = SubSeq(Asked(ask), From(ask), Len(Asked(ask)))
    BY <1>1, <1>3, CompletePage, ShortIsWhole
  <1> HIDE DEF p, g, c
  <1>4. /\ answer'.says = "rows" /\ answer'.rows = First(g, p) /\ answer'.complete = c
    BY <1>2
  <1>5. QED
    BY <1>1, <1>3, <1>4 DEF Honest

LEMMA ToldNothing ==
    ASSUME NEW w \in {"refused", "unreachable"}, Tell(w), TypeOK, UNCHANGED ask,
           w = "unreachable" => Unreachable(ask)
    PROVE  Honest(ask', answer')
  <1>1. answer'.says = w /\ ask' = ask /\ ask \in Asks
    BY Answered DEF Tell, TypeOK
  <1>2. ASSUME Unreachable(ask), \A i \in 1 .. 2 : ask.of[i] # "scalar"
        PROVE  Page(ask) = <<>>
    <2>1. Bound(ask) # NoBound /\ Bound(ask) < From(ask)
      BY <1>2 DEF Unreachable
    <2>2. /\ Bound(ask) \in Nat /\ Len(Rows(ask, BranchBound(ask))) <= Bound(ask)
          /\ Len(Rows(ask, BranchBound(ask))) \in Nat /\ From(ask) \in Nat
      BY <1>1, <1>2, <2>1, BoundKept, RowsFacts, AskFacts, PageFacts
    <2>3. QED
      BY <1>1, <2>1, <2>2, PageFacts
  <1>3. QED
    BY <1>1, <1>2 DEF Honest

LEMMA HonestStep == TypeOK /\ Honest(ask, answer) /\ [Next]_vars => Honest(ask, answer)'
  <1> SUFFICES ASSUME TypeOK, Honest(ask, answer), [Next]_vars PROVE Honest(ask', answer')
    OBVIOUS
  <1>1. ASSUME ask' = ask, answer' = answer PROVE Honest(ask', answer')
    BY <1>1
  <1>2. ASSUME ask' = ask, answer' = Nothing PROVE Honest(ask', answer')
    <2>1. Nothing.says = "nothing"
      BY Answered
    <2>2. Honest(ask, Nothing)
      BY <2>1 DEF Honest
    <2>3. QED
      BY <1>2, <2>2
  <1>3. ASSUME NEW n, Enter(ask, n), ask' = ask PROVE Honest(ask', answer')
    BY <1>2, <1>3, ToldNothing DEF Enter, Refuse
  <1>4. ASSUME Refuse, ask' = ask PROVE Honest(ask', answer')
    BY <1>4, ToldNothing DEF Refuse
  <1>5. CASE Start
    BY <1>3, <1>5 DEF Start
  <1>6. ASSUME NEW reads \in SUBSET Table, NEW long \in BOOLEAN, ParseReply(reads, long)
        PROVE  Honest(ask', answer')
    BY <1>1, <1>3, <1>4, <1>6 DEF ParseReply, Reenter
  <1>7. CASE Fail \/ ExecuteErrors \/ Analyzed
    BY <1>1, <1>4, <1>7 DEF Fail, ExecuteErrors, Analyzed
  <1>8. ASSUME NEW fit \in 0 .. MaxPageSize, NEW diagnose \in BOOLEAN,
               ExecuteReply(fit, diagnose)
        PROVE  Honest(ask', answer')
    BY <1>8, ToldPage
  <1>9. CASE \/ SendProbe \/ ProbeDone \/ Diagnosed
             \/ \E reads \in SUBSET Table : ProbeParsed(reads)
    BY <1>1, <1>9 DEF SendProbe, ProbeDone, Diagnosed, ProbeParsed
  <1>10. CASE UNCHANGED vars
    BY <1>1, <1>10 DEF vars
  <1>11. QED
    BY <1>5, <1>6, <1>7, <1>8, <1>9, <1>10 DEF Next

LEMMA HonestAlways == Spec => []Honest(ask, answer)
  <1>1. Init => Honest(ask, answer)
    BY Answered DEF Init, Honest
  <1>2. QED
    BY <1>1, HonestStep, TypeCorrect, PTL DEF Spec

(* A page that is said to be the complete result leaves nothing of what was*)
(* asked for behind it, but in the two ways that CompleteIsWhole excepts.  *)
THEOREM CompletePagesAreWhole == Spec => []CompleteIsWhole
  <1>1. Honest(ask, answer) => CompleteIsWhole
    BY DEF Honest, CompleteIsWhole, Excepted
  <1>2. QED
    BY <1>1, HonestAlways, PTL

(* A page that is refused as out of reach would have been empty, unless a  *)
(* branch is only taken for a grand total.                                 *)
THEOREM RefusedPagesAreEmpty == Spec => []RefusedPagesEmpty
  <1>1. Honest(ask, answer) => RefusedPagesEmpty
    BY DEF Honest, RefusedPagesEmpty
  <1>2. QED
    BY <1>1, HonestAlways, PTL

-----------------------------------------------------------------------------
(* Chains of reads.                                                        *)

LEMMA LimitFacts ==
    /\ MaxLimit \in Limits /\ Limits \subseteq Nat \ {0}
    /\ PageSize \in Nat \ {0} /\ MinPage \in Nat \ {0} /\ MaxPages \in Nat \ {0}
    /\ MaxRows \in Nat /\ Changes \in Nat /\ Offload \in BOOLEAN /\ Kinds \subseteq AllKinds
  BY ReadsAssumption DEF MaxLimit

\* A part of a sequence is of its elements, and as long as it says.
LEMMA PartFacts ==
    ASSUME NEW S, NEW t \in Seq(S), NEW m \in Nat \ {0}, NEW n \in Nat, n <= Len(t)
    PROVE  /\ SubSeq(t, m, n) \in Seq(S)
           /\ Len(SubSeq(t, m, n)) = IF m <= n THEN n - m + 1 ELSE 0
  <1>1. Len(t) \in Nat /\ \A i \in m .. n : t[i] \in S
    <2>1. Len(t) \in Nat /\ \A i \in 1 .. Len(t) : t[i] \in S
      BY LenProperties, ElementOfSeq
    <2>2. m .. n \subseteq 1 .. Len(t)
      BY <2>1
    <2>3. QED
      BY <2>1, <2>2
  <1>2. m \in Int /\ n \in Int
    OBVIOUS
  <1> QED
    BY <1>1, <1>2, SubSeqProperties

\* rows are the rows of t that come after the first n.
After(t, n, rows) ==
    /\ n + Len(rows) <= Len(t)
    /\ rows = SubSeq(t, n + 1, n + Len(rows))

\* The first n rows and those after them.
LEMMA FirstAndAfter ==
    ASSUME NEW S, NEW t \in Seq(S), NEW got \in Seq(S), NEW rows \in Seq(S),
           Len(got) <= Len(t), got = SubSeq(t, 1, Len(got)), After(t, Len(got), rows)
    PROVE  /\ got \o rows \in Seq(S) /\ Len(got \o rows) = Len(got) + Len(rows)
           /\ Len(got \o rows) <= Len(t)
           /\ got \o rows = SubSeq(t, 1, Len(got \o rows))
  <1>1. PICK g \in Nat : g = Len(got)
    BY LenProperties
  <1>2. PICK r \in Nat : r = Len(rows)
    BY LenProperties
  <1>3. PICK n \in Nat : n = Len(t)
    BY LenProperties
  <1>4. got \o rows \in Seq(S) /\ Len(got \o rows) = g + r
    BY <1>1, <1>2, ConcatProperties
  <1>5. g + r <= n /\ rows = SubSeq(t, g + 1, g + r) /\ got = SubSeq(t, 1, g)
    BY <1>1, <1>2, <1>3 DEF After
  <1>6. 1 \in 1 .. n + 1 /\ g \in 1 - 1 .. n /\ g + r \in g .. n
    <2>1. g \in Nat /\ r \in Nat /\ n \in Nat /\ g + r <= n
      BY <1>1, <1>2, <1>3, <1>5
    <2>2. 1 \in 1 .. n + 1 /\ g + r \in g .. n
      BY <2>1
    <2>3. 1 - 1 = 0
      OBVIOUS
    <2>4. g \in 0 .. n
      BY <2>1
    <2> QED
      BY <2>2, <2>3, <2>4
  <1>7. SubSeq(t, 1, g) \o SubSeq(t, g + 1, g + r) = SubSeq(t, 1, g + r)
    BY <1>3, <1>6, ConcatAdjacentSubSeq
  <1> QED
    BY <1>1, <1>2, <1>3, <1>4, <1>5, <1>7

\* rows are what is left of raw without its first k.
Rest(raw, k, rows) == k <= Len(raw) /\ rows = SubSeq(raw, k + 1, Len(raw))

LEMMA AfterMore ==
    ASSUME NEW S, NEW t \in Seq(S), NEW raw \in Seq(S), NEW b \in Nat, NEW k \in Nat,
           NEW rows, After(t, b, raw), Rest(raw, k, rows)
    PROVE  After(t, b + k, rows) /\ \E q \in Nat : q = Len(rows) /\ k + q = Len(raw)
  <1>1. PICK r \in Nat : r = Len(raw)
    BY LenProperties
  <1>2. PICK n \in Nat : n = Len(t)
    BY LenProperties
  <1>3. b + r <= n /\ raw = SubSeq(t, b + 1, b + r)
    BY <1>1, <1>2 DEF After
  <1>31. k <= r /\ rows = SubSeq(raw, k + 1, r)
    BY <1>1 DEF Rest
  <1>4. Len(rows) = IF k + 1 <= r THEN r - (k + 1) + 1 ELSE 0
    BY <1>1, <1>31, PartFacts
  <1>5. PICK q \in Nat : k + q = r
    <2>1. r - k \in Nat /\ k + (r - k) = r
      BY <1>1, <1>31
    <2> QED
      BY <2>1
  <1>51. Len(rows) = q
    <2>1. CASE q = 0
      BY <1>1, <1>4, <1>5, <2>1
    <2>2. CASE q > 0
      BY <1>1, <1>4, <1>5, <2>2
    <2> QED
      BY <1>5, <2>1, <2>2
  <1>6. rows = SubSeq(t, b + k + 1, b + k + q)
    <2>1. CASE q = 0
      <3>1. SubSeq(raw, k + 1, r) = <<>>
        BY <1>1, <1>5, <2>1, SubSeqEmpty
      <3>2. b + k + 1 \in Int /\ b + k + q \in Int /\ b + k + q < b + k + 1
        BY <1>5, <2>1
      <3>3. SubSeq(t, b + k + 1, b + k + q) = <<>>
        BY <3>2, SubSeqEmpty
      <3> QED
        BY <1>31, <3>1, <3>3
    <2>2. CASE q > 0
      <3>1. /\ b + 1 \in 1 .. n /\ b + r \in 1 .. n
            /\ k + 1 \in 1 .. (b + r) - (b + 1) + 1 /\ r \in 1 .. (b + r) - (b + 1) + 1
        BY <1>1, <1>2, <1>3, <1>31, <1>5, <2>2
      <3>2. SubSeq(SubSeq(t, b + 1, b + r), k + 1, r)
              = SubSeq(t, b + 1 + (k + 1) - 1, b + 1 + r - 1)
        BY <1>2, <3>1, SubSeqOfSubSeq
      <3>3. b + 1 + (k + 1) - 1 = b + k + 1 /\ b + 1 + r - 1 = b + k + q
        BY <1>1, <1>5
      <3>4. QED
        BY <1>1, <1>3, <1>31, <3>2, <3>3
    <2>3. QED
      BY <1>5, <2>1, <2>2
  <1>7. b + k + q <= n /\ b + k + q = b + r
    <2>1. b + r <= n /\ k + q = r
      BY <1>3, <1>5
    <2>2. b \in Nat /\ k \in Nat /\ q \in Nat /\ r \in Nat /\ n \in Nat
      BY <1>1, <1>2, <1>5
    <2> QED
      BY ONLY <2>1, <2>2
  <1> QED
    BY <1>1, <1>2, <1>5, <1>51, <1>6, <1>7 DEF After

LEMMA ODataFacts ==
    ASSUME table \in Seq(RowId), NEW skip \in Nat, NEW top \in Nat \ {0}
    PROVE  LET rows == ODataRows(skip, top)
           IN  /\ rows \in Seq(RowId) /\ Len(rows) <= top
               /\ skip <= Len(table) =>
                      /\ After(table, skip, rows)
                      /\ Len(rows) < top => skip + Len(rows) = Len(table)
  <1> DEFINE rows == ODataRows(skip, top)
  <1>1. PICK n \in Nat : n = Len(table)
    BY LenProperties
  <1>2. PICK m \in Nat : m = IF skip + top < n THEN skip + top ELSE n
    BY <1>1
  <1>3. rows = SubSeq(table, skip + 1, m)
    BY <1>1, <1>2 DEF ODataRows
  <1>4. skip + 1 \in Nat \ {0} /\ m <= n
    BY <1>1, <1>2
  <1>5. rows \in Seq(RowId) /\ Len(rows) = IF skip + 1 <= m THEN m - (skip + 1) + 1 ELSE 0
    BY <1>1, <1>2, <1>3, <1>4, PartFacts
  <1>6. PICK r \in Nat : r = Len(rows)
    BY <1>5, LenProperties
  <1>7. r <= top
    BY <1>1, <1>2, <1>5, <1>6
  <1>8. ASSUME skip <= n
        PROVE  skip + r = m /\ (r < top => skip + r = n)
    BY <1>1, <1>2, <1>5, <1>6, <1>8
  <1>9. ASSUME skip <= n PROVE After(table, skip, rows)
    BY <1>1, <1>3, <1>4, <1>6, <1>8, <1>9 DEF After
  <1> QED
    BY <1>1, <1>5, <1>6, <1>7, <1>8, <1>9

\* Where the page begins that holds row n.
PageBegin(n, size) == ((n \div size + 1) - 1) * size

LEMMA PageBeginFacts ==
    ASSUME NEW n \in Nat, NEW size \in Nat \ {0}
    PROVE  \E b \in Nat, r \in Nat :
              n = b + r /\ r < size /\ PageBegin(n, size) = b /\ n - PageBegin(n, size) = r /\ r = n % size
  <1>1. n \div size \in Nat /\ n % size \in Nat /\ n % size < size
    OBVIOUS
  <1>2. n = size * (n \div size) + (n % size)
    OBVIOUS
  <1>3. PICK q \in Nat : q = n \div size
    BY <1>1
  <1>4. PICK b \in Nat : b = q * size
    BY <1>3
  <1>5. (q + 1) - 1 = q
    BY <1>3
  <1>6. n = b + (n % size)
    BY <1>2, <1>3, <1>4
  <1>7. PageBegin(n, size) = b
    BY <1>3, <1>4, <1>5 DEF PageBegin
  <1>8. n - b = n % size
    BY <1>1, <1>4, <1>6
  <1> QED
    BY <1>1, <1>4, <1>6, <1>7, <1>8

LEMMA ScanPageFacts ==
    ASSUME table \in Seq(RowId), NEW offset \in Nat, NEW size \in Nat \ {0}
    PROVE  LET page == ScanPage(offset, size)
           IN  /\ page.rows \in Seq(RowId)
               /\ offset <= Len(table) =>
                      /\ After(table, offset, page.rows)
                      /\ page.short => offset + Len(page.rows) = Len(table)
  <1> DEFINE page == ScanPage(offset, size)
  <1>1. PICK b \in Nat, r \in Nat :
              offset = b + r /\ r < size /\ PageBegin(offset, size) = b /\ offset - PageBegin(offset, size) = r
    BY PageBeginFacts
  <1>2. PICK raw : raw = ODataRows(b, size)
    OBVIOUS
  <1>3. page.rows = SubSeq(raw, r + 1, Len(raw)) /\ (page.short <=> Len(raw) < size)
    BY <1>1, <1>2 DEF ScanPage, GetRowsRows, PageBegin
  <1>4. /\ raw \in Seq(RowId) /\ Len(raw) <= size
        /\ b <= Len(table) =>
              /\ After(table, b, raw)
              /\ Len(raw) < size => b + Len(raw) = Len(table)
    BY <1>1, <1>2, ODataFacts
  <1>5. PICK l \in Nat : l = Len(raw)
    BY <1>4, LenProperties
  <1>6. PICK n \in Nat : n = Len(table)
    BY LenProperties
  <1>7. page.rows \in Seq(RowId)
    <2>1. r + 1 \in Nat \ {0} /\ l \in Nat /\ l <= Len(raw)
      BY <1>1, <1>5
    <2> QED
      BY <1>3, <1>4, <1>5, <2>1, PartFacts
  <1>8. ASSUME offset <= n
        PROVE  /\ After(table, offset, page.rows)
               /\ page.short => offset + Len(page.rows) = n
    <2>1. b <= n
      BY <1>1, <1>6, <1>8
    <2>2. After(table, b, raw) /\ (l < size => b + l = n)
      BY <1>4, <1>5, <1>6, <2>1
    <2>3. r <= l
      BY <1>1, <1>5, <1>6, <1>8, <2>2
    <2>4. /\ After(table, offset, SubSeq(raw, r + 1, Len(raw)))
          /\ \E q \in Nat : q = Len(SubSeq(raw, r + 1, Len(raw))) /\ r + q = Len(raw)
      <3>1. Rest(raw, r, SubSeq(raw, r + 1, Len(raw)))
        BY <1>5, <2>3 DEF Rest
      <3>2. /\ After(table, b + r, SubSeq(raw, r + 1, Len(raw)))
            /\ \E q \in Nat : q = Len(SubSeq(raw, r + 1, Len(raw))) /\ r + q = Len(raw)
        <4>1. b \in Nat /\ r \in Nat /\ raw \in Seq(RowId) /\ table \in Seq(RowId) /\ After(table, b, raw)
          BY <1>1, <1>4, <2>2
        <4> DEFINE rows == SubSeq(raw, r + 1, Len(raw))
        <4>2. Rest(raw, r, rows)
          BY <3>1
        <4> HIDE DEF rows
        <4>3. After(table, b + r, rows)
          BY ONLY <4>1, <4>2, AfterMore
        <4>4. \E q \in Nat : q = Len(rows) /\ r + q = Len(raw)
          BY ONLY <4>1, <4>2, AfterMore
        <4> QED
          BY <4>3, <4>4 DEF rows
      <3> QED
        BY <1>1, <1>5, <3>2
    <2>5. PICK q \in Nat : q = Len(page.rows) /\ r + q = l
      BY <1>3, <1>5, <2>4
    <2>6. ASSUME page.short PROVE offset + q = n
      <3>1. l < size
        BY <1>3, <1>5, <2>6
      <3>2. b + l = n /\ r + q = l /\ offset = b + r
        BY <1>1, <2>2, <2>5, <3>1
      <3>3. b \in Nat /\ l \in Nat /\ n \in Nat /\ r \in Nat /\ q \in Nat
        BY <1>1, <1>5, <1>6, <2>5
      <3> QED
        BY <3>2, <3>3
    <2> QED
      BY <1>3, <2>4, <2>5, <2>6
  <1> QED
    BY <1>6, <1>7, <1>8

LEMMA SkippedFacts ==
    ASSUME table \in Seq(RowId), NEW skip \in Nat, NEW top \in Nat \ {0}
    PROVE  LET rows == SkippedRows(skip, top)
           IN  /\ rows \in Seq(RowId)
               /\ skip % top = 0 => rows = ODataRows(skip, top)
  <1>1. PICK b \in Nat, r \in Nat :
              skip = b + r /\ r < top /\ PageBegin(skip, top) = b /\ skip - PageBegin(skip, top) = r
                  /\ r = skip % top
    BY PageBeginFacts
  <1>2. PICK raw : raw = ODataRows(b, top)
    OBVIOUS
  <1>3. SkippedRows(skip, top) = IF Len(raw) > r THEN SubSeq(raw, r + 1, Len(raw)) ELSE raw
    BY <1>1, <1>2 DEF SkippedRows, GetRowsRows, PageBegin
  <1>4. raw \in Seq(RowId)
    BY <1>1, <1>2, ODataFacts
  <1>5. PICK l \in Nat : l = Len(raw)
    BY <1>4, LenProperties
  <1>6. SubSeq(raw, r + 1, l) \in Seq(RowId)
    <2>1. r + 1 \in Nat \ {0} /\ l <= Len(raw)
      BY <1>1, <1>5
    <2> QED
      BY <1>4, <1>5, <2>1, PartFacts
  <1>7. ASSUME r = 0 PROVE SkippedRows(skip, top) = ODataRows(skip, top)
    <2>1. b = skip /\ r + 1 = 1
      <3>1. skip = b + r /\ b \in Nat
        BY <1>1
      <3> QED
        BY <1>7, <3>1
    <2>2. SubSeq(raw, 1, Len(raw)) = raw
      BY <1>4, SubSeqFull
    <2> QED
      BY <1>2, <1>3, <2>1, <2>2
  <1> QED
    BY <1>1, <1>3, <1>4, <1>5, <1>6, <1>7

-----------------------------------------------------------------------------
(* What is known of a chain of reads.                                      *)

\* The part of the table that a chain has accounted for.
AccountedFor(k, t) ==
    ~k.moved /\ k.flaws = {} =>
        /\ Len(k.got) <= Len(t) /\ k.got = SubSeq(t, 1, Len(k.got))
        /\ k.pc \in {"odata", "getrows", "plural"} => Len(k.got) = k.skip
        /\ k.pc \in {"count", "countrows"} => k.got = <<>>
        /\ k.pc \in {"page", "again"} => k.said = "nothing"
        /\ k.said = "more" => Len(k.got) = k.skip + k.limit
        /\ k.said = "complete" => k.got = t

Accounted == \A c \in Calls : AccountedFor(call[c], table)

LEMMA IdleIsChain == Idle \in Chains
  <1>1. PageSize \in 1 .. IF PageSize > MinPage THEN PageSize ELSE MinPage
    BY LimitFacts
  <1>2. 0 \in 0 .. MaxPages - 1
    BY LimitFacts
  <1>3. <<>> \in Seq(RowId)
    OBVIOUS
  <1> QED
    BY <1>1, <1>2, <1>3, LimitFacts DEF Idle, Chains, Waits, AllKinds, Said, Flaw

LEMMA ReadsTypeInit == ReadsInit => ReadsTypeOK
  <1> SUFFICES ASSUME ReadsInit PROVE ReadsTypeOK
    OBVIOUS
  <1>1. PICK n \in 0 .. MaxRows : table = [i \in 1 .. n |-> i]
    BY DEF ReadsInit
  <1>2. n \in Nat /\ n <= MaxRows /\ \A i \in 1 .. n : i \in RowId
    BY <1>1, LimitFacts DEF RowId
  <1>3. table \in Seq(RowId) /\ Len(table) = n
    <2>1. table \in [1 .. n -> RowId]
      BY <1>1, <1>2
    <2> QED
      BY <1>2, <2>1, LenProperties, SeqDef
  <1>4. call \in [Calls -> Chains]
    BY IdleIsChain DEF ReadsInit
  <1>5. writes = 0 /\ 0 \in 0 .. Changes /\ n <= MaxRows + 0
    BY <1>2, LimitFacts DEF ReadsInit
  <1> QED
    BY <1>3, <1>4, <1>5 DEF ReadsInit, ReadsTypeOK

\* An answer is the next part of a chain.
LEMMA AnswerFacts ==
    ASSUME ReadsTypeOK, NEW c \in Calls, NEW rows \in Seq(RowId), NEW says \in Said,
           NEW flaws \in SUBSET Flaw, Answer(c, rows, says, flaws)
    PROVE  /\ call' \in [Calls -> Chains]
           /\ \A d \in Calls \ {c} : call'[d] = call[d]
           /\ call'[c].pc = "idle" /\ call'[c].got = call[c].got \o rows
           /\ call'[c].said = says /\ call'[c].flaws = call[c].flaws \cup flaws
           /\ call'[c].moved = call[c].moved /\ call'[c].skip = call[c].skip
           /\ call'[c].limit = call[c].limit
  <1>1. call[c] \in Chains /\ call \in [Calls -> Chains]
    BY DEF ReadsTypeOK
  <1>2. call' = [call EXCEPT ![c] = [call[c] EXCEPT !.pc = "idle", !.got = @ \o rows, !.said = says,
                                         !.flaws = @ \cup flaws]]
    BY <1>1 DEF Answer
  <1>3. call[c].got \o rows \in Seq(RowId)
    BY <1>1, ConcatProperties DEF Chains
  <1>4. [call[c] EXCEPT !.pc = "idle", !.got = @ \o rows, !.said = says,
                        !.flaws = @ \cup flaws] \in Chains
    BY <1>1, <1>3 DEF Chains, Waits
  <1>5. call' \in [Calls -> Chains] /\ \A d \in Calls \ {c} : call'[d] = call[d]
    BY <1>1, <1>2, <1>4
  <1>6. call'[c] = [call[c] EXCEPT !.pc = "idle", !.got = @ \o rows, !.said = says,
                                   !.flaws = @ \cup flaws]
    BY <1>1, <1>2
  <1> QED
    BY <1>1, <1>5, <1>6 DEF Chains

\* One chain's step, when what is known of it lives on.
LEMMA OtherChains ==
    ASSUME Accounted, NEW c \in Calls, table' = table,
           \A d \in Calls \ {c} : call'[d] = call[d], AccountedFor(call'[c], table)
    PROVE  Accounted'
  <1>1. \A d \in Calls : AccountedFor(call'[d], table)
    BY DEF Accounted
  <1> QED
    BY <1>1 DEF Accounted

\* An answer lives up to what it says.
LEMMA AnswerAccounts ==
    ASSUME ReadsTypeOK, Accounted, table' = table, NEW c \in Calls, NEW rows \in Seq(RowId),
           NEW says \in Said, NEW flaws \in SUBSET Flaw, Answer(c, rows, says, flaws),
           ~call[c].moved /\ call[c].flaws = {} /\ flaws = {} =>
               /\ After(table, Len(call[c].got), rows)
               /\ says = "more" => Len(call[c].got) = call[c].skip /\ Len(rows) = call[c].limit
               /\ says = "complete" => Len(call[c].got) + Len(rows) = Len(table)
    PROVE  Accounted' /\ call' \in [Calls -> Chains]
  <1>1. call' \in [Calls -> Chains] /\ \A d \in Calls \ {c} : call'[d] = call[d]
    BY AnswerFacts
  <1> DEFINE k == call[c]
             j == call'[c]
  <1>2. k \in Chains /\ table \in Seq(RowId) /\ AccountedFor(k, table)
    BY DEF ReadsTypeOK, Accounted
  <1>3. /\ j.pc = "idle" /\ j.got = k.got \o rows /\ j.said = says /\ j.flaws = k.flaws \cup flaws
        /\ j.moved = k.moved /\ j.skip = k.skip /\ j.limit = k.limit /\ k.got \in Seq(RowId)
    BY <1>2, AnswerFacts DEF Chains
  <1>31. ~k.moved /\ k.flaws = {} /\ flaws = {} =>
            /\ After(table, Len(k.got), rows)
            /\ says = "more" => Len(k.got) = k.skip /\ Len(rows) = k.limit
            /\ says = "complete" => Len(k.got) + Len(rows) = Len(table)
    OBVIOUS
  <1> HIDE DEF k, j
  <1>4. ASSUME ~j.moved, j.flaws = {}
        PROVE  /\ Len(j.got) <= Len(table) /\ j.got = SubSeq(table, 1, Len(j.got))
               /\ says = "more" => Len(j.got) = j.skip + j.limit
               /\ says = "complete" => j.got = table
    <2>1. ~k.moved /\ k.flaws = {} /\ flaws = {}
      BY <1>3, <1>4
    <2>2. /\ Len(k.got) <= Len(table) /\ k.got = SubSeq(table, 1, Len(k.got))
          /\ After(table, Len(k.got), rows)
      BY <1>2, <1>31, <2>1 DEF AccountedFor
    <2>3. /\ Len(j.got) = Len(k.got) + Len(rows) /\ Len(j.got) <= Len(table)
          /\ j.got = SubSeq(table, 1, Len(j.got))
      <3> DEFINE g == k.got
      <3>1. g \in Seq(RowId) /\ g = k.got
        BY <1>3
      <3> HIDE DEF g
      <3>2. /\ Len(g \o rows) = Len(g) + Len(rows) /\ Len(g \o rows) <= Len(table)
            /\ g \o rows = SubSeq(table, 1, Len(g \o rows))
        <4>1. table \in Seq(RowId) /\ After(table, Len(g), rows)
          BY <1>2, <2>2, <3>1
        <4>2. Len(g) <= Len(table) /\ g = SubSeq(table, 1, Len(g))
          BY <2>2, <3>1
        <4>3. Len(g \o rows) = Len(g) + Len(rows)
          BY <3>1, ConcatProperties
        <4>4. Len(g \o rows) <= Len(table) /\ g \o rows = SubSeq(table, 1, Len(g \o rows))
          BY <3>1, <4>1, <4>2, FirstAndAfter
        <4> QED
          BY <4>3, <4>4
      <3> QED
        BY <1>3, <3>1, <3>2
    <2>4. ASSUME says = "more" PROVE Len(j.got) = j.skip + j.limit
      BY <1>3, <1>31, <2>1, <2>3, <2>4
    <2>5. ASSUME says = "complete" PROVE j.got = table
      BY <1>2, <1>31, <2>1, <2>3, <2>5, SubSeqFull
    <2> QED
      BY <2>3, <2>4, <2>5
  <1>5. AccountedFor(j, table)
    BY <1>3, <1>4 DEF AccountedFor
  <1> QED
    BY <1>1, <1>5, OtherChains DEF j

\* A call that goes on asking for the same rows.
LEMMA AsksAgain ==
    ASSUME ReadsTypeOK, Accounted, table' = table, NEW c \in Calls, NEW p \in Waits,
           call' = [call EXCEPT ![c].pc = p],
           p \in {"getrows", "plural"} => call[c].pc \in {"odata", "getrows", "plural"},
           p \in {"count", "countrows"} => call[c].pc \in {"count", "countrows"},
           p \notin {"odata", "page", "again"}
    PROVE  Accounted' /\ call' \in [Calls -> Chains]
  <1>1. call \in [Calls -> Chains] /\ call[c] \in Chains
    BY DEF ReadsTypeOK
  <1>2. call' \in [Calls -> Chains] /\ \A d \in Calls \ {c} : call'[d] = call[d]
    BY <1>1 DEF Chains
  <1>3. call'[c] = [call[c] EXCEPT !.pc = p]
    BY <1>1
  <1>4. AccountedFor(call[c], table)
    BY DEF Accounted
  <1>5. AccountedFor(call'[c], table)
    BY <1>1, <1>3, <1>4 DEF AccountedFor, Chains
  <1> QED
    BY <1>2, <1>5, OtherChains

LEMMA PageSaysFacts ==
    ASSUME NEW c, NEW rows, NEW fit
    PROVE  /\ PageSays(c, rows, fit) \in Said
           /\ PageSays(c, rows, fit) = "more" => Len(rows) >= call[c].limit
           /\ PageSays(c, rows, fit) = "complete" =>
                  ~(Len(rows) >= call[c].limit) \/ (Offload /\ Len(rows) > fit)
  BY DEF PageSays, Said

\* A page of the rows that follow those of the chain.
LEMMA PageAccounts ==
    ASSUME ReadsTypeOK, Accounted, table' = table, NEW c \in Calls,
           NEW rows \in Seq(RowId), NEW flaws \in SUBSET Flaw,
           call[c].pc \in {"odata", "getrows", "plural"},
           flaws = {} => rows = ODataRows(call[c].skip, call[c].limit),
           AnswerPage(c, rows, flaws)
    PROVE  Accounted' /\ call' \in [Calls -> Chains]
  <1> DEFINE k == call[c]
  <1>1. k \in Chains /\ table \in Seq(RowId) /\ AccountedFor(k, table)
    BY DEF ReadsTypeOK, Accounted
  <1>2. PICK fit \in 0 .. Len(rows) :
             Answer(c, rows, PageSays(c, rows, fit),
                    flaws \cup IF Offload /\ fit < Len(rows) THEN {"offloaded"} ELSE {})
    BY DEF AnswerPage
  <1> DEFINE says == PageSays(c, rows, fit)
             all == flaws \cup IF Offload /\ fit < Len(rows) THEN {"offloaded"} ELSE {}
  <1>3. says \in Said /\ all \in SUBSET Flaw
    BY PageSaysFacts DEF Flaw
  <1>4. ASSUME ~k.moved, k.flaws = {}, all = {}
        PROVE  /\ After(table, Len(k.got), rows)
               /\ says = "more" => Len(k.got) = k.skip /\ Len(rows) = k.limit
               /\ says = "complete" => Len(k.got) + Len(rows) = Len(table)
    <2>1. flaws = {} /\ ~(Offload /\ fit < Len(rows))
      BY <1>4
    <2>2. k.limit \in Nat \ {0} /\ k.skip \in Nat
      BY <1>1, LimitFacts DEF Chains
    <2>3. Len(k.got) = k.skip /\ k.skip <= Len(table)
      BY <1>1, <1>4 DEF AccountedFor
    <2>4. /\ After(table, k.skip, rows) /\ Len(rows) <= k.limit
          /\ Len(rows) < k.limit => k.skip + Len(rows) = Len(table)
      BY <1>1, <2>1, <2>2, <2>3, ODataFacts
    <2>5. PICK r \in Nat : r = Len(rows)
      BY LenProperties
    <2>6. PICK l \in Nat : l = k.limit
      BY <2>2
    <2>7. says = "more" => r = l
      BY <2>4, <2>5, <2>6, PageSaysFacts
    <2>8. says = "complete" => r < l
      <3>1. ~(Offload /\ r > fit)
        BY <1>2, <2>1, <2>5
      <3> QED
        BY <2>5, <2>6, <3>1, PageSaysFacts
    <2> QED
      BY <2>3, <2>4, <2>5, <2>6, <2>7, <2>8
  <1> HIDE DEF says, all
  <1>5. Answer(c, rows, says, all)
    BY <1>2 DEF says, all
  <1> QED
    BY <1>3, <1>4, <1>5, AnswerAccounts

-----------------------------------------------------------------------------
(* Every action.                                                           *)

\* What an action of a call leaves alone.
LEMMA CallTypes ==
    ASSUME ReadsTypeOK, call' \in [Calls -> Chains], table' = table, writes' = writes,
           getrowsOnly' \in BOOLEAN
    PROVE  ReadsTypeOK'
  BY DEF ReadsTypeOK

LEMMA SendFacts ==
    ASSUME ReadsTypeOK, Accounted, table' = table, NEW c \in Calls, NEW kind \in AllKinds,
           NEW limit \in Limits, NEW skip \in Nat, NEW got \in Seq(RowId),
           NEW flaws \in SUBSET Flaw, NEW moved \in BOOLEAN,
           Send(c, kind, limit, skip, got, flaws, moved),
           ~moved /\ flaws = {} => /\ Len(got) <= Len(table) /\ got = SubSeq(table, 1, Len(got))
                                  /\ Len(got) = skip /\ (kind = "count" => got = <<>>)
    PROVE  Accounted' /\ call' \in [Calls -> Chains]
  <1>1. call \in [Calls -> Chains] /\ call[c] \in Chains
    BY DEF ReadsTypeOK
  <1>2. PICK p : p = IF kind \in Scans THEN "page" ELSE IF kind = "count" THEN "count"
                     ELSE IF getrowsOnly THEN "getrows" ELSE "odata"
    OBVIOUS
  <1>3. /\ p \in Waits /\ p \in {"page", "count", "getrows", "odata"}
        /\ p = "count" => kind = "count"
    BY <1>2 DEF Waits
  <1> DEFINE j == [Idle EXCEPT !.kind = kind, !.limit = limit, !.skip = skip, !.got = got,
                               !.flaws = flaws, !.moved = moved, !.pc = p]
  <1>4. j \in Chains
    BY <1>3, IdleIsChain DEF Chains
  <1>5. /\ j.kind = kind /\ j.limit = limit /\ j.skip = skip /\ j.got = got
        /\ j.flaws = flaws /\ j.moved = moved /\ j.pc = p /\ j.said = "nothing"
    BY DEF Idle
  <1>6. call' = [call EXCEPT ![c] = j]
    BY <1>2 DEF Send
  <1> HIDE DEF j
  <1>7. call' \in [Calls -> Chains] /\ call'[c] = j /\ \A d \in Calls \ {c} : call'[d] = call[d]
    BY <1>1, <1>4, <1>6
  <1>8. AccountedFor(j, table)
    BY <1>3, <1>5 DEF AccountedFor
  <1> QED
    BY <1>7, <1>8, OtherChains

LEMMA ReadKeeps ==
    ASSUME ReadsTypeOK, Accounted, NEW c \in Calls, NEW kind \in Kinds, NEW limit \in Limits,
           Read(c, kind, limit)
    PROVE  ReadsTypeOK' /\ Accounted'
  <1>1. kind \in AllKinds /\ <<>> \in Seq(RowId) /\ {} \in SUBSET Flaw
    BY LimitFacts
  <1>2. Len(<<>>) = 0 /\ SubSeq(table, 1, 0) = <<>>
    BY SubSeqEmpty
  <1>3. Len(table) \in Nat
    BY LenProperties DEF ReadsTypeOK
  <1>4. Send(c, kind, limit, 0, <<>>, {}, FALSE) /\ UNCHANGED <<table, writes, getrowsOnly>>
    BY DEF Read
  <1>5. PICK e \in Seq(RowId) : e = <<>>
    BY <1>1
  <1>6. Len(e) <= Len(table) /\ e = SubSeq(table, 1, Len(e)) /\ Len(e) = 0
    BY <1>2, <1>3, <1>5
  <1>7. PICK none \in SUBSET Flaw, moved \in BOOLEAN, start \in Nat :
             none = {} /\ moved = FALSE /\ start = 0
    OBVIOUS
  <1>8. Send(c, kind, limit, start, e, none, moved) /\ table' = table
    BY <1>4, <1>5, <1>7
  <1>9. Accounted' /\ call' \in [Calls -> Chains]
    BY <1>1, <1>5, <1>6, <1>7, <1>8, SendFacts
  <1> QED
    BY <1>4, <1>9, CallTypes DEF ReadsTypeOK

LEMMA ResumeKeeps ==
    ASSUME ReadsTypeOK, Accounted, NEW c \in Calls, NEW limit \in Limits, Resume(c, limit)
    PROVE  ReadsTypeOK' /\ Accounted'
  <1> DEFINE k == call[c]
  <1>1. k \in Chains /\ AccountedFor(k, table)
    BY DEF ReadsTypeOK, Accounted
  <1>2. /\ k.said = "more" /\ Send(c, "page", limit, k.skip + k.limit, k.got, k.flaws, k.moved)
        /\ UNCHANGED <<table, writes, getrowsOnly>>
    BY DEF Resume
  <1>3. /\ k.got \in Seq(RowId) /\ k.flaws \in SUBSET Flaw /\ k.moved \in BOOLEAN
        /\ k.skip + k.limit \in Nat /\ "page" \in AllKinds
    <2>1. /\ k.got \in Seq(RowId) /\ k.flaws \in SUBSET Flaw /\ k.moved \in BOOLEAN
          /\ k.skip \in Nat /\ k.limit \in Limits
      BY <1>1 DEF Chains
    <2>2. k.limit \in Nat
      BY <2>1, LimitFacts
    <2> QED
      BY <2>1, <2>2 DEF AllKinds
  <1>4. ~k.moved /\ k.flaws = {} => /\ Len(k.got) <= Len(table) /\ k.got = SubSeq(table, 1, Len(k.got))
                                   /\ Len(k.got) = k.skip + k.limit
    BY <1>1, <1>2 DEF AccountedFor
  <1> DEFINE s == k.skip + k.limit
  <1> HIDE DEF k, s
  <1>5. Accounted' /\ call' \in [Calls -> Chains]
    BY <1>2, <1>3, <1>4, SendFacts DEF s
  <1> QED
    BY <1>2, <1>5, CallTypes DEF ReadsTypeOK

LEMMA NothingAfter ==
    ASSUME NEW t \in Seq(RowId), NEW got \in Seq(RowId), Len(got) <= Len(t)
    PROVE  After(t, Len(got), <<>>)
  <1>1. PICK g \in Nat : g = Len(got) /\ g <= Len(t)
    BY LenProperties
  <1>2. Len(<<>>) = 0 /\ g + 0 = g /\ g \in Int /\ g + 1 \in Int /\ g < g + 1
    BY <1>1
  <1>3. SubSeq(t, g + 1, g) = <<>>
    BY <1>2, SubSeqEmpty
  <1> QED
    BY <1>1, <1>2, <1>3 DEF After

LEMMA ErrorAccounts ==
    ASSUME ReadsTypeOK, Accounted, table' = table, NEW c \in Calls, AnswerError(c)
    PROVE  Accounted' /\ call' \in [Calls -> Chains]
  <1>1. Answer(c, <<>>, "error", {})
    BY DEF AnswerError
  <1>2. ASSUME ~call[c].moved, call[c].flaws = {} PROVE After(table, Len(call[c].got), <<>>)
    <2>1. AccountedFor(call[c], table) /\ call[c].got \in Seq(RowId) /\ table \in Seq(RowId)
      BY DEF Accounted, ReadsTypeOK, Chains
    <2> QED
      BY <1>2, <2>1, NothingAfter DEF AccountedFor
  <1>3. <<>> \in Seq(RowId) /\ "error" \in Said /\ {} \in SUBSET Flaw
    BY DEF Said
  <1> QED
    BY <1>1, <1>2, <1>3, AnswerAccounts

LEMMA PlainKeeps ==
    ASSUME ReadsTypeOK, Accounted, NEW c \in Calls,
           \/ ODataReply(c) \/ ODataFails(c) \/ GetRowsReply(c) \/ GetRowsFails(c) \/ PluralReply(c)
    PROVE  ReadsTypeOK' /\ Accounted'
  <1> DEFINE k == call[c]
  <1>1. /\ k \in Chains /\ table \in Seq(RowId) /\ k.skip \in Nat /\ k.limit \in Nat \ {0}
        /\ getrowsOnly \in BOOLEAN
    BY LimitFacts DEF ReadsTypeOK, Chains
  <1>2. ODataRows(k.skip, k.limit) \in Seq(RowId) /\ SkippedRows(k.skip, k.limit) \in Seq(RowId)
    BY <1>1, ODataFacts, SkippedFacts
  <1>3. {} \in SUBSET Flaw /\ {"relimited"} \in SUBSET Flaw /\ {"relimited"} # {}
    BY DEF Flaw
  <1>4. /\ k.pc \in {"odata", "getrows", "plural"} /\ table' = table /\ writes' = writes
        /\ getrowsOnly' \in BOOLEAN
    BY <1>1 DEF ODataReply, ODataFails, GetRowsReply, GetRowsFails, PluralReply
  <1>5. ASSUME AnswerPage(c, ODataRows(k.skip, k.limit), {})
        PROVE  Accounted' /\ call' \in [Calls -> Chains]
    BY <1>2, <1>3, <1>4, <1>5, PageAccounts
  <1>6. ASSUME AnswerPage(c, SkippedRows(k.skip, k.limit),
                          IF k.skip % k.limit # 0 THEN {"relimited"} ELSE {})
        PROVE  Accounted' /\ call' \in [Calls -> Chains]
    <2>1. PICK rows \in Seq(RowId) : rows = SkippedRows(k.skip, k.limit)
      BY <1>2
    <2>2. PICK flaws \in SUBSET Flaw :
                 flaws = IF k.skip % k.limit # 0 THEN {"relimited"} ELSE {}
      BY <1>3
    <2>3. flaws = {} => rows = ODataRows(k.skip, k.limit)
      BY <1>1, <1>3, <2>1, <2>2, SkippedFacts
    <2>4. AnswerPage(c, rows, flaws)
      BY <1>6, <2>1, <2>2
    <2> QED
      BY <1>4, <2>3, <2>4, PageAccounts
  <1>7. ASSUME AnswerError(c) PROVE Accounted' /\ call' \in [Calls -> Chains]
    BY <1>4, <1>7, ErrorAccounts
  <1>8. ASSUME NEW p \in {"getrows", "plural"}, call' = [call EXCEPT ![c].pc = p]
        PROVE  Accounted' /\ call' \in [Calls -> Chains]
    <2>1. p \in Waits /\ p \notin {"odata", "page", "again", "count", "countrows"}
      BY DEF Waits
    <2> QED
      BY <1>4, <1>8, <2>1, AsksAgain
  <1>9. Accounted' /\ call' \in [Calls -> Chains]
    <2>1. CASE ODataReply(c)
      BY <1>5, <2>1 DEF ODataReply
    <2>2. CASE ODataFails(c)
      BY <1>7, <1>8, <2>2 DEF ODataFails
    <2>3. CASE GetRowsReply(c)
      BY <1>6, <2>3 DEF GetRowsReply
    <2>4. CASE GetRowsFails(c)
      BY <1>7, <1>8, <2>4 DEF GetRowsFails
    <2>5. CASE PluralReply(c)
      BY <1>5, <1>7, <2>5 DEF PluralReply
    <2> QED
      BY <2>1, <2>2, <2>3, <2>4, <2>5
  <1> QED
    BY <1>4, <1>9, CallTypes

LEMMA EndScanAccounts ==
    ASSUME ReadsTypeOK, Accounted, table' = table, NEW c \in Calls, NEW rows \in Seq(RowId),
           NEW how \in {"exhausted", "stopped_early", "ceiling", "scan_error"},
           EndScan(c, rows, how),
           ~call[c].moved /\ call[c].flaws = {} =>
               /\ After(table, Len(call[c].got), rows)
               /\ how = "exhausted" => Len(call[c].got) + Len(rows) = Len(table)
    PROVE  Accounted' /\ call' \in [Calls -> Chains]
  <1>1. PICK says : says = ScanSays(c, rows, how)
    OBVIOUS
  <1>2. /\ says \in {"partial", "complete"} /\ says \in Said
        /\ says = "complete" => how # "ceiling" /\ (call[c].kind = "rollup" => how = "exhausted")
    BY <1>1 DEF ScanSays, Said
  <1>3. PICK flaws : flaws = IF call[c].kind # "rollup" THEN {how} \cap Flaw ELSE {}
    OBVIOUS
  <1>4. flaws \in SUBSET Flaw
    BY <1>3
  <1>5. says = "complete" /\ flaws = {} => how = "exhausted"
    BY <1>2, <1>3 DEF Flaw
  <1>6. Answer(c, rows, says, flaws)
    BY <1>1, <1>3 DEF EndScan
  <1> QED
    BY <1>2, <1>4, <1>5, <1>6, AnswerAccounts

LEMMA HalfFacts ==
    ASSUME NEW size \in 1 .. IF PageSize > MinPage THEN PageSize ELSE MinPage
    PROVE  Half(size) \in 1 .. IF PageSize > MinPage THEN PageSize ELSE MinPage
  <1>1. PICK m \in Nat : m = IF PageSize > MinPage THEN PageSize ELSE MinPage
    BY LimitFacts
  <1>2. size \in Nat /\ 1 <= size /\ size <= m /\ MinPage \in Nat /\ 1 <= MinPage /\ MinPage <= m
    BY <1>1, LimitFacts
  <1>3. PICK h \in Nat : h = size \div 2 /\ h <= size
    BY <1>2
  <1>4. Half(size) = IF h > MinPage THEN h ELSE MinPage
    BY <1>3 DEF Half
  <1> QED
    BY <1>1, <1>2, <1>3, <1>4

LEMMA ScanReplyKeeps ==
    ASSUME ReadsTypeOK, Accounted, NEW c \in Calls, ScanReply(c)
    PROVE  ReadsTypeOK' /\ Accounted'
  <1> DEFINE k == call[c]
  <1>1. k \in Chains /\ table \in Seq(RowId) /\ AccountedFor(k, table) /\ call \in [Calls -> Chains]
    BY DEF ReadsTypeOK, Accounted
  <1>2. PICK n \in Nat : n = Len(k.got)
    BY <1>1, LenProperties DEF Chains
  <1>3. k.size \in Nat \ {0}
    BY <1>1, LimitFacts DEF Chains
  <1>4. PICK page : page = ScanPage(n, k.size)
    OBVIOUS
  <1>5. /\ page.rows \in Seq(RowId)
        /\ n <= Len(table) =>
               /\ After(table, n, page.rows)
               /\ page.short => n + Len(page.rows) = Len(table)
    BY <1>1, <1>2, <1>3, <1>4, ScanPageFacts
  <1>6. PICK rows \in Seq(RowId) : rows = page.rows
    BY <1>5
  <1>7. ~k.moved /\ k.flaws = {} =>
            /\ After(table, Len(k.got), rows)
            /\ page.short => Len(k.got) + Len(rows) = Len(table)
    BY <1>1, <1>2, <1>5, <1>6 DEF AccountedFor
  <1>8. UNCHANGED <<table, writes, getrowsOnly>> /\ k.pc \in {"page", "again"}
    BY DEF ScanReply
  <1>9. \/ page.short /\ EndScan(c, rows, "exhausted")
        \/ EndScan(c, rows, "stopped_early")
        \/ EndScan(c, rows, "ceiling")
        \/ /\ k.pages + 1 # MaxPages
           /\ call' = [call EXCEPT ![c].pc = "page", ![c].got = @ \o rows, ![c].pages = @ + 1]
    BY <1>2, <1>4, <1>6 DEF ScanReply
  <1>10. Accounted' /\ call' \in [Calls -> Chains]
    <2>1. ASSUME NEW how \in {"exhausted", "stopped_early", "ceiling", "scan_error"},
                 EndScan(c, rows, how), how = "exhausted" => page.short
          PROVE  Accounted' /\ call' \in [Calls -> Chains]
      BY <1>7, <1>8, <2>1, EndScanAccounts
    <2>2. ASSUME k.pages + 1 # MaxPages,
                 call' = [call EXCEPT ![c].pc = "page", ![c].got = @ \o rows, ![c].pages = @ + 1]
          PROVE  Accounted' /\ call' \in [Calls -> Chains]
      <3> DEFINE j == [k EXCEPT !.pc = "page", !.got = @ \o rows, !.pages = @ + 1]
      <3>1. k.pages + 1 \in 0 .. MaxPages - 1
        BY <1>1, <2>2, LimitFacts DEF Chains
      <3>2. k.got \in Seq(RowId) /\ k.got \o rows \in Seq(RowId)
        BY <1>1, ConcatProperties DEF Chains
      <3>3. j \in Chains
        BY <1>1, <3>1, <3>2 DEF Chains, Waits
      <3>4. call' = [call EXCEPT ![c] = j]
        BY <1>1, <2>2
      <3>5. /\ j.pc = "page" /\ j.got = k.got \o rows /\ j.said = k.said /\ j.flaws = k.flaws
            /\ j.moved = k.moved
        BY <1>1 DEF Chains
      <3> HIDE DEF j
      <3>6. call' \in [Calls -> Chains] /\ call'[c] = j /\ \A d \in Calls \ {c} : call'[d] = call[d]
        BY <1>1, <3>3, <3>4
      <3>7. ASSUME ~j.moved, j.flaws = {}
            PROVE  /\ Len(j.got) <= Len(table) /\ j.got = SubSeq(table, 1, Len(j.got))
                   /\ j.said = "nothing"
        <4>1. /\ Len(k.got) <= Len(table) /\ k.got = SubSeq(table, 1, Len(k.got))
              /\ k.said = "nothing"
          BY <1>1, <1>8, <3>5, <3>7 DEF AccountedFor
        <4>2. After(table, Len(k.got), rows)
          BY <1>7, <3>5, <3>7
        <4>3. PICK g \in Seq(RowId) : g = k.got
          BY <3>2
        <4>4. Len(g \o rows) <= Len(table) /\ g \o rows = SubSeq(table, 1, Len(g \o rows))
          BY <1>1, <4>1, <4>2, <4>3, FirstAndAfter
        <4> QED
          BY <3>5, <4>1, <4>3, <4>4
      <3>8. AccountedFor(j, table)
        BY <3>5, <3>7 DEF AccountedFor
      <3> QED
        BY <1>8, <3>6, <3>8, OtherChains
    <2> QED
      BY <1>9, <2>1, <2>2
  <1> QED
    BY <1>8, <1>10, CallTypes DEF ReadsTypeOK

LEMMA ScanFailsKeeps ==
    ASSUME ReadsTypeOK, Accounted, NEW c \in Calls, ScanFails(c)
    PROVE  ReadsTypeOK' /\ Accounted'
  <1>1. UNCHANGED <<table, writes, getrowsOnly>> /\ table \in Seq(RowId)
    BY DEF ScanFails, ReadsTypeOK
  <1>2. ASSUME EndScan(c, <<>>, "scan_error") PROVE Accounted' /\ call' \in [Calls -> Chains]
    <2>1. <<>> \in Seq(RowId)
      OBVIOUS
    <2>2. ASSUME ~call[c].moved, call[c].flaws = {} PROVE After(table, Len(call[c].got), <<>>)
      BY <1>1, <2>2, NothingAfter DEF Accounted, AccountedFor, ReadsTypeOK, Chains
    <2> QED
      BY <1>1, <1>2, <2>1, <2>2, EndScanAccounts
  <1>3. Accounted' /\ call' \in [Calls -> Chains]
    BY <1>1, <1>2, ErrorAccounts DEF ScanFails
  <1> QED
    BY <1>1, <1>3, CallTypes DEF ReadsTypeOK

LEMMA ScanTimesOutKeeps ==
    ASSUME ReadsTypeOK, Accounted, NEW c \in Calls, ScanTimesOut(c)
    PROVE  ReadsTypeOK' /\ Accounted'
  <1> DEFINE k == call[c]
  <1>1. k \in Chains /\ AccountedFor(k, table) /\ call \in [Calls -> Chains]
    BY DEF ReadsTypeOK, Accounted
  <1>2. PICK p \in {"page", "again"} :
             call' = [call EXCEPT ![c].size = Half(k.size), ![c].pc = p]
    BY DEF ScanTimesOut
  <1>3. k.pc = "page" /\ UNCHANGED <<table, writes, getrowsOnly>>
    BY DEF ScanTimesOut
  <1> DEFINE j == [k EXCEPT !.size = Half(k.size), !.pc = p]
  <1>4. j \in Chains
    <2>1. Half(k.size) \in 1 .. IF PageSize > MinPage THEN PageSize ELSE MinPage
      BY <1>1, HalfFacts DEF Chains
    <2> QED
      BY <1>1, <1>2, <2>1 DEF Chains, Waits
  <1>5. /\ j.pc = p /\ j.got = k.got /\ j.said = k.said /\ j.flaws = k.flaws
        /\ j.moved = k.moved /\ j.skip = k.skip /\ j.limit = k.limit
    BY <1>1 DEF Chains
  <1>6. call' = [call EXCEPT ![c] = j]
    BY <1>1, <1>2
  <1> HIDE DEF j
  <1>7. call' \in [Calls -> Chains] /\ call'[c] = j /\ \A d \in Calls \ {c} : call'[d] = call[d]
    BY <1>1, <1>4, <1>6
  <1>8. AccountedFor(j, table)
    BY <1>1, <1>2, <1>3, <1>5 DEF AccountedFor
  <1>9. Accounted'
    BY <1>3, <1>7, <1>8, OtherChains
  <1> QED
    BY <1>3, <1>7, <1>9, CallTypes DEF ReadsTypeOK

LEMMA CountKeeps ==
    ASSUME ReadsTypeOK, Accounted, NEW c \in Calls, CountReply(c) \/ CountFails(c)
    PROVE  ReadsTypeOK' /\ Accounted'
  <1> DEFINE k == call[c]
  <1>1. k \in Chains /\ table \in Seq(RowId) /\ AccountedFor(k, table)
    BY DEF ReadsTypeOK, Accounted
  <1>2. k.pc \in {"count", "countrows"} /\ UNCHANGED <<table, writes, getrowsOnly>>
    BY DEF CountReply, CountFails
  <1>3. ~k.moved /\ k.flaws = {} => k.got = <<>>
    BY <1>1, <1>2 DEF AccountedFor
  <1>4. PICK n \in Nat : n = Len(table)
    BY <1>1, LenProperties
  <1>5. Accounted' /\ call' \in [Calls -> Chains]
    <2>1. ASSUME NEW rows \in Seq(RowId), NEW says \in {"partial", "complete"},
                 Answer(c, rows, says, {}), After(table, 0, rows),
                 says = "complete" => Len(rows) = n
          PROVE  Accounted' /\ call' \in [Calls -> Chains]
      <3>1. says \in Said /\ {} \in SUBSET Flaw /\ says # "more"
        BY DEF Said
      <3>2. PICK r \in Nat : r = Len(rows)
        BY LenProperties
      <3>3. Len(<<>>) = 0 /\ 0 + r = r
        BY <3>2
      <3>4. ~k.moved /\ k.flaws = {} =>
                After(table, Len(k.got), rows) /\ (says = "complete" => Len(k.got) + Len(rows) = Len(table))
        BY <1>3, <1>4, <2>1, <3>2, <3>3
      <3> QED
        BY <1>2, <2>1, <3>1, <3>4, AnswerAccounts
    <2>2. CASE CountReply(c) /\ k.pc = "count"
      <3>1. Answer(c, table, "complete", {})
        BY <2>2 DEF CountReply
      <3>2. After(table, 0, table)
        <4>1. 0 + n = n /\ 0 + 1 = 1 /\ n <= n
          BY <1>4
        <4>2. table = SubSeq(table, 1, n)
          BY <1>1, <1>4, SubSeqFull
        <4> QED
          BY <1>4, <4>1, <4>2 DEF After
      <3> QED
        BY <1>1, <1>4, <2>1, <3>1, <3>2
    <2>3. CASE CountReply(c) /\ k.pc = "countrows"
      <3>1. PICK rows : rows = ODataRows(0, MaxLimit)
        OBVIOUS
      <3>2. MaxLimit \in Nat \ {0} /\ 0 \in Nat /\ 0 <= n
        BY <1>4, LimitFacts
      <3>3. GetRowsRows(1, MaxLimit) = rows
        <4>1. (1 - 1) * MaxLimit = 0
          BY <3>2
        <4> QED
          BY <3>1, <4>1 DEF GetRowsRows
      <3>4. /\ rows \in Seq(RowId) /\ After(table, 0, rows)
            /\ Len(rows) < MaxLimit => 0 + Len(rows) = n
        BY <1>1, <1>4, <3>1, <3>2, ODataFacts
      <3>5. PICK says : says = IF Len(rows) >= MaxLimit THEN "partial" ELSE "complete"
        OBVIOUS
      <3>6. PICK r \in Nat : r = Len(rows)
        BY <3>4, LenProperties
      <3>7. says \in {"partial", "complete"} /\ (says = "complete" => r = n)
        BY <1>4, <3>2, <3>4, <3>5, <3>6
      <3>8. Answer(c, rows, says, {})
        BY <2>3, <3>3, <3>5 DEF CountReply
      <3> QED
        BY <2>1, <3>4, <3>6, <3>7, <3>8
    <2>4. CASE CountFails(c) /\ k.pc = "count"
      <3>1. call' = [call EXCEPT ![c].pc = "countrows"]
        BY <2>4 DEF CountFails
      <3>2. "countrows" \in Waits
        BY DEF Waits
      <3> QED
        BY <1>2, <3>1, <3>2, AsksAgain
    <2>5. CASE CountFails(c) /\ k.pc = "countrows"
      <3>1. Answer(c, <<>>, "complete", {"uncounted"})
        BY <2>5 DEF CountFails
      <3>2. <<>> \in Seq(RowId) /\ "complete" \in Said /\ {"uncounted"} \in SUBSET Flaw
            /\ {"uncounted"} # {}
        BY DEF Said, Flaw
      <3>3. PICK flaws \in SUBSET Flaw : flaws = {"uncounted"} /\ flaws # {}
        BY <3>2
      <3> QED
        BY <1>2, <3>1, <3>2, <3>3, AnswerAccounts
    <2> QED
      BY <1>2, <2>2, <2>3, <2>4, <2>5
  <1> QED
    BY <1>2, <1>5, CallTypes DEF ReadsTypeOK

\* A row more, or one less.
LEMMA WriteKeeps ==
    ASSUME ReadsTypeOK, Accounted, Write
    PROVE  ReadsTypeOK' /\ Accounted'
  <1>1. /\ table \in Seq(RowId) /\ writes \in Nat /\ writes < Changes /\ Changes \in Nat
        /\ MaxRows \in Nat /\ writes' = writes + 1 /\ Len(table) <= MaxRows + writes
    BY LimitFacts DEF ReadsTypeOK, Write
  <1>2. PICK n \in Nat : n = Len(table)
    BY <1>1, LenProperties
  <1>3. writes' \in 0 .. Changes /\ MaxRows + writes' \in RowId
    BY <1>1 DEF RowId
  <1>4. ASSUME NEW i \in 1 .. n + 1
        PROVE  /\ SubSeq(table, 1, i - 1) \in Seq(RowId) /\ Len(SubSeq(table, 1, i - 1)) = i - 1
    <2>1. PICK m \in Nat : m = i - 1 /\ m <= n
      BY <1>2, <1>4
    <2>2. Len(SubSeq(table, 1, m)) = IF 1 <= m THEN m - 1 + 1 ELSE 0
      BY <1>1, <1>2, <2>1, PartFacts
    <2>3. Len(SubSeq(table, 1, m)) = m
      BY <2>1, <2>2
    <2> QED
      BY <1>1, <1>2, <2>1, <2>3, PartFacts
  <1>5. ASSUME NEW i \in 1 .. n + 1, NEW j \in Nat \ {0}
        PROVE  SubSeq(table, j, n) \in Seq(RowId) /\ Len(SubSeq(table, j, n)) = IF j <= n THEN n - j + 1 ELSE 0
    BY <1>1, <1>2, PartFacts
  <1>6. ASSUME NEW i \in 1 .. n + 1, table' = InsertAt(table, i, MaxRows + writes')
        PROVE  table' \in Seq(RowId) /\ Len(table') <= MaxRows + writes'
    <2> DEFINE a == SubSeq(table, 1, i - 1)
               b == SubSeq(table, i, n)
               e == <<MaxRows + writes'>>
    <2>1. table' = a \o e \o b
      BY <1>2, <1>6 DEF InsertAt
    <2>2. e \in Seq(RowId) /\ Len(e) = 1
      BY <1>3
    <2>3. a \in Seq(RowId) /\ Len(a) = i - 1
      BY <1>4
    <2>4. b \in Seq(RowId) /\ Len(b) = IF i <= n THEN n - i + 1 ELSE 0
      BY <1>2, <1>5
    <2> HIDE DEF a, b, e
    <2>5. a \o e \in Seq(RowId) /\ Len(a \o e) = Len(a) + Len(e)
      BY <2>2, <2>3, ConcatProperties
    <2>6. table' \in Seq(RowId) /\ Len(table') = Len(a \o e) + Len(b)
      BY <2>1, <2>4, <2>5, ConcatProperties
    <2>7. Len(a \o e) = i
      BY <1>2, <2>2, <2>3, <2>5
    <2>8. Len(table') = n + 1
      BY <1>2, <2>4, <2>6, <2>7
    <2>9. n + 1 <= MaxRows + writes'
      BY <1>1, <1>2
    <2> QED
      BY <2>6, <2>8, <2>9
  <1>7. ASSUME NEW i \in 1 .. n, table' = RemoveAt(table, i)
        PROVE  table' \in Seq(RowId) /\ Len(table') <= MaxRows + writes'
    <2> DEFINE a == SubSeq(table, 1, i - 1)
               b == SubSeq(table, i + 1, n)
    <2>1. table' = a \o b
      BY <1>2, <1>7 DEF RemoveAt
    <2>2. i \in 1 .. n + 1 /\ i + 1 \in Nat \ {0}
      BY <1>2
    <2>3. a \in Seq(RowId) /\ Len(a) = i - 1
      BY <1>4, <2>2
    <2>4. b \in Seq(RowId) /\ Len(b) = IF i + 1 <= n THEN n - (i + 1) + 1 ELSE 0
      BY <1>5, <2>2
    <2> HIDE DEF a, b
    <2>5. table' \in Seq(RowId) /\ Len(table') = Len(a) + Len(b)
      BY <2>1, <2>3, <2>4, ConcatProperties
    <2>6. Len(table') <= n
      BY <1>2, <2>3, <2>4, <2>5
    <2>7. n <= MaxRows + writes'
      BY <1>1, <1>2
    <2>8. PICK l \in Nat : l = Len(table')
      BY <2>5, LenProperties
    <2>9. PICK m \in Nat : m = MaxRows + writes'
      BY <1>1
    <2> QED
      BY <2>5, <2>6, <2>7, <2>8, <2>9
  <1>8. table' \in Seq(RowId) /\ Len(table') <= MaxRows + writes'
    BY <1>2, <1>6, <1>7 DEF Write
  <1>9. /\ call \in [Calls -> Chains] /\ getrowsOnly' = getrowsOnly
        /\ call' = [c \in Calls |-> [call[c] EXCEPT !.moved = TRUE]]
    BY DEF Write, ReadsTypeOK
  <1>10. \A c \in Calls : call'[c] \in Chains /\ call'[c].moved
    <2> TAKE c \in Calls
    <2>1. call[c] \in Chains /\ call'[c] = [call[c] EXCEPT !.moved = TRUE]
      BY <1>9
    <2> QED
      BY <2>1 DEF Chains
  <1>11. Accounted'
    BY <1>10 DEF Accounted, AccountedFor
  <1>12. call' \in [Calls -> Chains]
    BY <1>9, <1>10
  <1> QED
    BY <1>3, <1>8, <1>9, <1>11, <1>12 DEF ReadsTypeOK

LEMMA AccountedStep == ReadsTypeOK /\ Accounted /\ [ReadsNext]_readVars => ReadsTypeOK' /\ Accounted'
  <1> SUFFICES ASSUME ReadsTypeOK, Accounted, [ReadsNext]_readVars PROVE ReadsTypeOK' /\ Accounted'
    OBVIOUS
  <1>1. ASSUME NEW c \in Calls, NEW kind \in Kinds, NEW limit \in Limits, Read(c, kind, limit)
        PROVE  ReadsTypeOK' /\ Accounted'
    BY <1>1, ReadKeeps
  <1>2. ASSUME NEW c \in Calls, NEW limit \in Limits, Resume(c, limit)
        PROVE  ReadsTypeOK' /\ Accounted'
    BY <1>2, ResumeKeeps
  <1>3. ASSUME NEW c \in Calls, Reply(c) PROVE ReadsTypeOK' /\ Accounted'
    BY <1>3, PlainKeeps, ScanReplyKeeps, ScanFailsKeeps, ScanTimesOutKeeps, CountKeeps DEF Reply
  <1>4. CASE Write
    BY <1>4, WriteKeeps
  <1>5. CASE UNCHANGED readVars
    BY <1>5 DEF readVars, ReadsTypeOK, Accounted
  <1> QED
    BY <1>1, <1>2, <1>3, <1>4, <1>5 DEF ReadsNext

LEMMA AccountedInit == ReadsInit => Accounted
  <1> SUFFICES ASSUME ReadsInit, NEW c \in Calls PROVE AccountedFor(call[c], table)
    BY DEF Accounted
  <1>1. call[c].pc = "idle" /\ call[c].got = <<>> /\ call[c].said = "nothing"
    BY DEF ReadsInit, Idle
  <1>2. table \in Seq(RowId)
    BY ReadsTypeInit DEF ReadsTypeOK
  <1>3. Len(<<>>) = 0 /\ SubSeq(table, 1, 0) = <<>> /\ Len(table) \in Nat
    BY <1>2, SubSeqEmpty, LenProperties
  <1> QED
    BY <1>1, <1>3 DEF AccountedFor

(* Every reachable state of the reads is well typed, for any tables,       *)
(* limits, page sizes and number of pages.                                 *)
THEOREM ReadsTypeCorrect == ReadsSpec => []ReadsTypeOK
  <1>1. ReadsInit => ReadsTypeOK /\ Accounted
    BY ReadsTypeInit, AccountedInit
  <1> QED
    BY <1>1, AccountedStep, PTL DEF ReadsSpec

LEMMA AccountedAlways == ReadsSpec => []Accounted
  <1>1. ReadsInit => ReadsTypeOK /\ Accounted
    BY ReadsTypeInit, AccountedInit
  <1> QED
    BY <1>1, AccountedStep, PTL DEF ReadsSpec

(* A chain that is told it has the complete result has the table.          *)
THEOREM CompleteReadsAreWhole == ReadsSpec => []NothingMissing
  <1>1. Accounted => NothingMissing
    BY DEF Accounted, AccountedFor, NothingMissing
  <1> QED
    BY <1>1, AccountedAlways, PTL

(* What a chain has is the beginning of the table, no row skipped or       *)
(* repeated, whatever failed or was resized.                               *)
THEOREM ReadsArePrefixes == ReadsSpec => []PrefixOnly
  <1>1. ReadsTypeOK /\ Accounted => PrefixOnly
    <2> SUFFICES ASSUME ReadsTypeOK, Accounted, NEW c \in Calls, ~call[c].moved, call[c].flaws = {}
                 PROVE  IsPrefix(call[c].got, table)
      BY DEF PrefixOnly
    <2>1. call[c].got \in Seq(RowId)
      BY DEF ReadsTypeOK, Chains
    <2>2. SubSeq(call[c].got, 1, Len(call[c].got)) = call[c].got
      BY <2>1, SubSeqFull
    <2> QED
      BY <2>2 DEF Accounted, AccountedFor, IsPrefix
  <1> QED
    BY <1>1, ReadsTypeCorrect, AccountedAlways, PTL
=============================================================================
