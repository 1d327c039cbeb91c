---------------------------- MODULE MCQueryPipe ----------------------------
(* Model-checking instance of QueryPipe.                                   *)
EXTENDS QueryPipe

MCBranches == {<<>>, <<1>>, <<1, 1, 2>>, <<1, 2, 3, 4>>}

MCForms ==
    [op : {"none"}, of : {<<k, k>> : k \in Kind}]
        \cup [op : SetOp, of : {<<"plain", "plain">>}]
        \cup { [op |-> "union_all", of |-> <<"plain", "distinct">>],
               [op |-> "union_all", of |-> <<"total", "scalar">>],
               [op |-> "except", of |-> <<"plain", "total">>] }
=============================================================================
