------------------------------ MODULE MCGrain ------------------------------
(* Model checking of Grain: a driver and two joined sources, up to two     *)
(* conjuncts in each ON and one in the WHERE.                              *)
EXTENDS Grain, FiniteSetsExt

AtMost(k, S) == UNION {kSubset(i, S) : i \in 0 .. k}

Eq(n, a, m, b) == {<<n, a>>, <<m, b>>}

Second == {Eq(1, "co", 2, "co"), Eq(1, "x", 2, "x"), Eq(1, "y", 2, "y"), {<<2, "y">>}}
Third  == {Eq(2, "co", 3, "co"), Eq(1, "x", 3, "x"), Eq(2, "y", 3, "x"),
           Eq(2, "y", 3, "y"), {<<3, "y">>}}

Header == {{"co", "x"}}
Line   == {{"co", "x", "y"}}
Either == {{"co", "x"}, {"co", "y"}}

MCKeys   == {<<Header, Header, Line>>, <<Header, Line, Header>>,
             <<Header, Either, Line>>, <<Header, Line, {}>>}
MCLefts  == {{}, {3}, {2, 3}}
MCOns    == {<<{}, a, b>> : a \in AtMost(2, Second), b \in AtMost(2, Third)}
MCWheres == AtMost(1, {Eq(1, "x", 2, "x"), Eq(1, "y", 3, "x")})
=============================================================================
