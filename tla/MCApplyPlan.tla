---------------------------- MODULE MCApplyPlan -----------------------------
(* Paths over GRE and plain tunnels: `a` with two routes, `b` apart from it, `c`  *)
(* with a tunnel of `a`, `d` with a tunnel twice, `e` with the selectors of `a`,  *)
(* `f` without a route.                                                            *)
EXTENDS ApplyPlan, TLC

MCPaths == {"a", "b", "c", "d", "e", "f"}
MCGres == {"t1", "t4"}
MCSegmentsOf ==
  [a |-> <<"t1", "t2">>, b |-> <<"t3", "t4">>, c |-> <<"t1">>, d |-> <<"t4", "t4">>,
   e |-> <<"t5">>, f |-> <<"t3">>]
MCRoutesOf ==
  [a |-> <<"r1", "r2">>, b |-> <<"r3">>, c |-> <<"r4">>, d |-> <<"r5">>, e |-> <<"r6">>,
   f |-> <<>>]
MCOwnEgress == {"r2"}
MCSelectorOf == [t1 |-> "s1", t2 |-> "s2", t3 |-> "s3", t4 |-> "s4", t5 |-> "s1"]
I(p, b) == [path |-> p, block |-> b]
MCIntentLists ==
  {<<I("a", TRUE), I("b", TRUE)>>, <<I("b", FALSE), I("a", TRUE)>>,
   <<I("a", TRUE), I("c", FALSE)>>, <<I("d", FALSE), I("e", TRUE)>>,
   <<I("a", TRUE), I("e", TRUE)>>, <<I("d", TRUE)>>, <<I("e", TRUE), I("f", FALSE)>>,
   <<I("a", FALSE), I("a", TRUE)>>, <<I("b", FALSE), I("c", FALSE), I("a", TRUE)>>}
=============================================================================
