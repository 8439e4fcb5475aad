---------------------------- MODULE MCVppCommand ----------------------------
(* The paths of `a` have nothing in common but an edge, p3 and p4 of `b` have a   *)
(* GRE tunnel and a destination in common.  p2, p3, p4 and p5 meet at an edge,   *)
(* and the other edge of p5 may be closed to the VLAN.  Nothing hinders `c` but   *)
(* its table: it is taken to be there once that of p1 is.                        *)
EXTENDS VppCommand, TLC

MCKeys == {"a", "b", "c"}
MCPaths == {"p1", "p2", "p3", "p4", "p5", "p6"}
MCCandidates == [a |-> {"p1", "p2"}, b |-> {"p3", "p4", "p5"}, c |-> {"p6"}]
MCRoutes == {"r1", "r1b", "r2", "r3", "r4", "r5", "r6"}
MCGres == {"g1", "g2", "g3", "g4"}
MCEdges == {"e1", "e2", "e3", "e4"}
MCRoutesOf == [p1 |-> <<"r1", "r1b">>, p2 |-> <<"r2">>, p3 |-> <<"r3">>, p4 |-> <<"r4">>,
               p5 |-> <<"r5">>, p6 |-> <<"r6">>]
MCGresOf == [p1 |-> <<"g1">>, p2 |-> <<"g2">>, p3 |-> <<"g3">>, p4 |-> <<"g4", "g3">>,
             p5 |-> <<>>, p6 |-> <<>>]
MCEdgesOf == [p1 |-> <<"e1">>, p2 |-> <<"e1", "e2">>, p3 |-> <<"e2">>, p4 |-> <<"e2">>,
              p5 |-> <<"e2", "e3">>, p6 |-> <<"e4">>]
MCTableOf == [p1 |-> 30, p2 |-> 2, p3 |-> 2, p4 |-> 2, p5 |-> 2, p6 |-> 3]
MCDest == [r1 |-> <<"A", 30>>, r1b |-> <<"A2", 30>>, r2 |-> <<"A", 2>>, r3 |-> <<"B", 2>>,
           r4 |-> <<"B", 2>>, r5 |-> <<"B", 2>>, r6 |-> <<"A", 3>>]
MCVia == [r1 |-> "g1", r1b |-> "none", r2 |-> "g2", r3 |-> "g3", r4 |-> "g4", r5 |-> "none",
          r6 |-> "none"]
=============================================================================
