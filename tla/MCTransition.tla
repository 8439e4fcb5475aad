---------------------------- MODULE MCTransition ----------------------------
(* Two traffic keys and three paths of one or two tunnels.  The direct path *)
(* and the path over the hub share a tunnel; the other path shares none.    *)
(* k2 has a path of its own.                                                *)
EXTENDS TransitionRefinement, TLC

CONSTANTS k1, k2, direct, hub, other, t1, t2, t3, t4

MCPaths    == {direct, hub, other}
MCSegments == (direct :> <<t1, t2>>) @@ (hub :> <<t2, t3>>) @@ (other :> <<t4>>)
MCDisjoint == (k1 :> {direct, hub}) @@ (k2 :> {other})
=============================================================================
