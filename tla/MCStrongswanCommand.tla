------------------------ MODULE MCStrongswanCommand -------------------------
(* t2 and t3 have the same selectors, t4 has none. *)
EXTENDS StrongswanCommand

MCTunnels == {"t1", "t2", "t3", "t4"}
MCSelectorOf == [u \in MCTunnels |->
  CASE u = "t1" -> "s1" [] u \in {"t2", "t3"} -> "s2" [] u = "t4" -> "noselector"]
=============================================================================
