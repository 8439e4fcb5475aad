---------------------------- MODULE MCEventnetd ----------------------------
(* Two paths, the direct one preferred to the one over the hub, both or     *)
(* only one of them enabled.                                                *)
EXTENDS Eventnetd, TLC

CONSTANTS direct, hub

MCPaths == {direct, hub}
MCRank  == (direct :> 1) @@ (hub :> 2)
MCNode  == [n \in {"a", "b", "h"} |-> [enabled |-> TRUE, capabilities |-> {}]]
MCPath ==
  (direct :> [nodes |-> {"a", "b"}, waypoints |-> <<>>, priority |-> 1])
  @@ (hub :> [nodes |-> {"a", "b", "h"}, waypoints |-> <<"h">>, priority |-> 2])
MCConfigs == {{direct, hub}, {hub}}

MCIntent ==
  [mode |-> "priority", path_id |-> NoPath, candidates |-> <<direct, hub>>,
   comparison_order |-> <<>>, strategy |-> "immediate", hysteresis_percent |-> None,
   failure_threshold |-> 0, recovery_threshold |-> 1, hold_down_ms |-> 1,
   max_rtt_ms |-> None, max_packet_loss_percent |-> None,
   forbidden_waypoints |-> {}, required_waypoints |-> {}, required_capabilities |-> {}]

MCLines ==
  {[state |-> "healthy", rtt_ms |-> 10, packet_loss_percent |-> 0, failures |-> 0, successes |-> 1],
   [state |-> "failed", rtt_ms |-> 0, packet_loss_percent |-> 100, failures |-> 1, successes |-> 0]}
=============================================================================
