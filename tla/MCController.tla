---------------------------- MODULE MCController ----------------------------
(* One traffic key with two paths of one tunnel each, and the intents the   *)
(* runs submit: by priority with thresholds and a hold-down time, and by    *)
(* latency with hysteresis and a limit.                                     *)
EXTENDS Controller, TLC

CONSTANTS k1, direct, hub, t1, t2

MCPaths      == {direct, hub}
MCSegments   == (direct :> <<t1>>) @@ (hub :> <<t2>>)
MCCandidates == k1 :> {direct, hub}
MCRank       == (direct :> 1) @@ (hub :> 2)

\* Site a reaches site b directly or over the hub h.
MCNode == [n \in {"a", "b", "h"} |-> [enabled |-> TRUE, capabilities |-> {"ipsec"}]]
MCPath ==
  (direct :> [nodes |-> {"a", "b"}, waypoints |-> <<>>, priority |-> 1])
  @@ (hub :> [nodes |-> {"a", "b", "h"}, waypoints |-> <<"h">>,
              priority |-> 2])

Thresholds ==
  [mode |-> "priority", path_id |-> NoPath, candidates |-> <<direct, hub>>,
   comparison_order |-> <<>>, strategy |-> "immediate", hysteresis_percent |-> None,
   failure_threshold |-> 2, recovery_threshold |-> 2, hold_down_ms |-> 1,
   max_rtt_ms |-> None, max_packet_loss_percent |-> None,
   forbidden_waypoints |-> {}, required_waypoints |-> {}, required_capabilities |-> {}]
Quality ==
  [Thresholds EXCEPT !.mode = "evaluated", !.comparison_order = <<"latency", "hop_count">>,
                     !.hysteresis_percent = 20,
                     !.failure_threshold = 1, !.recovery_threshold = 1,
                     !.max_rtt_ms = 15]
MCThresholds == k1 :> {Thresholds}
MCQuality    == k1 :> {Quality}
=============================================================================
