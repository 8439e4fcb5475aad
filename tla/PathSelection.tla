--------------------------- MODULE PathSelection ---------------------------
(***************************************************************************)
(* Path selection: which path an intent gets, given the health table and   *)
(* the path that is applied (src/src/path_selection.c).                    *)
(*                                                                         *)
(* An intent i is a record with the fields of en_path_selection_t and of   *)
(* its constraints; None stands for a constraint that is not set.  What    *)
(* selection reads of the controller is a record v, the view:              *)
(*   active  : the applied path of the traffic key, or NoPath              *)
(*   elapsed : time since that path was applied                            *)
(*   health  : the health table, NoHealth for a path without entry         *)
(*   standby : the paths whose operational state is STANDBY                *)
(*   enabled : the paths whose administrative state is ENABLED             *)
(* Metrics are integers here and doubles in the code.                      *)
(***************************************************************************)
EXTENDS PathIds, Integers, Sequences

CONSTANTS
  NoHealth,
  path,   \* path[p] : [nodes, waypoints, priority] of an en_path_t
  node,   \* node[n] : [enabled, capabilities]; empty when no nodes are configured
  rank    \* rank[p] : place of the path id in the order of strcmp

None == -1

Candidates(i) == {i.candidates[n] : n \in 1..Len(i.candidates)}
Waypoints(p)  == {path[p].waypoints[n] : n \in 1..Len(path[p].waypoints)}

\* The paths an intent can lead to.
Selectable(i) == IF i.mode = "explicit" THEN {i.path_id} ELSE Candidates(i)

Usable(h) == h # NoHealth /\ h.state \in {"healthy", "degraded"}

-----------------------------------------------------------------------------
(* exclusion_reason: a path is excluded for any of these reasons.           *)

path_nodes_enabled(p) ==
  \/ DOMAIN node = {}
  \/ \A n \in path[p].nodes \cup Waypoints(p) : n \in DOMAIN node /\ node[n].enabled

\* Mutants: the tests of the two paths, and of the two times, are swapped.
HeldDownItself(i, p, v) ==
  v.active = p /\ Usable(v.health[p]) /\ v.elapsed < i.hold_down_ms
HeldDownLater(i, p, v) ==
  v.active \notin {NoPath, p} /\ Usable(v.health[v.active]) /\ i.hold_down_ms < v.elapsed

\* The active path is sound and was applied only a moment ago.
HeldDown(i, p, v) ==
  /\ v.active \notin {NoPath, p}
  /\ Usable(v.health[v.active])
  /\ v.elapsed < i.hold_down_ms

\* Mutants: the active path is always spared; it is never spared.
OutOfOrderUnlessActive(i, p, v) ==
  v.health[p] # NoHealth /\ v.health[p].state \in {"unhealthy", "failed"} /\ p # v.active
OutOfOrderAtOnce(i, p, v) ==
  v.health[p] # NoHealth /\ v.health[p].state \in {"unhealthy", "failed"}

\* A failing path is out, but the active one only from the threshold on.
OutOfOrder(i, p, v) ==
  /\ v.health[p] # NoHealth /\ v.health[p].state \in {"unhealthy", "failed"}
  /\ ~(p = v.active /\ v.health[p].failures < i.failure_threshold)

\* Mutant: once on standby, never back.
NeverRecovered(i, p, v) == v.active \notin {NoPath, p} /\ p \in v.standby

\* A standby path has not answered often enough since it failed.
NotRecovered(i, p, v) ==
  /\ v.active \notin {NoPath, p}
  /\ p \in v.standby
  /\ Usable(v.health[p])
  /\ v.health[p].successes < i.recovery_threshold

ViolatesLimit(i, h) ==
  /\ h # NoHealth
  /\ \/ i.max_rtt_ms # None /\ h.rtt_ms > i.max_rtt_ms
     \/ i.max_packet_loss_percent # None
        /\ h.packet_loss_percent > i.max_packet_loss_percent

AvoidsWaypoint(i, p) ==
  \/ i.forbidden_waypoints \cap Waypoints(p) # {}
  \/ ~(i.required_waypoints \subseteq Waypoints(p))

\* Waypoints need no capability of their own.
path_supports_capabilities(i, p) ==
  i.required_capabilities # {} =>
    \A n \in path[p].nodes :
      n \in DOMAIN node /\ i.required_capabilities \subseteq node[n].capabilities

\* p is enabled and meets the constraints of i.
Suits(i, p, v) ==
  /\ p \in v.enabled /\ path_nodes_enabled(p)
  /\ ~ViolatesLimit(i, v.health[p])
  /\ ~AvoidsWaypoint(i, p)
  /\ path_supports_capabilities(i, p)

exclusion_reason(i, p, v) ==
  \/ ~Suits(i, p, v)
  \/ HeldDown(i, p, v)
  \/ OutOfOrder(i, p, v)
  \/ NotRecovered(i, p, v)

-----------------------------------------------------------------------------
(* Comparison.                                                             *)

Unmeasured == 1000000   \* DBL_MAX, above every measured value

metric_value(p, key, v) ==
  CASE key \in {"packet_loss", "latency"} /\ v.health[p] = NoHealth -> Unmeasured
    [] key = "packet_loss"    -> v.health[p].packet_loss_percent
    [] key = "latency"        -> v.health[p].rtt_ms
    [] key = "hop_count"      -> Len(path[p].waypoints) + 1
    [] key = "admin_priority" -> path[p].priority
    [] key = "path_id"        -> rank[p]

\* compare_paths(p, q) < 0 : lexicographic, the path id last.
compare_paths(i, p, q, v) ==
  LET order == Append(i.comparison_order, "path_id")
      value(r, n) == metric_value(r, order[n], v)
  IN \E n \in 1..Len(order) :
       /\ value(p, n) < value(q, n)
       /\ \A m \in 1..(n - 1) : value(p, m) = value(q, m)

-----------------------------------------------------------------------------
(* en_select_path: NoPath stands for EN_ERR_NO_CANDIDATE.                   *)

Eligible(i, v) == {p \in Candidates(i) : ~exclusion_reason(i, p, v)}

explicit(i, v) == IF exclusion_reason(i, i.path_id, v) THEN NoPath ELSE i.path_id

\* The first candidate in the order of the list, whatever its priority field.
FirstUsable(i, v) ==
  LET usable(n) == ~exclusion_reason(i, i.candidates[n], v)
  IN IF \E n \in 1..Len(i.candidates) : usable(n)
     THEN i.candidates[CHOOSE n \in 1..Len(i.candidates) :
                         usable(n) /\ \A m \in 1..(n - 1) : ~usable(m)]
     ELSE NoPath

Best(i, v) ==
  LET eligible == Eligible(i, v)
  IN {p \in eligible : \A q \in eligible \ {p} : compare_paths(i, p, q, v)}

\* fmax(fabs(x), 1)
Baseline(x) == IF x > 1 THEN x ELSE IF x < -1 THEN -x ELSE 1

\* Mutant: the active path is retained although it is excluded.
RetainedUnchecked(i, best, v) ==
  /\ v.active \in Candidates(i) \ {best}
  /\ Usable(v.health[v.active])
  /\ i.hysteresis_percent # None
  /\ LET key == i.comparison_order[1]
         now == metric_value(v.active, key, v)
     IN (now - metric_value(best, key, v)) * 100 < i.hysteresis_percent * Baseline(now)

\* Hysteresis: the best path improves the first metric of the active one too
\* little.  Only an active path that is itself eligible is retained.
Retained(i, best, v) ==
  /\ v.active \in Candidates(i) \ {best}
  /\ ~exclusion_reason(i, v.active, v)
  /\ Usable(v.health[v.active])
  /\ i.hysteresis_percent # None
  /\ i.comparison_order # <<>> /\ i.comparison_order[1] # "path_id"
  /\ LET key == i.comparison_order[1]
         now == metric_value(v.active, key, v)
     IN (now - metric_value(best, key, v)) * 100 < i.hysteresis_percent * Baseline(now)

evaluated(i, v) ==
  LET ranked == Best(i, v)
      best   == CHOOSE p \in ranked : TRUE
  IN IF ranked = {} THEN NoPath
     ELSE IF Retained(i, best, v) THEN v.active ELSE best

en_select_path(i, v) ==
  CASE i.mode = "explicit"  -> explicit(i, v)
    [] i.mode = "priority"  -> FirstUsable(i, v)
    [] i.mode = "evaluated" -> evaluated(i, v)
=============================================================================
