----------------------------- MODULE Controller -----------------------------
(***************************************************************************)
(* The controller in its loop: health reports come in, every submission of *)
(* an intent observes its candidates, selects a path and, if it is another *)
(* one, runs the transition (src/src/controller.c).  Transition supplies   *)
(* the call of en_transition_path and PathSelection the choice; this       *)
(* module adds what the choice depends on and what the call does to it.    *)
(***************************************************************************)
EXTENDS Transition, PathSelection

CONSTANTS
  Enabled,   \* the paths that are administratively enabled
  Intents,   \* Intents[k] : the intents submitted for k
  Rtts,      \* round-trip times that are measured
  MaxStreak  \* bound of the counters of a report

VARIABLES
  reports,   \* what the health probe answers for each path
  health,    \* the health table of the controller
  elapsed    \* time since the applied path of a key was applied, up to HoldDown

cvars == <<vars, reports, health, elapsed>>

\* The longest hold-down time of an intent: no test looks beyond it.
HoldDown ==
  LET times == UNION {{i.hold_down_ms : i \in Intents[k]} : k \in Keys}
  IN CHOOSE n \in times : \A m \in times : m <= n

ASSUME ControllerAssumption ==
  /\ Intents \in [Keys -> SUBSET [
       mode : {"explicit", "priority", "evaluated"}, path_id : PathOrNone,
       candidates : Seq(Paths), comparison_order : Seq({"packet_loss", "latency",
         "hop_count", "admin_priority", "path_id"}),
       strategy : Strategies, hysteresis_percent : Nat \cup {None},
       failure_threshold : Nat, recovery_threshold : Nat, hold_down_ms : Nat,
       max_rtt_ms : Nat \cup {None}, max_packet_loss_percent : Nat \cup {None},
       forbidden_waypoints : SUBSET DOMAIN node, required_waypoints : SUBSET DOMAIN node,
       required_capabilities : SUBSET STRING]]
  /\ \A k \in Keys : \A i \in Intents[k] :
       Selectable(i) \subseteq candidates[k]
  /\ Rtts \subseteq Nat /\ MaxStreak \in Nat \ {0}

-----------------------------------------------------------------------------
(* Reports.  The agent counts successes and failures in a row; the counters *)
(* stop at MaxStreak, above every threshold.                               *)

\* Mutant: a record of its own each time, as in telemetry without counters.
CountOnce(n) == 1

NextCount(n) == IF n < MaxStreak THEN n + 1 ELSE n

Answered(h, rtt) ==
  [state |-> "healthy", rtt_ms |-> rtt, packet_loss_percent |-> 0,
   failures |-> 0, successes |-> NextCount(h.successes)]

Unanswered(h) ==
  [state |-> "failed", rtt_ms |-> 0, packet_loss_percent |-> 100,
   failures |-> NextCount(h.failures), successes |-> 0]

\* set_unknown_health: a path nothing is known of counts as failed.
Unknown ==
  [state |-> "failed", rtt_ms |-> 0, packet_loss_percent |-> 100,
   failures |-> 0, successes |-> 0]

Reports ==
  [state : {"healthy", "failed"}, rtt_ms : Rtts \cup {0},
   packet_loss_percent : {0, 100}, failures : 0..MaxStreak, successes : 0..MaxStreak]

ReportsOK ==
  /\ reports \in [Paths -> Reports]
  /\ health \in [Paths -> Reports \cup {NoHealth}]
  /\ elapsed \in [Keys -> Nat]

ControllerTypeOK == TypeOK /\ ReportsOK

ControllerInit ==
  /\ Init
  /\ reports = [p \in Paths |-> Unknown]
  /\ health = [p \in Paths |-> NoHealth]
  /\ elapsed = [k \in Keys |-> 0]

measure(p) ==
  /\ reports' \in {[reports EXCEPT ![p] = h] :
                     h \in {Answered(reports[p], r) : r \in Rtts} \cup {Unanswered(reports[p])}}
  /\ reports' # reports
  /\ UNCHANGED <<vars, health, elapsed>>

\* The wall clock of en_now_ms goes on and is never set back.
Tick ==
  /\ elapsed' = [k \in Keys |-> IF elapsed[k] < HoldDown THEN elapsed[k] + 1 ELSE elapsed[k]]
  /\ elapsed' # elapsed
  /\ UNCHANGED <<vars, reports, health>>

-----------------------------------------------------------------------------
(* en_controller_submit_intent.                                            *)

\* observe_candidate_health: the paths whose health a submission looks up.
Observed(i) ==
  IF i.candidates # <<>> THEN Candidates(i)
  ELSE IF i.mode = "explicit" THEN {i.path_id} ELSE Paths

observe_candidate_health(i) ==
  [p \in Paths |-> IF p \in Observed(i) THEN reports[p] ELSE health[p]]

View(k, seen) ==
  [active |-> applied_paths[k], elapsed |-> elapsed[k], health |-> seen,
   standby |-> {p \in Paths : operational_state[p] = "standby"}, enabled |-> Enabled]

no_candidate == pc = "idle" /\ UNCHANGED vars

submit_intent(k, i) ==
  \E seen \in {observe_candidate_health(i)} :
    \E p \in {en_select_path(i, View(k, seen))} :
      /\ \/ p = NoPath /\ no_candidate
         \/ p # NoPath /\ p = applied_paths[k] /\ maintain_path(k)
         \/ p # NoPath /\ en_transition_path(k, p, i.strategy)
      /\ health' = seen
      /\ UNCHANGED <<reports, elapsed>>

\* transition_ready asks the probe again and stores its answer.
validate ==
  /\ \/ ready_done /\ Usable(reports[target_path])
     \/ ready_fails /\ ~Usable(reports[target_path])
  /\ health' = [health EXCEPT ![target_path] = reports[target_path]]
  /\ UNCHANGED <<reports, elapsed>>

\* en_set_applied_path notes the time, of a rollback as well.
apply ==
  /\ Application
  /\ elapsed' = [elapsed EXCEPT ![traffic_key] = 0]
  /\ UNCHANGED <<reports, health>>

work == Work /\ UNCHANGED <<reports, health, elapsed>>

submit == \E k \in Keys : \E i \in Intents[k] : submit_intent(k, i)

continue == validate \/ apply \/ work

ControllerNext == submit \/ continue \/ (\E p \in Paths : measure(p)) \/ Tick

ControllerSpec == ControllerInit /\ [][ControllerNext]_cvars

-----------------------------------------------------------------------------
(* Properties.                                                             *)

\* The submission of intent i of key k sets out to move k from path a to path b.
Moves(k, i, a, b) ==
  /\ pc = "idle" /\ pc' = "prepare"
  /\ applied_paths[k] = a /\ target_path' = b
  /\ submit_intent(k, i)

(* A path that keeps answering is not left before the hold-down time, even *)
(* for a better one, by an intent that lists it among its candidates.  The *)
(* code reads the wall clock; here it is never set back, which would end   *)
(* the hold-down at once (exclusion_reason).                               *)
HoldsDown ==
  [][\A k \in Keys : \A i \in Intents[k] : \A a \in Observed(i), b \in Paths :
       Moves(k, i, a, b) /\ Usable(reports[a]) => elapsed[k] >= i.hold_down_ms]_cvars

(* An active path that is enabled and meets the constraints is given up for *)
(* one that is less preferred only after it failed to answer                *)
(* failure_threshold times in a row (exclusion_reason).                     *)
ToleratesFailures ==
  [][\A k \in Keys : \A i \in Intents[k] : \A b \in Paths :
       \A n \in 1..Len(i.candidates) :
         /\ i.mode = "priority"
         /\ Moves(k, i, i.candidates[n], b) /\ \A m \in 1..n : i.candidates[m] # b
         /\ Suits(i, i.candidates[n], View(k, observe_candidate_health(i)))
         => reports[i.candidates[n]].failures >= i.failure_threshold]_cvars
=============================================================================
