-------------------------- MODULE ControllerProofs --------------------------
(***************************************************************************)
(* Proofs about the controller, for any traffic keys, paths, tunnels,      *)
(* intents, reports, retry counts, thresholds and table sizes: first about *)
(* the path transition, whichever candidate it is given, then about the    *)
(* controller that acts on path selection.                                 *)
(***************************************************************************)
EXTENDS Controller, TransitionRefinement, FiniteSetTheorems, WellFoundedInduction, TLAPS

-----------------------------------------------------------------------------
(* Path selection, for any intent, paths, nodes and health.                *)

LEMMA LeastIndex ==
  ASSUME NEW T, T \subseteq Nat, T # {}
  PROVE  \E n \in T : \A m \in T : ~(m < n)
<1> DEFINE R == OpToRel(<, Nat)
<1>1. IsWellFoundedOn(R, Nat)
  BY NatLessThanWellFounded
<1> HIDE DEF R
<1>2. PICK n \in T : \A m \in T : <<m, n>> \notin R
  BY <1>1, WFMin
<1>3. \A m \in T : <<m, n>> \notin R => ~(m < n)
  BY DEF R, OpToRel
<1> QED BY <1>2, <1>3

LEMMA FirstUsableIsEligible ==
  ASSUME NEW i, NEW v, Len(i.candidates) \in Nat, FirstUsable(i, v) # NoPath
  PROVE  FirstUsable(i, v) \in Eligible(i, v)
<1> DEFINE usable(n) == ~exclusion_reason(i, i.candidates[n], v)
           first(n)  == usable(n) /\ \A m \in 1..(n - 1) : ~usable(m)
           U         == {n \in 1..Len(i.candidates) : usable(n)}
<1> HIDE DEF usable
<1>1. U # {}
  BY DEF FirstUsable, usable
<1>2. PICK n \in U : \A m \in U : ~(m < n)
  <2>1. U \subseteq Nat
    OBVIOUS
  <2> HIDE DEF U
  <2> QED BY <1>1, <2>1, LeastIndex
<1>3. n \in 1..Len(i.candidates) /\ first(n)
  BY <1>2
<1>4. \E m \in 1..Len(i.candidates) : usable(m)
  BY <1>3
<1>5. FirstUsable(i, v) = i.candidates[CHOOSE m \in 1..Len(i.candidates) : first(m)]
  BY <1>4 DEF FirstUsable, usable
<1>6. PICK m \in 1..Len(i.candidates) : first(m) /\ FirstUsable(i, v) = i.candidates[m]
  BY <1>3, <1>5
<1> QED BY <1>6 DEF Eligible, Candidates, usable

\* No candidate behind one that is not excluded is selected.
LEMMA FirstUsableIsPreferred ==
  ASSUME NEW i, NEW v, Len(i.candidates) \in Nat,
         NEW n \in 1..Len(i.candidates), ~exclusion_reason(i, i.candidates[n], v)
  PROVE  \E m \in 1..n : FirstUsable(i, v) = i.candidates[m]
<1> DEFINE usable(j) == ~exclusion_reason(i, i.candidates[j], v)
           first(j)  == usable(j) /\ \A m \in 1..(j - 1) : ~usable(m)
           U         == {j \in 1..Len(i.candidates) : usable(j)}
<1>0. usable(n)
  OBVIOUS
<1> HIDE DEF usable
<1>1. PICK l \in U : \A m \in U : ~(m < l)
  <2>1. U \subseteq Nat /\ U # {}
    BY <1>0
  <2> HIDE DEF U
  <2> QED BY <2>1, LeastIndex
<1>2. l \in 1..Len(i.candidates) /\ first(l)
  BY <1>1
<1>3. FirstUsable(i, v) = i.candidates[CHOOSE m \in 1..Len(i.candidates) : first(m)]
  BY <1>0 DEF FirstUsable, usable
<1>4. PICK m \in 1..Len(i.candidates) : first(m) /\ FirstUsable(i, v) = i.candidates[m]
  BY <1>2, <1>3
<1>5. m \in 1..n
  BY <1>0, <1>4
<1> QED BY <1>4, <1>5

LEMMA EvaluatedIsEligible ==
  ASSUME NEW i, NEW v, evaluated(i, v) # NoPath
  PROVE  evaluated(i, v) \in Eligible(i, v)
<1> DEFINE best == CHOOSE p \in Best(i, v) : TRUE
<1>1. Best(i, v) # {}
  BY DEF evaluated
<1>2. best \in Eligible(i, v)
  BY <1>1 DEF Best
<1>3. Retained(i, best, v) => v.active \in Eligible(i, v)
  BY DEF Retained, Eligible
<1>4. evaluated(i, v) = IF Retained(i, best, v) THEN v.active ELSE best
  BY <1>1 DEF evaluated
<1> QED BY <1>2, <1>3, <1>4

(* Path selection never answers with an excluded path, in no mode and for  *)
(* no health table; in particular hysteresis brings back no active path    *)
(* that fails, exceeds a limit or is not a candidate.                      *)
THEOREM SelectedIsEligible ==
  ASSUME NEW i, NEW v, Len(i.candidates) \in Nat,
         i.mode \in {"explicit", "priority", "evaluated"},
         en_select_path(i, v) # NoPath
  PROVE  /\ en_select_path(i, v) \in Selectable(i)
         /\ ~exclusion_reason(i, en_select_path(i, v), v)
<1>1. CASE i.mode = "explicit"
  BY <1>1 DEF en_select_path, explicit, Selectable
<1>2. CASE i.mode = "priority"
  BY <1>2, FirstUsableIsEligible DEF en_select_path, Selectable, Eligible
<1>3. CASE i.mode = "evaluated"
  BY <1>3, EvaluatedIsEligible DEF en_select_path, Selectable, Eligible
<1> QED BY <1>1, <1>2, <1>3


-----------------------------------------------------------------------------
(* Operators.                                                              *)

LEMMA TunnelsOfType ==
  ASSUME NEW p \in PathOrNone
  PROVE  TunnelsOf(p) \subseteq Tunnels
BY TransitionAssumption DEF TunnelsOf, PathOrNone

LEMMA SegmentType ==
  ASSUME NEW p \in Paths, segment \in Nat \ {0}, ~Done(p)
  PROVE  segments[p][segment] \in Tunnels /\ segments[p][segment] \in TunnelsOf(p)
BY TransitionAssumption DEF Done, TunnelsOf

LEMMA SetAppliedType ==
  ASSUME NEW k \in Keys, NEW p \in PathOrNone, applied_paths \in [Keys -> PathOrNone]
  PROVE  en_set_applied_path(k, p) \in [Keys -> PathOrNone]
BY DEF en_set_applied_path

LEMMA ForwardingType ==
  ASSUME NEW p \in PathOrNone, active_paths \in [Keys -> PathOrNone]
  PROVE  /\ AfterInstall(p) \subseteq [Keys -> PathOrNone]
         /\ AfterFailedInstall(p) \subseteq [Keys -> PathOrNone]
         /\ AfterRemove(p) \in [Keys -> PathOrNone]
<1>1. [active_paths EXCEPT ![traffic_key] = p] \in [Keys -> PathOrNone]
  OBVIOUS
<1>2. [active_paths EXCEPT ![traffic_key] = NoPath] \in [Keys -> PathOrNone]
  BY DEF PathOrNone
<1>3. AfterFailedInstall(p) \subseteq [Keys -> PathOrNone]
  <2> SUFFICES ASSUME NEW f \in AfterFailedInstall(p) PROVE f \in [Keys -> PathOrNone]
    OBVIOUS
  <2>1. PICK q \in {active_paths[traffic_key], p, NoPath} :
          f = [active_paths EXCEPT ![traffic_key] = q]
    BY DEF AfterFailedInstall
  <2>2. CASE q = active_paths[traffic_key]
    BY <2>1, <2>2
  <2>3. CASE q = p
    BY <2>1, <2>3, <1>1
  <2>4. CASE q = NoPath
    BY <2>1, <2>4, <1>2
  <2> QED BY <2>2, <2>3, <2>4
<1> QED BY <1>1, <1>2, <1>3 DEF AfterInstall, AfterRemove

-----------------------------------------------------------------------------
(* Type correctness.                                                       *)

LEMMA InitTypeOK == Init => TypeOK
<1> SUFFICES ASSUME Init PROVE TypeOK
  OBVIOUS
<1>1. /\ applied_paths \in [Keys -> PathOrNone]
      /\ active_paths \in [Keys -> PathOrNone]
      /\ rollback_path_id \in PathOrNone
  BY DEF Init, PathOrNone
<1>2. /\ attempt \in 0..RetryCount
      /\ segment \in Nat \ {0}
  BY TransitionAssumption DEF Init
<1>3. /\ last_result \in [Keys -> Results]
      /\ operational_state \in
           [Paths -> {"unknown", "preparing", "ready", "active", "standby", "draining"}]
  BY DEF Init, Results
<1>4. pc = "idle" /\ pc \in Phases /\ strategy \in Strategies
  BY DEF Init, Phases, Strategies
<1> QED BY <1>1, <1>2, <1>3, <1>4 DEF Init, TypeOK, StateOK, NetworkOK, CallOK

LEMMA ReturnType ==
  ASSUME CallOK, pc # "idle", NEW r \in Results, Return(r)
  PROVE  CallOK'
BY TransitionAssumption DEF CallOK, Return, PathOrNone, Phases, Strategies

LEMMA GoToType ==
  ASSUME CallOK, pc # "idle", NEW phase \in Phases, phase # "idle", GoTo(phase),
         phase \in {"cleanup_forwarding", "cleanup_tunnels", "rollback_prepare",
                    "rollback_install"} => rollback_path_id # NoPath
  PROVE  CallOK'
BY TransitionAssumption DEF CallOK, GoTo, locals

LEMMA RetryType ==
  ASSUME CallOK, pc # "idle", NEW phase \in {"prepare", "ready", "commit", "confirm"},
         NEW reached, RetryOrRollback(phase, reached)
  PROVE  CallOK'
<1>1. CASE MayRetry /\ pc' = phase /\ attempt' = NextAttempt /\ segment' = 1
             /\ UNCHANGED <<locals, last_result>>
  BY <1>1, TransitionAssumption DEF CallOK, MayRetry, NextAttempt, locals, Phases
<1>2. CASE EnterRollback
  BY <1>2, GoToType DEF EnterRollback, Phases
<1> QED BY <1>1, <1>2 DEF RetryOrRollback

LEMMA NextSegmentType ==
  ASSUME CallOK, segment' = segment + 1, UNCHANGED <<pc, locals, attempt, last_result>>
  PROVE  CallOK'
BY DEF CallOK, locals

LEMMA EnsureType ==
  ASSUME TypeOK, pc # "idle", NEW p \in Paths
  PROVE  /\ ensure_tunnel(p) => TypeOK'
         /\ ensure_tunnel_fails(p) =>
              /\ NetworkOK'
              /\ applied_paths' \in [Keys -> PathOrNone]
              /\ observed_tunnels' \subseteq Tunnels
              /\ operational_state' \in [Paths -> {"unknown", "preparing", "ready",
                                                   "active", "standby", "draining"}]
<1>1. segment \in Nat \ {0}
  BY DEF TypeOK, CallOK
<1>2. ASSUME ensure_tunnel(p) PROVE TypeOK'
  <2>1. segments[p][segment] \in Tunnels
    BY <1>1, <1>2, SegmentType DEF ensure_tunnel
  <2>2. StateOK' /\ NetworkOK'
    BY <1>2, <2>1 DEF ensure_tunnel, TypeOK, StateOK, NetworkOK
  <2>3. CallOK'
    BY <1>2, NextSegmentType DEF ensure_tunnel, TypeOK
  <2> QED BY <2>2, <2>3 DEF TypeOK
<1>3. ASSUME ensure_tunnel_fails(p)
      PROVE  /\ NetworkOK'
             /\ applied_paths' \in [Keys -> PathOrNone]
             /\ observed_tunnels' \subseteq Tunnels
             /\ operational_state' \in [Paths -> {"unknown", "preparing", "ready",
                                                  "active", "standby", "draining"}]
  <2>1. segments[p][segment] \in Tunnels
    BY <1>1, <1>3, SegmentType DEF ensure_tunnel_fails
  <2> QED BY <1>3, <2>1 DEF ensure_tunnel_fails, TypeOK, StateOK, NetworkOK
<1> QED BY <1>2, <1>3

LEMMA SubmitTypeOK ==
  ASSUME TypeOK, en_controller_submit_intent
  PROVE  TypeOK'
<1>1. ASSUME NEW k \in Keys, maintain_path(k)
      PROVE  TypeOK'
  BY <1>1 DEF maintain_path, TypeOK, StateOK, NetworkOK, CallOK, state, network, locals
<1>2. ASSUME NEW k \in Keys, NEW p \in candidates[k], NEW s \in Strategies,
             en_transition_path(k, p, s)
      PROVE  TypeOK'
  <2>1. applied_paths[k] \in PathOrNone
    BY DEF TypeOK, StateOK
  <2> QED
    BY <1>2, <2>1, TransitionAssumption
    DEF en_transition_path, TypeOK, StateOK, NetworkOK, CallOK, state, network, Phases
<1> QED BY <1>1, <1>2 DEF en_controller_submit_intent

\* What the running call holds: a target path and, in the phases that need it,
\* a previous path.
LEMMA CallPaths ==
  ASSUME TypeOK, pc # "idle"
  PROVE  /\ traffic_key \in Keys
         /\ target_path \in Paths
         /\ target_path \in PathOrNone
         /\ rollback_path_id \in PathOrNone
         /\ pc \in {"cleanup_forwarding", "cleanup_tunnels", "rollback_prepare",
                    "rollback_install"} => rollback_path_id \in Paths
BY TransitionAssumption DEF TypeOK, CallOK, PathOrNone

LEMMA SwitchTypeOK ==
  ASSUME TypeOK,
         \/ prepare_tunnel \/ prepare_fails \/ prepare_done
         \/ ready_done \/ ready_fails
         \/ commit_drain \/ commit_refuses_flow_preserve \/ commit_done \/ commit_fails
         \/ confirm_done \/ confirm_fails
  PROVE  TypeOK'
<1> USE DEF TypeOK
<1>1. CASE prepare_tunnel
  BY <1>1, CallPaths, EnsureType DEF prepare_tunnel
<1>2. CASE prepare_fails
  <2>1. pc = "prepare" /\ ensure_tunnel_fails(target_path) /\ UNCHANGED errors
    BY <1>2 DEF prepare_fails
  <2>2. RetryOrRollback("prepare", transition_state)
    BY <1>2 DEF prepare_fails
  <2>3. CallOK'
    BY <2>1, <2>2, RetryType
  <2>4. transition_state' \in {transition_state, "rolling_back"}
    BY <2>2 DEF RetryOrRollback, EnterRollback
  <2>5. StateOK' /\ NetworkOK'
    BY <2>1, <2>4, CallPaths, EnsureType DEF StateOK
  <2> QED BY <2>3, <2>5
<1>3. CASE prepare_done
  <2>1. CallOK'
    BY <1>3, GoToType DEF prepare_done, Phases
  <2> QED BY <1>3, <2>1 DEF prepare_done, StateOK, NetworkOK, network
<1>4. CASE ready_done
  <2>1. CallOK'
    BY <1>4, GoToType DEF ready_done, Phases
  <2> QED BY <1>4, <2>1 DEF ready_done, StateOK, NetworkOK, network, state
<1>5. CASE ready_fails
  <2>1. pc = "ready" /\ RetryOrRollback("ready", "validating")
    BY <1>5 DEF ready_fails
  <2>2. CallOK'
    BY <2>1, RetryType
  <2>3. transition_state' \in {"validating", "rolling_back"}
    BY <2>1 DEF RetryOrRollback, EnterRollback
  <2> QED BY <1>5, <2>2, <2>3 DEF ready_fails, StateOK, NetworkOK, network, state
<1>6. CASE commit_drain
  <2>1. CallOK'
    BY <1>6 DEF commit_drain, Drain, CallOK, Phases, locals
  <2>2. StateOK' /\ NetworkOK'
    BY <1>6 DEF commit_drain, Drain, StateOK, NetworkOK
  <2> QED BY <2>1, <2>2
<1>7. CASE commit_refuses_flow_preserve
  <2>1. pc = "commit" /\ RetryOrRollback("commit", transition_state)
    BY <1>7 DEF commit_refuses_flow_preserve
  <2>2. CallOK'
    BY <2>1, RetryType
  <2>3. transition_state' \in {transition_state, "rolling_back"}
    BY <2>1 DEF RetryOrRollback, EnterRollback
  <2> QED BY <1>7, <2>2, <2>3
    DEF commit_refuses_flow_preserve, StateOK, NetworkOK, network, state
<1>8. CASE commit_done
  <2>1. pc # "idle" /\ GoTo("confirm")
    BY <1>8 DEF commit_done, Committing
  <2>2. CallOK'
    BY <2>1, GoToType DEF Phases
  <2>3. active_paths' \in [Keys -> PathOrNone]
    BY <1>8, <2>1, CallPaths, ForwardingType DEF commit_done, NetworkOK
  <2>4. applied_paths' \in [Keys -> PathOrNone]
    BY <1>8, <2>1, CallPaths, SetAppliedType DEF commit_done, StateOK
  <2> QED BY <1>8, <2>2, <2>3, <2>4 DEF commit_done, StateOK, NetworkOK
<1>9. CASE commit_fails
  <2>1. pc # "idle" /\ RetryOrRollback("commit", "switching")
    BY <1>9 DEF commit_fails, Committing
  <2>2. CallOK'
    BY <2>1, RetryType
  <2>3. transition_state' \in {"switching", "rolling_back"}
    BY <2>1 DEF RetryOrRollback, EnterRollback
  <2>4. active_paths' \in [Keys -> PathOrNone]
    BY <1>9, <2>1, CallPaths, ForwardingType DEF commit_fails, NetworkOK
  <2> QED BY <1>9, <2>2, <2>3, <2>4 DEF commit_fails, StateOK, NetworkOK, state
<1>10. CASE confirm_done
  <2>1. CallOK'
    <3>1. CASE rollback_path_id = NoPath
      BY <1>10, <3>1, ReturnType DEF confirm_done, Results
    <3>2. CASE rollback_path_id # NoPath
      BY <1>10, <3>2, GoToType DEF confirm_done, Phases
    <3> QED BY <3>1, <3>2
  <2> QED BY <1>10, <2>1 DEF confirm_done, StateOK, NetworkOK, network, state
<1>11. CASE confirm_fails
  <2>1. pc = "confirm" /\ RetryOrRollback("confirm", "verifying")
    BY <1>11 DEF confirm_fails
  <2>2. CallOK'
    BY <2>1, RetryType
  <2>3. transition_state' \in {"verifying", "rolling_back"}
    BY <2>1 DEF RetryOrRollback, EnterRollback
  <2> QED BY <1>11, <2>2, <2>3 DEF confirm_fails, StateOK, NetworkOK, network, state
<1> QED BY <1>1, <1>2, <1>3, <1>4, <1>5, <1>6, <1>7, <1>8, <1>9, <1>10, <1>11

\* The loops of remove_unshared_tunnels.
LEMMA RemovalType ==
  ASSUME TypeOK, pc # "idle", NEW old \in Paths, NEW kept \in PathOrNone
  PROVE  /\ skip_tunnel(old, kept) \/ remove_tunnel(old, kept) => TypeOK'
         /\ remove_tunnel_fails(old, kept) => NetworkOK'
<1> USE DEF TypeOK
<1>1. skip_tunnel(old, kept) => TypeOK'
  BY NextSegmentType DEF skip_tunnel, StateOK, NetworkOK, state, network
<1>2. remove_tunnel(old, kept) => TypeOK'
  BY NextSegmentType DEF remove_tunnel, Terminate, StateOK, NetworkOK, state
<1>3. remove_tunnel_fails(old, kept) => NetworkOK'
  BY DEF remove_tunnel_fails, Terminate, NetworkOK
<1> QED BY <1>1, <1>2, <1>3

LEMMA CleanupTypeOK ==
  ASSUME TypeOK,
         \/ cleanup_forwarding \/ cleanup_forwarding_fails
         \/ cleanup_tunnel \/ cleanup_tunnel_fails \/ cleanup_done
  PROVE  TypeOK'
<1> USE DEF TypeOK
<1>1. CASE cleanup_forwarding
  <2>1. pc = "cleanup_forwarding" /\ GoTo("cleanup_tunnels")
    BY <1>1 DEF cleanup_forwarding
  <2>2. CallOK'
    BY <2>1, CallPaths, GoToType, TransitionAssumption DEF Phases, CallOK
  <2> QED BY <1>1, <2>1, <2>2, CallPaths, ForwardingType
          DEF cleanup_forwarding, StateOK, NetworkOK, state
<1>2. CASE cleanup_forwarding_fails
  <2>1. pc = "cleanup_forwarding" /\ EnterRollback
    BY <1>2 DEF cleanup_forwarding_fails
  <2>2. CallOK'
    BY <2>1, GoToType DEF EnterRollback, Phases
  <2>3. active_paths' \in [Keys -> PathOrNone]
    BY <1>2, <2>1, CallPaths, ForwardingType DEF cleanup_forwarding_fails, NetworkOK
  <2> QED BY <1>2, <2>1, <2>2, <2>3
          DEF cleanup_forwarding_fails, EnterRollback, StateOK, NetworkOK, state
<1>3. CASE cleanup_tunnel
  BY <1>3, CallPaths, RemovalType DEF cleanup_tunnel
<1>4. CASE cleanup_tunnel_fails
  <2>1. /\ pc = "cleanup_tunnels" /\ EnterRollback
        /\ remove_tunnel_fails(rollback_path_id, target_path)
    BY <1>4 DEF cleanup_tunnel_fails
  <2>2. CallOK'
    BY <2>1, GoToType DEF EnterRollback, Phases
  <2>3. NetworkOK'
    BY <2>1, CallPaths, RemovalType
  <2> QED BY <1>4, <2>1, <2>2, <2>3 DEF cleanup_tunnel_fails, EnterRollback, StateOK, state
<1>5. CASE cleanup_done
  <2>1. CallOK'
    BY <1>5, ReturnType DEF cleanup_done, Results
  <2> QED BY <1>5, <2>1 DEF cleanup_done, StateOK, NetworkOK, network
<1> QED BY <1>1, <1>2, <1>3, <1>4, <1>5

LEMMA RollbackTypeOK ==
  ASSUME TypeOK,
         \/ rollback_tunnel \/ rollback_tunnel_fails \/ rollback_tunnels_done
         \/ rollback_forwarding \/ rollback_forwarding_fails
         \/ rollback_prepare_tunnel \/ rollback_prepare_fails \/ rollback_prepare_done
         \/ rollback_done \/ rollback_install_fails
  PROVE  TypeOK'
<1> USE DEF TypeOK
<1>0. ASSUME pc # "idle", RollbackFails
      PROVE  /\ CallOK'
             /\ transition_state' = "failed"
             /\ errors' \subseteq {"rollback_failed"}
  <2>1. CallOK'
    BY <1>0, ReturnType DEF RollbackFails, Results
  <2> QED BY <1>0, <2>1 DEF RollbackFails, StateOK
<1>1. CASE rollback_tunnel
  BY <1>1, CallPaths, RemovalType DEF rollback_tunnel
<1>2. CASE rollback_tunnel_fails
  <2>1. /\ pc = "rollback_tunnels" /\ RollbackFails
        /\ remove_tunnel_fails(target_path, rollback_path_id)
    BY <1>2 DEF rollback_tunnel_fails
  <2>2. NetworkOK'
    BY <2>1, CallPaths, RemovalType
  <2> QED BY <1>0, <1>2, <2>1, <2>2 DEF rollback_tunnel_fails, StateOK, state
<1>3. CASE rollback_tunnels_done
  <2>1. CallOK'
    BY <1>3, GoToType DEF rollback_tunnels_done, Phases
  <2> QED BY <1>3, <2>1 DEF rollback_tunnels_done, StateOK, NetworkOK, state, network
<1>4. CASE rollback_forwarding
  <2>1. pc = "rollback_forwarding"
    BY <1>4 DEF rollback_forwarding
  <2>2. CallOK'
    <3>1. CASE rollback_path_id = NoPath
      BY <1>4, <2>1, <3>1, ReturnType DEF rollback_forwarding, RollbackSkipped, Results
    <3>2. CASE rollback_path_id # NoPath
      BY <1>4, <2>1, <3>2, GoToType DEF rollback_forwarding, Phases
    <3> QED BY <3>1, <3>2
  <2>3. transition_state' \in {"failed", transition_state}
    BY <1>4 DEF rollback_forwarding, RollbackSkipped
  <2> QED BY <1>4, <2>1, <2>2, <2>3, CallPaths, ForwardingType
          DEF rollback_forwarding, StateOK, NetworkOK, state
<1>5. CASE rollback_forwarding_fails
  <2>1. pc = "rollback_forwarding" /\ RollbackFails
    BY <1>5 DEF rollback_forwarding_fails
  <2>2. active_paths' \in [Keys -> PathOrNone]
    BY <1>5, <2>1, CallPaths, ForwardingType DEF rollback_forwarding_fails, NetworkOK
  <2> QED BY <1>0, <1>5, <2>1, <2>2 DEF rollback_forwarding_fails, StateOK, NetworkOK, state
<1>6. CASE rollback_prepare_tunnel
  BY <1>6, CallPaths, EnsureType DEF rollback_prepare_tunnel
<1>7. CASE rollback_prepare_fails
  <2>1. /\ pc = "rollback_prepare" /\ RollbackFails
        /\ ensure_tunnel_fails(rollback_path_id)
    BY <1>7 DEF rollback_prepare_fails
  <2> QED BY <1>0, <2>1, CallPaths, EnsureType DEF StateOK
<1>8. CASE rollback_prepare_done
  <2>1. CallOK'
    BY <1>8, CallPaths, GoToType, TransitionAssumption
    DEF rollback_prepare_done, Phases, CallOK
  <2> QED BY <1>8, <2>1 DEF rollback_prepare_done, StateOK, NetworkOK, network
<1>9. CASE rollback_done
  <2>1. pc = "rollback_install" /\ Return("rolled_back")
    BY <1>9 DEF rollback_done
  <2>2. CallOK'
    BY <2>1, ReturnType DEF Results
  <2>3. active_paths' \in [Keys -> PathOrNone]
    BY <1>9, <2>1, CallPaths, ForwardingType DEF rollback_done, NetworkOK
  <2>4. applied_paths' \in [Keys -> PathOrNone]
    BY <1>9, <2>1, CallPaths, SetAppliedType DEF rollback_done, StateOK
  <2> QED BY <1>9, <2>2, <2>3, <2>4 DEF rollback_done, StateOK, NetworkOK
<1>10. CASE rollback_install_fails
  <2>1. pc = "rollback_install" /\ RollbackFails
    BY <1>10 DEF rollback_install_fails
  <2>2. active_paths' \in [Keys -> PathOrNone]
    BY <1>10, <2>1, CallPaths, ForwardingType DEF rollback_install_fails, NetworkOK
  <2> QED BY <1>0, <1>10, <2>1, <2>2 DEF rollback_install_fails, StateOK, NetworkOK, state
<1> QED BY <1>1, <1>2, <1>3, <1>4, <1>5, <1>6, <1>7, <1>8, <1>9, <1>10

LEMMA NextTypeOK == TypeOK /\ [Next]_vars => TypeOK'
<1> SUFFICES ASSUME TypeOK, [Next]_vars PROVE TypeOK'
  OBVIOUS
<1>1. CASE UNCHANGED vars
  BY <1>1 DEF vars, state, network, locals, TypeOK, StateOK, NetworkOK, CallOK
<1>2. CASE en_controller_submit_intent
  BY <1>2, SubmitTypeOK
<1>3. CASE Continue
  BY <1>3, SwitchTypeOK, CleanupTypeOK, RollbackTypeOK DEF Continue, Validation, Application, Work
<1> QED BY <1>1, <1>2, <1>3 DEF Next

(* The state of the controller, the network and the running call keeps its *)
(* type; in particular a phase that cleans up or restores the previous     *)
(* path never runs without one, and no phase exceeds its attempts.         *)
THEOREM TypeCorrect == Spec => []TypeOK
<1>1. Init => TypeOK
  BY InitTypeOK
<1>2. TypeOK /\ [Next]_vars => TypeOK'
  BY NextTypeOK
<1> QED BY <1>1, <1>2, PTL DEF Spec

-----------------------------------------------------------------------------
(* The recorded path and the forwarding.                                   *)

\* Which path the record of the running call's key names in which phase, and
\* that a confirmed target stays in place during the clean-up.
CallForwardingOK ==
  /\ pc \in {"prepare", "ready", "commit", "install"}
       => applied_paths[traffic_key] = rollback_path_id
  /\ pc # "idle" => rollback_path_id # target_path
  /\ pc \in {"confirm", "cleanup_forwarding", "cleanup_tunnels"}
       => applied_paths[traffic_key] = target_path
  /\ pc \in {"cleanup_forwarding", "cleanup_tunnels"}
       => active_paths[traffic_key] = target_path

ForwardingInv ==
  TypeOK /\ (AppliedTableSuffices => CallForwardingOK /\ AppliedIsActive)

\* The call is running in every step but a submission.
LEMMA ContinueRuns == Continue => pc # "idle"
BY DEF Continue, Validation, Application, Work, prepare_tunnel, prepare_fails, prepare_done, ready_done, ready_fails,
       commit_drain, Drain, commit_refuses_flow_preserve, commit_done, commit_fails,
       Committing, confirm_done, confirm_fails, cleanup_forwarding,
       cleanup_forwarding_fails, cleanup_tunnel, cleanup_tunnel_fails, cleanup_done,
       rollback_tunnel, rollback_tunnel_fails, rollback_tunnels_done,
       rollback_forwarding, rollback_forwarding_fails, rollback_prepare_tunnel,
       rollback_prepare_fails, rollback_prepare_done, rollback_done,
       rollback_install_fails

\* Adapter calls and records touch the entry of one key.
LEMMA OneEntry ==
  ASSUME TypeOK, NEW k \in Keys, k # traffic_key, NEW p
  PROVE  /\ \A f \in AfterInstall(p) : f[k] = active_paths[k]
         /\ \A f \in AfterFailedInstall(p) : f[k] = active_paths[k]
         /\ AfterRemove(p)[k] = active_paths[k]
         /\ en_set_applied_path(traffic_key, p)[k] = applied_paths[k]
<1> active_paths \in [Keys -> PathOrNone] /\ applied_paths \in [Keys -> PathOrNone]
  BY DEF TypeOK, StateOK, NetworkOK
<1>1. \A q : [active_paths EXCEPT ![traffic_key] = q][k] = active_paths[k]
  OBVIOUS
<1>2. \A q : [applied_paths EXCEPT ![traffic_key] = q][k] = applied_paths[k]
  OBVIOUS
<1>3. \A f \in AfterInstall(p) : f[k] = active_paths[k]
  BY <1>1 DEF AfterInstall
<1>4. \A f \in AfterFailedInstall(p) : f[k] = active_paths[k]
  BY <1>1 DEF AfterFailedInstall
<1> QED BY <1>1, <1>2, <1>3, <1>4 DEF AfterRemove, en_set_applied_path

\* A step of the running call leaves the entries of every other key alone.
LEMMA OnlyItsKey ==
  ASSUME TypeOK, Continue, NEW k \in Keys, k # traffic_key
  PROVE  /\ applied_paths'[k] = applied_paths[k]
         /\ active_paths'[k] = active_paths[k]
         /\ last_result'[k] = last_result[k]
         /\ traffic_key' \in {traffic_key, NoKey}
<1> last_result \in [Keys -> Results]
  BY DEF TypeOK, CallOK
<1>1. ASSUME NEW r, Return(r)
      PROVE  last_result'[k] = last_result[k] /\ traffic_key' = NoKey
  BY <1>1 DEF Return
<1>2. ASSUME NEW phase, GoTo(phase)
      PROVE  last_result'[k] = last_result[k] /\ traffic_key' = traffic_key
  BY <1>2 DEF GoTo, locals
<1>3. ASSUME NEW phase, NEW reached, RetryOrRollback(phase, reached)
      PROVE  last_result'[k] = last_result[k] /\ traffic_key' = traffic_key
  BY <1>2, <1>3 DEF RetryOrRollback, EnterRollback, locals
<1>4. CASE \/ prepare_tunnel \/ prepare_fails \/ prepare_done
           \/ ready_done \/ ready_fails \/ commit_refuses_flow_preserve
           \/ confirm_fails
  BY <1>2, <1>3, <1>4
  DEF prepare_tunnel, prepare_fails, prepare_done, ready_done, ready_fails,
      commit_refuses_flow_preserve, confirm_fails, ensure_tunnel, ensure_tunnel_fails,
      state, network, locals
<1>5. CASE \/ commit_drain \/ commit_done \/ commit_fails \/ confirm_done
  BY <1>1, <1>2, <1>3, <1>5, OneEntry
  DEF commit_drain, Drain, commit_done, commit_fails, confirm_done, state, network, locals
<1>6. CASE \/ cleanup_forwarding \/ cleanup_forwarding_fails \/ cleanup_tunnel
           \/ cleanup_tunnel_fails \/ cleanup_done
  BY <1>1, <1>2, <1>6, OneEntry
  DEF cleanup_forwarding, cleanup_forwarding_fails, cleanup_tunnel,
      cleanup_tunnel_fails, cleanup_done, EnterRollback, skip_tunnel, remove_tunnel,
      remove_tunnel_fails, state, network, locals
<1>7. CASE \/ rollback_tunnel \/ rollback_tunnel_fails \/ rollback_tunnels_done
           \/ rollback_forwarding \/ rollback_forwarding_fails
  BY <1>1, <1>2, <1>7, OneEntry
  DEF rollback_tunnel, rollback_tunnel_fails, rollback_tunnels_done, RollbackFails,
      rollback_forwarding, rollback_forwarding_fails, RollbackSkipped, skip_tunnel,
      remove_tunnel, remove_tunnel_fails, state, network, locals
<1>8. CASE \/ rollback_prepare_tunnel \/ rollback_prepare_fails
           \/ rollback_prepare_done \/ rollback_done \/ rollback_install_fails
  BY <1>1, <1>2, <1>8, OneEntry
  DEF rollback_prepare_tunnel, rollback_prepare_fails, rollback_prepare_done,
      rollback_done, rollback_install_fails, RollbackFails, ensure_tunnel,
      ensure_tunnel_fails, state, network, locals
<1> QED BY <1>4, <1>5, <1>6, <1>7, <1>8 DEF Continue, Validation, Application, Work

\* With room for every key the record is always made.
LEMMA RecordIsMade ==
  ASSUME TypeOK, AppliedTableSuffices, NEW k \in Keys, NEW p \in PathOrNone
  PROVE  en_set_applied_path(k, p) = [applied_paths EXCEPT ![k] = p]
<1> DEFINE recorded == {l \in Keys : applied_paths[l] # NoPath}
<1>1. CASE applied_paths[k] # NoPath
  BY <1>1 DEF en_set_applied_path
<1>2. CASE applied_paths[k] = NoPath
  <2>1. IsFiniteSet(Keys)
    BY TransitionAssumption
  <2>2. recorded \subseteq Keys /\ recorded # Keys
    BY <1>2
  <2>3. /\ IsFiniteSet(recorded)
        /\ Cardinality(recorded) <= Cardinality(Keys)
        /\ Cardinality(recorded) # Cardinality(Keys)
    BY <2>1, <2>2, FS_Subset
  <2> HIDE DEF recorded
  <2>4. Cardinality(recorded) \in Nat /\ Cardinality(Keys) \in Nat
    BY <2>1, <2>3, FS_CardinalityType
  <2>5. Cardinality(recorded) < MaxApplied
    BY <2>3, <2>4, TransitionAssumption DEF AppliedTableSuffices
  <2> QED BY <2>5 DEF en_set_applied_path, recorded
<1> QED BY <1>1, <1>2

\* It is enough to look at the key whose call ends.
LEMMA KeyOfCall ==
  ASSUME TypeOK, AppliedTableSuffices, AppliedIsActive, Continue,
         \/ traffic_key' = traffic_key
         \/ last_result'[traffic_key] \in {"skipped", "failed"}
         \/ last_result'[traffic_key] = "rolled_back" /\ SilentInstalls
         \/ applied_paths'[traffic_key] = active_paths'[traffic_key]
  PROVE  AppliedIsActive'
<1> SUFFICES ASSUME NEW k \in Keys, Settled(k)',
                    last_result'[k] = "rolled_back" => ~SilentInstalls
             PROVE  applied_paths'[k] = active_paths'[k]
  BY DEF AppliedIsActive
<1>1. CASE k = traffic_key
  BY <1>1 DEF Settled
<1>2. CASE k # traffic_key
  BY <1>2, OnlyItsKey DEF AppliedIsActive, Settled
<1> QED BY <1>1, <1>2

LEMMA SubmitForwarding ==
  ASSUME ForwardingInv, AppliedTableSuffices, en_controller_submit_intent
  PROVE  CallForwardingOK' /\ AppliedIsActive'
<1> TypeOK /\ CallForwardingOK /\ AppliedIsActive
  BY DEF ForwardingInv
<1>1. ASSUME NEW k \in Keys, maintain_path(k)
      PROVE  CallForwardingOK' /\ AppliedIsActive'
  BY <1>1 DEF maintain_path, CallForwardingOK, AppliedIsActive, Settled, state, network, locals
<1>2. ASSUME NEW k \in Keys, NEW p \in candidates[k], NEW s \in Strategies,
             en_transition_path(k, p, s)
      PROVE  CallForwardingOK' /\ AppliedIsActive'
  <2>1. CallForwardingOK'
    BY <1>2 DEF en_transition_path, CallForwardingOK, state
  <2>2. pc = "idle" /\ traffic_key = NoKey
    BY <1>2 DEF en_transition_path, TypeOK, CallOK
  <2>3. AppliedIsActive'
    BY <1>2, <2>2, TransitionAssumption
    DEF en_transition_path, AppliedIsActive, Settled, state, network
  <2> QED BY <2>1, <2>3
<1> QED BY <1>1, <1>2 DEF en_controller_submit_intent

LEMMA ContinueForwarding ==
  ASSUME ForwardingInv, AppliedTableSuffices, Continue
  PROVE  CallForwardingOK' /\ AppliedIsActive'
<1> TypeOK /\ CallForwardingOK /\ AppliedIsActive
  BY DEF ForwardingInv
<1>a. /\ traffic_key \in Keys /\ pc # "idle"
      /\ target_path \in Paths /\ target_path \in PathOrNone
      /\ rollback_path_id \in PathOrNone
      /\ NoPath \notin Paths /\ NoKey \notin Keys
      /\ pc \in Phases
      /\ applied_paths \in [Keys -> PathOrNone]
      /\ active_paths \in [Keys -> PathOrNone]
      /\ last_result \in [Keys -> Results]
  BY ContinueRuns, CallPaths, TransitionAssumption DEF TypeOK, StateOK, NetworkOK, CallOK
<1>b. ASSUME NEW r, Return(r)
      PROVE  pc' = "idle" /\ last_result'[traffic_key] = r /\ traffic_key' = NoKey
  BY <1>a, <1>b DEF Return
<1>c. ASSUME NEW phase, GoTo(phase)
      PROVE  pc' = phase /\ UNCHANGED locals
  BY <1>c DEF GoTo
<1>d. ASSUME NEW phase, NEW reached, RetryOrRollback(phase, reached)
      PROVE  pc' \in {phase, "rollback_tunnels"} /\ UNCHANGED locals
  BY <1>c, <1>d DEF RetryOrRollback, EnterRollback
<1>e. ASSUME RollbackFails
      PROVE  pc' = "idle" /\ last_result'[traffic_key] = "failed" /\ traffic_key' = NoKey
  BY <1>b, <1>e DEF RollbackFails
<1>1. CASE prepare_tunnel \/ rollback_prepare_tunnel \/ cleanup_tunnel \/ rollback_tunnel
  <2>1. UNCHANGED <<applied_paths, active_paths, pc, locals>>
    BY <1>1 DEF prepare_tunnel, rollback_prepare_tunnel, cleanup_tunnel, rollback_tunnel,
                ensure_tunnel, skip_tunnel, remove_tunnel, state, network
  <2> QED BY <2>1, KeyOfCall DEF CallForwardingOK, locals
<1>2. CASE prepare_fails \/ ready_fails \/ commit_refuses_flow_preserve \/ confirm_fails
  <2>1. /\ UNCHANGED <<applied_paths, active_paths, locals>>
        /\ pc' \in {pc, "rollback_tunnels"}
    BY <1>2, <1>d DEF prepare_fails, ready_fails, commit_refuses_flow_preserve,
                      confirm_fails, ensure_tunnel_fails, state, network
  <2> QED BY <1>a, <2>1, KeyOfCall DEF CallForwardingOK, locals
<1>3. CASE prepare_done \/ ready_done \/ rollback_tunnels_done \/ rollback_prepare_done
  <2>1. /\ UNCHANGED <<applied_paths, active_paths, locals>>
        /\ \/ pc = "prepare" /\ pc' = "ready"
           \/ pc = "ready" /\ pc' = "commit"
           \/ pc' \in {"rollback_forwarding", "rollback_install"}
    BY <1>3, <1>c DEF prepare_done, ready_done, rollback_tunnels_done,
                      rollback_prepare_done, state, network
  <2> QED BY <1>a, <2>1, KeyOfCall DEF CallForwardingOK, locals
<1>4. CASE commit_drain
  BY <1>4, <1>a, KeyOfCall DEF commit_drain, Drain, CallForwardingOK, locals
<1>5. CASE commit_done
  <2>1. pc' = "confirm" /\ UNCHANGED locals
    BY <1>5, <1>c DEF commit_done
  <2>2. applied_paths' = [applied_paths EXCEPT ![traffic_key] = target_path]
    BY <1>5, <1>a, RecordIsMade DEF commit_done
  <2> QED BY <1>a, <2>1, <2>2, KeyOfCall DEF CallForwardingOK, locals
<1>6. CASE commit_fails
  <2>1. /\ UNCHANGED <<applied_paths, locals>>
        /\ pc' \in {"commit", "rollback_tunnels"}
        /\ pc \in {"commit", "install"}
    BY <1>6, <1>d DEF commit_fails, Committing, state
  <2> QED BY <1>a, <2>1, KeyOfCall DEF CallForwardingOK, locals
<1>7. CASE confirm_done
  <2>1. /\ UNCHANGED <<applied_paths, active_paths>>
        /\ applied_paths[traffic_key] = target_path
        /\ active_paths[traffic_key] = target_path
    BY <1>7 DEF confirm_done, Confirmed, CallForwardingOK, state, network
  <2>2. CASE rollback_path_id = NoPath
    <3>1. pc' = "idle"
      BY <1>7, <1>b, <2>2 DEF confirm_done
    <3> QED BY <2>1, <3>1, KeyOfCall DEF CallForwardingOK
  <2>3. CASE rollback_path_id # NoPath
    <3>1. pc' = "cleanup_forwarding" /\ UNCHANGED locals
      BY <1>7, <1>c, <2>3 DEF confirm_done
    <3> QED BY <1>a, <2>1, <3>1, KeyOfCall DEF CallForwardingOK, locals
  <2> QED BY <2>2, <2>3
<1>8. CASE cleanup_forwarding
  <2>1. /\ UNCHANGED <<applied_paths, locals>> /\ pc' = "cleanup_tunnels"
        /\ active_paths' = AfterRemove(rollback_path_id)
        /\ pc = "cleanup_forwarding"
    BY <1>8, <1>c DEF cleanup_forwarding, state
  <2>2. active_paths' = active_paths
    BY <1>a, <2>1 DEF AfterRemove, CallForwardingOK
  <2> QED BY <1>a, <2>1, <2>2, KeyOfCall DEF CallForwardingOK, locals
<1>9. CASE cleanup_forwarding_fails \/ cleanup_tunnel_fails
  <2>1. /\ UNCHANGED <<applied_paths, locals>> /\ pc' = "rollback_tunnels"
    BY <1>9, <1>c DEF cleanup_forwarding_fails, cleanup_tunnel_fails, EnterRollback, state
  <2> QED BY <1>a, <2>1, KeyOfCall DEF CallForwardingOK, locals
<1>10. CASE cleanup_done
  <2>1. /\ UNCHANGED <<applied_paths, active_paths>>
        /\ pc = "cleanup_tunnels" /\ pc' = "idle"
    BY <1>10, <1>b DEF cleanup_done, network
  <2> QED BY <2>1, KeyOfCall DEF CallForwardingOK
<1>11. CASE rollback_forwarding
  <2>1. CASE rollback_path_id = NoPath
    <3>1. pc' = "idle" /\ last_result'[traffic_key] = "skipped"
      BY <1>11, <1>b, <2>1 DEF rollback_forwarding, RollbackSkipped
    <3> QED BY <3>1, KeyOfCall DEF CallForwardingOK
  <2>2. CASE rollback_path_id # NoPath
    <3>1. pc' = "rollback_prepare" /\ UNCHANGED <<applied_paths, locals>>
      BY <1>11, <1>c, <2>2 DEF rollback_forwarding, state
    <3> QED BY <1>a, <3>1, KeyOfCall DEF CallForwardingOK, locals
  <2> QED BY <2>1, <2>2
<1>12. CASE \/ rollback_tunnel_fails \/ rollback_forwarding_fails
            \/ rollback_prepare_fails \/ rollback_install_fails
  <2>1. pc' = "idle" /\ last_result'[traffic_key] = "failed"
    BY <1>12, <1>e DEF rollback_tunnel_fails, rollback_forwarding_fails,
                       rollback_prepare_fails, rollback_install_fails
  <2> QED BY <2>1, KeyOfCall DEF CallForwardingOK
<1>13. CASE rollback_done
  <2>1. pc' = "idle" /\ last_result'[traffic_key] = "rolled_back"
    BY <1>13, <1>b DEF rollback_done
  <2>2. applied_paths'[traffic_key] = rollback_path_id
    BY <1>13, <1>a, RecordIsMade DEF rollback_done
  <2>3. SilentInstalls \/ active_paths'[traffic_key] = rollback_path_id
    BY <1>13, <1>a DEF rollback_done, AfterInstall
  <2> QED BY <2>1, <2>2, <2>3, KeyOfCall DEF CallForwardingOK
<1> QED BY <1>1, <1>2, <1>3, <1>4, <1>5, <1>6, <1>7, <1>8, <1>9, <1>10, <1>11, <1>12, <1>13
        DEF Continue, Validation, Application, Work

LEMMA ForwardingInvariant == Spec => []ForwardingInv
<1>1. Init => ForwardingInv
  BY InitTypeOK DEF Init, ForwardingInv, CallForwardingOK, AppliedIsActive
<1>2. ForwardingInv /\ [Next]_vars => ForwardingInv'
  <2> SUFFICES ASSUME ForwardingInv, [Next]_vars PROVE ForwardingInv'
    OBVIOUS
  <2>1. TypeOK'
    BY NextTypeOK DEF ForwardingInv
  <2>2. CASE UNCHANGED vars
    BY <2>1, <2>2 DEF vars, state, network, locals, ForwardingInv, CallForwardingOK,
                      AppliedIsActive, Settled, AppliedTableSuffices
  <2>3. CASE Next
    BY <2>1, <2>3, SubmitForwarding, ContinueForwarding
    DEF Next, ForwardingInv, AppliedTableSuffices
  <2> QED BY <2>2, <2>3
<1> QED BY <1>1, <1>2, PTL DEF Spec

(* Whatever adapter calls fail, and however often, a completed transition  *)
(* and a rolled back one leave the path recorded as applied in place of    *)
(* the forwarding; the rollback only if install_path tells the truth.      *)
THEOREM AppliedPathIsActive == Spec => []AppliedIsActive
<1>1. ForwardingInv => AppliedIsActive
  BY DEF ForwardingInv, AppliedIsActive
<1> QED BY <1>1, ForwardingInvariant, PTL

-----------------------------------------------------------------------------
(* The tunnels: which are up in which phase, for any traffic keys, paths,   *)
(* tunnels and bounds; and that the transition as a whole is a transaction *)
(* on the path of one key.                                                 *)


\* The segments of p that the loop over them has passed are up.
Prepared(p) ==
  \A i \in 1..Len(segments[p]) : i < segment => segments[p][i] \in established

\* What the running call holds of its tunnels in which phase.
CallTunnelsOK ==
  /\ pc = "prepare" => Prepared(target_path)
  /\ pc = "ready" => TunnelsOf(target_path) \subseteq established
  /\ SwitchToReadyPath
  /\ pc = "rollback_prepare" => Prepared(rollback_path_id)
  /\ pc = "rollback_install" => TunnelsOf(rollback_path_id) \subseteq established

\* Records name candidates of their key.
RecordsAreCandidates ==
  /\ \A k \in Keys : applied_paths[k] \in candidates[k] \cup {NoPath}
  /\ pc # "idle" => rollback_path_id \in candidates[traffic_key] \cup {NoPath}

-----------------------------------------------------------------------------
(* The loop over the segments.                                             *)

LEMMA PreparedDone ==
  ASSUME TypeOK, NEW p \in Paths, Prepared(p), Done(p)
  PROVE  TunnelsOf(p) \subseteq established
<1>1. segments[p] \in Seq(Tunnels) /\ segment \in Nat
  BY TransitionAssumption DEF TypeOK, CallOK
<1>2. NoPath \notin Paths
  BY TransitionAssumption
<1>3. ASSUME NEW i \in 1..Len(segments[p]) PROVE segments[p][i] \in established
  <2>1. i < segment
    BY <1>1 DEF Done
  <2> QED BY <2>1 DEF Prepared
<1> QED BY <1>2, <1>3 DEF TunnelsOf

LEMMA PreparedNext ==
  ASSUME TypeOK, NEW p \in Paths, Prepared(p), ensure_tunnel(p)
  PROVE  \A i \in 1..Len(segments[p]) : i < segment' => segments[p][i] \in established'
<1>1. segments[p] \in Seq(Tunnels) /\ segment \in Nat \ {0}
  BY TransitionAssumption DEF TypeOK, CallOK
<1>2. segment' = segment + 1 /\ established' = established \cup {segments[p][segment]}
  BY DEF ensure_tunnel
<1> SUFFICES ASSUME NEW i \in 1..Len(segments[p]), i < segment'
             PROVE  segments[p][i] \in established'
  OBVIOUS
<1>3. i < segment \/ i = segment
  BY <1>1, <1>2
<1> QED BY <1>2, <1>3 DEF Prepared

\* A loop that begins has passed nothing.
LEMMA PreparedStart ==
  ASSUME segment' = 1, NEW p
  PROVE  \A i \in 1..Len(segments[p]) : i < segment' => segments[p][i] \in established'
OBVIOUS

\* Only the two loops that remove tunnels take any down, each only tunnels that the
\* path it keeps does not use.
LEMMA OnlyRemoved ==
  ASSUME TypeOK, Continue
  PROVE  \/ established \subseteq established'
         \/ /\ pc = "cleanup_tunnels" /\ rollback_path_id \in Paths
            /\ established \ established' \subseteq
                 TunnelsOf(rollback_path_id) \ TunnelsOf(target_path)
         \/ /\ pc = "rollback_tunnels"
            /\ established \ established' \subseteq
                 TunnelsOf(target_path) \ TunnelsOf(rollback_path_id)
<1>1. pc # "idle" /\ segment \in Nat \ {0}
  BY ContinueRuns DEF TypeOK, CallOK
<1>2. ASSUME NEW old \in Paths, NEW kept,
             \/ skip_tunnel(old, kept) \/ remove_tunnel(old, kept)
             \/ remove_tunnel_fails(old, kept)
      PROVE  established \ established' \subseteq TunnelsOf(old) \ TunnelsOf(kept)
  <2>1. CASE skip_tunnel(old, kept)
    BY <2>1 DEF skip_tunnel, network
  <2>2. CASE remove_tunnel(old, kept) \/ remove_tunnel_fails(old, kept)
    <3>1. segments[old][segment] \in TunnelsOf(old) \ TunnelsOf(kept)
      BY <1>1, <2>2, SegmentType DEF remove_tunnel, remove_tunnel_fails, Removable
    <3> QED BY <2>2, <3>1 DEF remove_tunnel, remove_tunnel_fails, Terminate
  <2> QED BY <1>2, <2>1, <2>2
<1>3. CASE cleanup_tunnel \/ cleanup_tunnel_fails
  <2>1. pc = "cleanup_tunnels" /\ rollback_path_id \in Paths
    BY <1>1, <1>3, CallPaths DEF cleanup_tunnel, cleanup_tunnel_fails
  <2> QED BY <1>2, <1>3, <2>1 DEF cleanup_tunnel, cleanup_tunnel_fails
<1>4. CASE rollback_tunnel \/ rollback_tunnel_fails
  BY <1>1, <1>2, <1>4, CallPaths DEF rollback_tunnel, rollback_tunnel_fails
<1>5. CASE \/ prepare_tunnel \/ prepare_fails \/ prepare_done \/ ready_done \/ ready_fails
           \/ commit_drain \/ commit_refuses_flow_preserve \/ commit_done \/ commit_fails
           \/ confirm_done \/ confirm_fails
  BY <1>5 DEF prepare_tunnel, prepare_fails, prepare_done, ready_done, ready_fails,
              commit_drain, Drain, commit_refuses_flow_preserve, commit_done, commit_fails,
              confirm_done, confirm_fails, ensure_tunnel, ensure_tunnel_fails, network
<1>6. CASE \/ cleanup_forwarding \/ cleanup_forwarding_fails \/ cleanup_done
           \/ rollback_tunnels_done \/ rollback_forwarding \/ rollback_forwarding_fails
           \/ rollback_prepare_tunnel \/ rollback_prepare_fails \/ rollback_prepare_done
           \/ rollback_done \/ rollback_install_fails
  BY <1>6 DEF cleanup_forwarding, cleanup_forwarding_fails, cleanup_done,
              rollback_tunnels_done, rollback_forwarding, rollback_forwarding_fails,
              rollback_prepare_tunnel, rollback_prepare_fails, rollback_prepare_done,
              rollback_done, rollback_install_fails, ensure_tunnel, ensure_tunnel_fails,
              network
<1> QED BY <1>3, <1>4, <1>5, <1>6 DEF Continue, Validation, Application, Work

-----------------------------------------------------------------------------
(* Traffic is switched to paths that are ready.                            *)

\* How the phases follow each other.
LEMMA PhaseSteps ==
  ASSUME TypeOK, Continue
  PROVE  /\ pc' = "prepare" => pc = "prepare"
         /\ pc' = "ready" => pc = "ready" \/ prepare_done
         /\ pc' \in {"commit", "install", "confirm", "cleanup_forwarding", "cleanup_tunnels"}
              => pc \in {"ready", "commit", "install", "confirm", "cleanup_forwarding",
                         "cleanup_tunnels"}
         /\ pc' = "rollback_prepare" => rollback_prepare_tunnel \/ rollback_forwarding
         /\ pc' = "rollback_install" => rollback_prepare_done
         /\ pc' \in {"prepare", "ready", "commit", "install", "confirm", "cleanup_forwarding"}
              => pc \in {"prepare", "ready", "commit", "install", "confirm",
                         "cleanup_forwarding"}
         /\ pc' # "idle" =>
              UNCHANGED <<traffic_key, target_path, rollback_path_id, last_result>>
<1>a. ASSUME NEW r, Return(r) PROVE pc' = "idle"
  BY <1>a DEF Return
<1>b. ASSUME NEW phase, GoTo(phase) PROVE pc' = phase /\ UNCHANGED <<locals, last_result>>
  BY <1>b DEF GoTo
<1>c. ASSUME NEW phase, NEW reached, RetryOrRollback(phase, reached)
      PROVE  pc' \in {phase, "rollback_tunnels"} /\ UNCHANGED <<locals, last_result>>
  BY <1>b, <1>c DEF RetryOrRollback, EnterRollback
<1>1. CASE \/ prepare_tunnel \/ prepare_fails \/ prepare_done \/ ready_done \/ ready_fails
  BY <1>1, <1>b, <1>c
  DEF prepare_tunnel, prepare_fails, prepare_done, ready_done, ready_fails, ensure_tunnel,
      locals
<1>2. CASE \/ commit_drain \/ commit_refuses_flow_preserve \/ commit_done \/ commit_fails
           \/ confirm_done \/ confirm_fails
  BY <1>2, <1>a, <1>b, <1>c
  DEF commit_drain, Drain, commit_refuses_flow_preserve, commit_done, commit_fails,
      Committing, confirm_done, confirm_fails, locals
<1>3. CASE \/ cleanup_forwarding \/ cleanup_forwarding_fails \/ cleanup_tunnel
           \/ cleanup_tunnel_fails \/ cleanup_done
  BY <1>3, <1>a, <1>b
  DEF cleanup_forwarding, cleanup_forwarding_fails, cleanup_tunnel, cleanup_tunnel_fails,
      cleanup_done, EnterRollback, skip_tunnel, remove_tunnel, locals
<1>4. CASE \/ rollback_tunnel \/ rollback_tunnel_fails \/ rollback_tunnels_done
           \/ rollback_forwarding \/ rollback_forwarding_fails
  BY <1>4, <1>a, <1>b
  DEF rollback_tunnel, rollback_tunnel_fails, rollback_tunnels_done, rollback_forwarding,
      rollback_forwarding_fails, RollbackFails, RollbackSkipped, skip_tunnel, remove_tunnel,
      locals
<1>5. CASE \/ rollback_prepare_tunnel \/ rollback_prepare_fails \/ rollback_prepare_done
           \/ rollback_done \/ rollback_install_fails
  BY <1>5, <1>a, <1>b
  DEF rollback_prepare_tunnel, rollback_prepare_fails, rollback_prepare_done,
      rollback_done, rollback_install_fails, RollbackFails, ensure_tunnel, locals
<1> QED BY <1>1, <1>2, <1>3, <1>4, <1>5 DEF Continue, Validation, Application, Work

LEMMA ContinueTunnels ==
  ASSUME TypeOK, CallTunnelsOK, Continue
  PROVE  CallTunnelsOK'
<1>a. /\ pc # "idle" /\ target_path \in Paths
      /\ pc = "rollback_prepare" => rollback_path_id \in Paths
  BY ContinueRuns, CallPaths
<1>b. pc' # "idle" => UNCHANGED <<traffic_key, target_path, rollback_path_id>>
  BY PhaseSteps
<1>c. pc' # "idle" => TunnelsOf(target_path)' = TunnelsOf(target_path)
                   /\ TunnelsOf(rollback_path_id)' = TunnelsOf(rollback_path_id)
  BY <1>b DEF TunnelsOf
<1>1. ASSUME pc' = "prepare" PROVE Prepared(target_path)'
  <2>1. pc = "prepare" /\ Prepared(target_path) /\ target_path' = target_path
    BY <1>1, <1>b, PhaseSteps DEF CallTunnelsOK
  <2>2. prepare_tunnel \/ prepare_fails
    BY <1>1, <2>1 DEF Continue, Validation, Application, Work, prepare_tunnel, prepare_fails,
       prepare_done, ready_done, ready_fails, commit_drain, Drain,
       commit_refuses_flow_preserve, commit_done, commit_fails, Committing, confirm_done,
       confirm_fails, cleanup_forwarding, cleanup_forwarding_fails, cleanup_tunnel,
       cleanup_tunnel_fails, cleanup_done, rollback_tunnel, rollback_tunnel_fails,
       rollback_tunnels_done, rollback_forwarding, rollback_forwarding_fails,
       rollback_prepare_tunnel, rollback_prepare_fails, rollback_prepare_done,
       rollback_done, rollback_install_fails, GoTo
  <2>3. CASE prepare_tunnel
    BY <1>a, <2>1, <2>3, PreparedNext DEF prepare_tunnel, Prepared
  <2>4. CASE prepare_fails
    <3>1. segment' = 1
      BY <2>4 DEF prepare_fails, RetryOrRollback, EnterRollback, GoTo
    <3> QED BY <2>1, <3>1, PreparedStart DEF Prepared
  <2> QED BY <2>2, <2>3, <2>4
<1>2. ASSUME pc' = "ready" PROVE (TunnelsOf(target_path) \subseteq established)'
  <2>1. CASE pc = "ready"
    BY <1>2, <1>c, <2>1, OnlyRemoved DEF CallTunnelsOK
  <2>2. CASE prepare_done
    BY <1>2, <1>a, <1>c, <2>2, PreparedDone DEF prepare_done, network, CallTunnelsOK
  <2> QED BY <1>2, <2>1, <2>2, PhaseSteps
<1>3. SwitchToReadyPath'
  <2> SUFFICES ASSUME pc' \in {"commit", "install", "confirm", "cleanup_forwarding",
                               "cleanup_tunnels"}
               PROVE  (TunnelsOf(target_path) \subseteq established)'
    BY DEF SwitchToReadyPath
  <2>1. pc \in {"ready", "commit", "install", "confirm", "cleanup_forwarding",
                "cleanup_tunnels"}
    BY PhaseSteps
  <2>2. TunnelsOf(target_path) \subseteq established
    BY <2>1 DEF CallTunnelsOK, SwitchToReadyPath
  <2>3. TunnelsOf(target_path) \subseteq established'
    BY <2>1, <2>2, OnlyRemoved
  <2> QED BY <1>c, <2>3
<1>4. ASSUME pc' = "rollback_prepare" PROVE Prepared(rollback_path_id)'
  <2>1. rollback_path_id' = rollback_path_id
    BY <1>4, <1>b
  <2>2. CASE rollback_prepare_tunnel
    BY <1>a, <2>1, <2>2, PreparedNext DEF rollback_prepare_tunnel, Prepared, CallTunnelsOK
  <2>3. CASE rollback_forwarding
    <3>1. segment' = 1
      BY <2>3 DEF rollback_forwarding, RollbackSkipped, Return, GoTo
    <3> QED BY <2>1, <3>1, PreparedStart DEF Prepared
  <2> QED BY <1>4, <2>2, <2>3, PhaseSteps
<1>5. ASSUME pc' = "rollback_install"
      PROVE  (TunnelsOf(rollback_path_id) \subseteq established)'
  BY <1>5, <1>a, <1>c, PhaseSteps, PreparedDone
  DEF rollback_prepare_done, network, CallTunnelsOK
<1> QED BY <1>1, <1>2, <1>3, <1>4, <1>5 DEF CallTunnelsOK

LEMMA SubmitTunnels ==
  ASSUME TypeOK, CallTunnelsOK, en_controller_submit_intent
  PROVE  CallTunnelsOK'
<1>1. ASSUME NEW k \in Keys, maintain_path(k) PROVE CallTunnelsOK'
  BY <1>1 DEF maintain_path, CallTunnelsOK, SwitchToReadyPath
<1>2. ASSUME NEW k \in Keys, NEW p \in candidates[k], NEW s \in Strategies,
             en_transition_path(k, p, s)
      PROVE  CallTunnelsOK'
  <2>1. pc' = "prepare" /\ segment' = 1
    BY <1>2 DEF en_transition_path
  <2>2. Prepared(target_path)'
    BY <2>1, PreparedStart DEF Prepared
  <2> QED BY <2>1, <2>2 DEF CallTunnelsOK, SwitchToReadyPath
<1> QED BY <1>1, <1>2 DEF en_controller_submit_intent

ReadyInv == TypeOK /\ CallTunnelsOK

LEMMA ReadyInvariant == Spec => []ReadyInv
<1>1. Init => ReadyInv
  BY InitTypeOK DEF Init, ReadyInv, CallTunnelsOK, SwitchToReadyPath
<1>2. ReadyInv /\ [Next]_vars => ReadyInv'
  <2> SUFFICES ASSUME ReadyInv, [Next]_vars PROVE ReadyInv'
    OBVIOUS
  <2>1. TypeOK'
    BY NextTypeOK DEF ReadyInv
  <2>2. CASE UNCHANGED vars
    BY <2>1, <2>2 DEF vars, state, network, locals, ReadyInv, CallTunnelsOK, Prepared,
                      SwitchToReadyPath, TunnelsOf
  <2> QED BY <2>1, <2>2, ContinueTunnels, SubmitTunnels DEF Next, ReadyInv
<1> QED BY <1>1, <1>2, PTL DEF Spec

(* From the commit of the target to the removal of the last tunnel of   *)
(* the previous path all tunnels of the target are up, whatever calls fail  *)
(* and are repeated.                                                        *)
THEOREM SwitchesToReadyPath == Spec => []SwitchToReadyPath
<1>1. ReadyInv => SwitchToReadyPath
  BY DEF ReadyInv, CallTunnelsOK
<1> QED BY <1>1, ReadyInvariant, PTL

-----------------------------------------------------------------------------
(* The tunnels of the applied and the previous path.                       *)

\* Outside of the commit and the last step of a rollback no path is recorded.
LEMMA OnlyApplicationRecords ==
  ASSUME Validation \/ Work
  PROVE  UNCHANGED applied_paths
BY DEF Validation, Work, prepare_tunnel, prepare_fails, prepare_done, ready_done,
       ready_fails, commit_drain, Drain, commit_refuses_flow_preserve, commit_fails,
       confirm_done, confirm_fails, cleanup_forwarding, cleanup_forwarding_fails,
       cleanup_tunnel, cleanup_tunnel_fails, cleanup_done, rollback_tunnel,
       rollback_tunnel_fails, rollback_tunnels_done, rollback_forwarding,
       rollback_forwarding_fails, rollback_prepare_tunnel, rollback_prepare_fails,
       rollback_prepare_done, rollback_install_fails, ensure_tunnel, ensure_tunnel_fails,
       skip_tunnel, remove_tunnel, remove_tunnel_fails, state

LEMMA ContinueRecords ==
  ASSUME TypeOK, RecordsAreCandidates, Continue
  PROVE  RecordsAreCandidates'
<1>a. /\ traffic_key \in Keys /\ target_path \in candidates[traffic_key]
      /\ rollback_path_id \in candidates[traffic_key] \cup {NoPath}
      /\ applied_paths \in [Keys -> PathOrNone]
  BY ContinueRuns DEF TypeOK, CallOK, StateOK, RecordsAreCandidates
<1>1. pc' # "idle" => (rollback_path_id \in candidates[traffic_key] \cup {NoPath})'
  BY <1>a, PhaseSteps
<1>2. ASSUME NEW k \in Keys PROVE applied_paths'[k] \in candidates[k] \cup {NoPath}
  <2>1. CASE k # traffic_key
    BY <2>1, OnlyItsKey DEF RecordsAreCandidates
  <2>2. CASE k = traffic_key /\ commit_done
    BY <1>a, <2>2 DEF commit_done, en_set_applied_path, RecordsAreCandidates
  <2>3. CASE k = traffic_key /\ rollback_done
    BY <1>a, <2>3 DEF rollback_done, en_set_applied_path, RecordsAreCandidates
  <2>4. CASE Validation \/ Work
    <3>1. UNCHANGED applied_paths
      BY <2>4, OnlyApplicationRecords
    <3> QED BY <3>1 DEF RecordsAreCandidates
  <2> QED BY <2>1, <2>2, <2>3, <2>4 DEF Continue, Application
<1> QED BY <1>1, <1>2 DEF RecordsAreCandidates

LEMMA SubmitRecords ==
  ASSUME TypeOK, RecordsAreCandidates, en_controller_submit_intent
  PROVE  RecordsAreCandidates'
BY DEF en_controller_submit_intent, maintain_path, en_transition_path, state, locals,
       RecordsAreCandidates

\* The tunnels of another key's applied path are not removed.
LEMMA OthersKept ==
  ASSUME TypeOK, RecordsAreCandidates, KeysDisjoint, Continue,
         NEW k \in Keys, k # traffic_key,
         TunnelsOf(applied_paths[k]) \subseteq established
  PROVE  TunnelsOf(applied_paths[k]) \subseteq established'
<1>1. /\ traffic_key \in Keys /\ target_path \in candidates[traffic_key]
      /\ rollback_path_id \in candidates[traffic_key] \cup {NoPath}
      /\ applied_paths[k] \in candidates[k] \cup {NoPath}
  BY ContinueRuns DEF TypeOK, CallOK, RecordsAreCandidates
<1>2. TunnelsOf(NoPath) = {}
  BY DEF TunnelsOf
<1>3. /\ TunnelsOf(applied_paths[k]) \cap TunnelsOf(target_path) = {}
      /\ TunnelsOf(applied_paths[k]) \cap TunnelsOf(rollback_path_id) = {}
  BY <1>1, <1>2 DEF KeysDisjoint
<1> QED BY <1>3, OnlyRemoved

\* How a call ends with its key settled.
LEMMA SettlingSteps ==
  ASSUME TypeOK, Continue, Settled(traffic_key)' \/ traffic_key' # traffic_key,
         last_result'[traffic_key] \in {"none", "completed", "rolled_back"}
  PROVE  confirm_done \/ cleanup_done \/ rollback_done
<1>a. traffic_key \in Keys /\ traffic_key # NoKey /\ last_result \in [Keys -> Results]
  BY ContinueRuns, TransitionAssumption DEF TypeOK, CallOK
<1>b. ASSUME NEW phase, GoTo(phase) PROVE traffic_key' = traffic_key
  BY <1>b DEF GoTo, locals
<1>c. ASSUME NEW phase, NEW reached, RetryOrRollback(phase, reached)
      PROVE  traffic_key' = traffic_key
  BY <1>b, <1>c DEF RetryOrRollback, EnterRollback, locals
<1>d. ASSUME NEW r, Return(r) PROVE last_result'[traffic_key] = r
  BY <1>a, <1>d DEF Return
<1>1. CASE \/ prepare_tunnel \/ prepare_fails \/ prepare_done \/ ready_done \/ ready_fails
           \/ commit_drain \/ commit_refuses_flow_preserve \/ commit_done \/ commit_fails
           \/ confirm_fails
  <2>1. traffic_key' = traffic_key
    BY <1>1, <1>b, <1>c
    DEF prepare_tunnel, prepare_fails, prepare_done, ready_done, ready_fails, ensure_tunnel,
        commit_drain, Drain, commit_refuses_flow_preserve, commit_done, commit_fails,
        confirm_fails, locals
  <2> QED BY <2>1 DEF Settled
<1>2. CASE \/ cleanup_forwarding \/ cleanup_forwarding_fails \/ cleanup_tunnel
           \/ cleanup_tunnel_fails \/ rollback_tunnel \/ rollback_tunnels_done
           \/ rollback_prepare_tunnel \/ rollback_prepare_done
  <2>1. traffic_key' = traffic_key
    BY <1>2, <1>b
    DEF cleanup_forwarding, cleanup_forwarding_fails, cleanup_tunnel, cleanup_tunnel_fails,
        rollback_tunnel, rollback_tunnels_done, rollback_prepare_tunnel,
        rollback_prepare_done, EnterRollback, skip_tunnel, remove_tunnel, ensure_tunnel, locals
  <2> QED BY <2>1 DEF Settled
<1>3. CASE \/ rollback_tunnel_fails \/ rollback_forwarding_fails \/ rollback_prepare_fails
           \/ rollback_install_fails
  BY <1>3, <1>d
  DEF rollback_tunnel_fails, rollback_forwarding_fails, rollback_prepare_fails,
      rollback_install_fails, RollbackFails
<1>4. CASE rollback_forwarding
  <2>1. CASE rollback_path_id = NoPath
    BY <1>4, <1>d, <2>1 DEF rollback_forwarding, RollbackSkipped
  <2>2. CASE rollback_path_id # NoPath
    BY <1>4, <1>b, <2>2 DEF rollback_forwarding, Settled
  <2> QED BY <2>1, <2>2
<1> QED BY <1>1, <1>2, <1>3, <1>4 DEF Continue, Validation, Application, Work

\* Nothing has been done to the forwarding yet.
Uncommitted ==
  pc \in {"prepare", "ready"} \/ (pc \in {"commit", "install"} /\ attempt = 0)

LEMMA BeforeCommit ==
  ASSUME TypeOK, Continue, Uncommitted'
  PROVE  Uncommitted /\ UNCHANGED active_paths
<1>a. attempt \in Nat
  BY TransitionAssumption DEF TypeOK, CallOK
<1>b. ASSUME NEW r, Return(r) PROVE pc' = "idle"
  BY <1>b DEF Return
<1>c. ASSUME NEW phase, GoTo(phase) PROVE pc' = phase
  BY <1>c DEF GoTo
<1>d. ASSUME NEW phase, NEW reached, RetryOrRollback(phase, reached)
      PROVE  \/ pc' = phase /\ attempt' # 0
             \/ pc' = "rollback_tunnels"
  BY <1>a, <1>c, <1>d DEF RetryOrRollback, EnterRollback, NextAttempt
<1>1. CASE prepare_tunnel \/ prepare_fails \/ prepare_done
  BY <1>1 DEF prepare_tunnel, prepare_fails, prepare_done, ensure_tunnel,
              ensure_tunnel_fails, network, Uncommitted
<1>2. CASE ready_done \/ ready_fails
  BY <1>2 DEF ready_done, ready_fails, network, Uncommitted
<1>3. CASE commit_drain
  BY <1>3 DEF commit_drain, Drain, Uncommitted
<1>4. CASE commit_refuses_flow_preserve \/ commit_fails \/ confirm_fails
  BY <1>4, <1>d DEF commit_refuses_flow_preserve, commit_fails, confirm_fails, Uncommitted
<1>5. CASE commit_done \/ confirm_done
  BY <1>5, <1>b, <1>c DEF commit_done, confirm_done, Uncommitted
<1>6. CASE \/ cleanup_forwarding \/ cleanup_forwarding_fails \/ cleanup_tunnel
           \/ cleanup_tunnel_fails \/ cleanup_done
  BY <1>6, <1>b, <1>c
  DEF cleanup_forwarding, cleanup_forwarding_fails, cleanup_tunnel, cleanup_tunnel_fails,
      cleanup_done, EnterRollback, skip_tunnel, remove_tunnel, Uncommitted
<1>7. CASE \/ rollback_tunnel \/ rollback_tunnel_fails \/ rollback_tunnels_done
           \/ rollback_forwarding \/ rollback_forwarding_fails
  BY <1>7, <1>b, <1>c
  DEF rollback_tunnel, rollback_tunnel_fails, rollback_tunnels_done, rollback_forwarding,
      rollback_forwarding_fails, RollbackFails, RollbackSkipped, skip_tunnel, remove_tunnel,
      Uncommitted
<1>8. CASE \/ rollback_prepare_tunnel \/ rollback_prepare_fails \/ rollback_prepare_done
           \/ rollback_done \/ rollback_install_fails
  BY <1>8, <1>b, <1>c
  DEF rollback_prepare_tunnel, rollback_prepare_fails, rollback_prepare_done,
      rollback_done, rollback_install_fails, RollbackFails, ensure_tunnel, Uncommitted
<1> QED BY <1>1, <1>2, <1>3, <1>4, <1>5, <1>6, <1>7, <1>8
        DEF Continue, Validation, Application, Work

CarriedInv ==
  /\ ForwardingInv /\ CallTunnelsOK /\ RecordsAreCandidates
  /\ AppliedIsCarried /\ MakeBeforeBreak

LEMMA ContinueCarried ==
  ASSUME CarriedInv, Continue
  PROVE  AppliedIsCarried'
<1> SUFFICES ASSUME AppliedTableSuffices, KeysDisjoint, NEW k \in Keys, Settled(k)'
             PROVE  (TunnelsOf(applied_paths[k]) \subseteq established)'
  BY DEF AppliedIsCarried, AppliedTableSuffices, KeysDisjoint
<1>a. /\ TypeOK /\ CallForwardingOK /\ CallTunnelsOK
      /\ traffic_key \in Keys /\ rollback_path_id \in PathOrNone
  BY ContinueRuns, CallPaths DEF CarriedInv, ForwardingInv
<1>1. CASE k # traffic_key
  <2>1. Settled(k)
    BY <1>1, <1>a, OnlyItsKey DEF Settled
  <2>2. TunnelsOf(applied_paths[k]) \subseteq established
    BY <2>1 DEF CarriedInv, AppliedIsCarried
  <2>3. TunnelsOf(applied_paths[k])' = TunnelsOf(applied_paths[k])
    BY <1>1, <1>a, OnlyItsKey DEF TunnelsOf
  <2> QED BY <1>1, <2>2, <2>3, OthersKept DEF CarriedInv, ForwardingInv
<1>2. CASE k = traffic_key
  <2>1. confirm_done \/ cleanup_done \/ rollback_done
    BY <1>2, <1>a, SettlingSteps DEF Settled
  <2>2. CASE confirm_done \/ cleanup_done
    <3>1. /\ applied_paths'[k] = target_path /\ established' = established
          /\ pc \in {"confirm", "cleanup_tunnels"}
      BY <1>2, <1>a, <2>2 DEF confirm_done, cleanup_done, CallForwardingOK, state, network
    <3>2. TunnelsOf(target_path) \subseteq established
      BY <1>a, <3>1 DEF CallTunnelsOK, SwitchToReadyPath
    <3> QED BY <3>1, <3>2 DEF TunnelsOf
  <2>3. CASE rollback_done
    <3>1. applied_paths' = [applied_paths EXCEPT ![traffic_key] = rollback_path_id]
      BY <1>a, <2>3, RecordIsMade DEF rollback_done
    <3>2. applied_paths'[k] = rollback_path_id /\ established' = established
      BY <1>2, <1>a, <2>3, <3>1 DEF rollback_done, TypeOK, StateOK
    <3>3. TunnelsOf(rollback_path_id) \subseteq established
      BY <1>a, <2>3 DEF rollback_done, CallTunnelsOK
    <3> QED BY <3>2, <3>3 DEF TunnelsOf
  <2> QED BY <2>1, <2>2, <2>3
<1> QED BY <1>1, <1>2

LEMMA ContinueBreaksLast ==
  ASSUME CarriedInv, Continue
  PROVE  MakeBeforeBreak'
<1> SUFFICES ASSUME AppliedTableSuffices, KeysDisjoint, ~SilentInstalls, pc' # "idle",
                    last_result'[traffic_key'] \in {"none", "completed", "rolled_back"}
             PROVE  /\ pc' \in {"prepare", "ready", "commit", "install", "confirm",
                                "cleanup_forwarding"}
                         => (TunnelsOf(rollback_path_id) \subseteq established)'
                    /\ Uncommitted' => active_paths'[traffic_key'] = rollback_path_id'
  BY DEF MakeBeforeBreak, AppliedTableSuffices, KeysDisjoint, Uncommitted
<1>a. TypeOK /\ pc # "idle"
  BY ContinueRuns DEF CarriedInv, ForwardingInv
<1>b. UNCHANGED <<traffic_key, rollback_path_id, last_result>>
  BY <1>a, PhaseSteps
<1>c. /\ pc \in {"prepare", "ready", "commit", "install", "confirm", "cleanup_forwarding"}
           => TunnelsOf(rollback_path_id) \subseteq established
      /\ Uncommitted => active_paths[traffic_key] = rollback_path_id
  BY <1>a, <1>b DEF CarriedInv, MakeBeforeBreak, Uncommitted
<1>1. ASSUME pc' \in {"prepare", "ready", "commit", "install", "confirm",
                      "cleanup_forwarding"}
      PROVE  (TunnelsOf(rollback_path_id) \subseteq established)'
  <2>1. pc \in {"prepare", "ready", "commit", "install", "confirm", "cleanup_forwarding"}
    BY <1>a, <1>1, PhaseSteps
  <2>2. established \subseteq established'
    BY <1>a, <2>1, OnlyRemoved
  <2> QED BY <1>b, <1>c, <2>1, <2>2 DEF TunnelsOf
<1>2. ASSUME Uncommitted' PROVE active_paths'[traffic_key'] = rollback_path_id'
  BY <1>a, <1>b, <1>c, <1>2, BeforeCommit
<1> QED BY <1>1, <1>2

LEMMA SubmitCarried ==
  ASSUME CarriedInv, en_controller_submit_intent
  PROVE  AppliedIsCarried' /\ MakeBeforeBreak'
<1>a. TypeOK
  BY DEF CarriedInv, ForwardingInv
<1>1. ASSUME NEW k \in Keys, maintain_path(k)
      PROVE  AppliedIsCarried' /\ MakeBeforeBreak'
  BY <1>1 DEF maintain_path, CarriedInv, AppliedIsCarried, MakeBeforeBreak, Settled,
              TunnelsOf, KeysDisjoint, AppliedTableSuffices, state, network, locals
<1>2. ASSUME NEW k \in Keys, NEW p \in candidates[k], NEW s \in Strategies,
             en_transition_path(k, p, s)
      PROVE  AppliedIsCarried' /\ MakeBeforeBreak'
  <2>1. /\ traffic_key = NoKey /\ NoKey \notin Keys
        /\ UNCHANGED <<applied_paths, active_paths, established, last_result>>
        /\ traffic_key' = k /\ rollback_path_id' = applied_paths[k]
    BY <1>2, <1>a, TransitionAssumption
    DEF en_transition_path, TypeOK, CallOK, state, network
  <2>2. AppliedIsCarried'
    BY <2>1 DEF CarriedInv, AppliedIsCarried, Settled, TunnelsOf, KeysDisjoint,
                AppliedTableSuffices
  <2>3. ASSUME AppliedTableSuffices, KeysDisjoint, ~SilentInstalls,
               last_result[k] \in {"none", "completed", "rolled_back"}
        PROVE  /\ TunnelsOf(applied_paths[k]) \subseteq established
               /\ active_paths[k] = applied_paths[k]
    <3>1. Settled(k)
      BY <2>1, <2>3 DEF Settled
    <3> QED BY <2>3, <3>1 DEF CarriedInv, ForwardingInv, AppliedIsCarried, AppliedIsActive
  <2>4. MakeBeforeBreak'
    BY <2>1, <2>3 DEF MakeBeforeBreak, TunnelsOf, KeysDisjoint, AppliedTableSuffices
  <2> QED BY <2>2, <2>4
<1> QED BY <1>1, <1>2 DEF en_controller_submit_intent

LEMMA CarriedInvariant == Spec => []CarriedInv
<1>1. Init => CarriedInv
  <2> SUFFICES ASSUME Init PROVE CarriedInv
    OBVIOUS
  <2>1. ForwardingInv
    BY InitTypeOK DEF Init, ForwardingInv, CallForwardingOK, AppliedIsActive
  <2> QED BY <2>1 DEF Init, CarriedInv, CallTunnelsOK, SwitchToReadyPath,
                      RecordsAreCandidates, AppliedIsCarried, MakeBeforeBreak, TunnelsOf
<1>2. CarriedInv /\ [Next]_vars /\ ForwardingInv' => CarriedInv'
  <2> SUFFICES ASSUME CarriedInv, [Next]_vars, ForwardingInv' PROVE CarriedInv'
    OBVIOUS
  <2>1. CASE UNCHANGED vars
    <3>1. /\ UNCHANGED <<applied_paths, established, active_paths, pc, attempt, segment>>
          /\ UNCHANGED <<traffic_key, target_path, rollback_path_id, last_result>>
      BY <2>1 DEF vars, state, network, locals
    <3>2. CallTunnelsOK' /\ RecordsAreCandidates'
      BY <3>1 DEF CarriedInv, CallTunnelsOK, Prepared, SwitchToReadyPath, TunnelsOf,
                  RecordsAreCandidates
    <3>3. AppliedIsCarried'
      BY <3>1 DEF CarriedInv, AppliedIsCarried, Settled
    <3>4. MakeBeforeBreak'
      BY <3>1 DEF CarriedInv, MakeBeforeBreak
    <3> QED BY <3>2, <3>3, <3>4 DEF CarriedInv
  <2>2. CASE Continue
    BY <2>2, ContinueTunnels, ContinueRecords, ContinueCarried, ContinueBreaksLast
    DEF CarriedInv, ForwardingInv
  <2>3. CASE en_controller_submit_intent
    BY <2>3, SubmitTunnels, SubmitRecords, SubmitCarried DEF CarriedInv, ForwardingInv
  <2> QED BY <2>1, <2>2, <2>3 DEF Next
<1> QED BY <1>1, <1>2, ForwardingInvariant, PTL DEF Spec

(* Between submissions the tunnels of the applied path of a settled key are *)
(* up, if no two keys use a tunnel in common: no clean-up and no rollback   *)
(* takes one of them down.                                                  *)
THEOREM AppliedPathIsCarried == Spec => []AppliedIsCarried
<1>1. CarriedInv => AppliedIsCarried
  BY DEF CarriedInv
<1> QED BY <1>1, CarriedInvariant, PTL

(* The previous path keeps its tunnels until the target is confirmed, and   *)
(* the traffic until the first attempt to install the target.              *)
THEOREM MakesBeforeItBreaks == Spec => []MakeBeforeBreak
<1>1. CarriedInv => MakeBeforeBreak
  BY DEF CarriedInv
<1> QED BY <1>1, CarriedInvariant, PTL

-----------------------------------------------------------------------------
(* The tunnels of other keys.                                              *)

ForwardsCandidates == \A k \in Keys : active_paths[k] \in candidates[k] \cup {NoPath}

\* A step of the call leaves one of its paths, none, or the same in place.
LEMMA ForwardingOfCall ==
  ASSUME TypeOK, Continue
  PROVE  active_paths'[traffic_key] \in
           {active_paths[traffic_key], target_path, rollback_path_id, NoPath}
<1>a. traffic_key \in Keys /\ active_paths \in [Keys -> PathOrNone]
  BY ContinueRuns DEF TypeOK, CallOK, NetworkOK
<1>1. ASSUME NEW p
      PROVE  /\ \A f \in AfterInstall(p) : f[traffic_key] \in {active_paths[traffic_key], p}
             /\ \A f \in AfterFailedInstall(p) :
                  f[traffic_key] \in {active_paths[traffic_key], p, NoPath}
             /\ AfterRemove(p)[traffic_key] \in {active_paths[traffic_key], NoPath}
  BY <1>a DEF AfterInstall, AfterFailedInstall, AfterRemove
<1>2. CASE Validation \/ Application
  BY <1>1, <1>2 DEF Validation, Application, ready_done, ready_fails, commit_done,
                    rollback_done, network
<1>3. CASE \/ prepare_tunnel \/ prepare_fails \/ prepare_done \/ commit_drain
           \/ commit_refuses_flow_preserve \/ commit_fails \/ confirm_done \/ confirm_fails
  BY <1>1, <1>3
  DEF prepare_tunnel, prepare_fails, prepare_done, ensure_tunnel, ensure_tunnel_fails,
      commit_drain, commit_refuses_flow_preserve, commit_fails, confirm_done, confirm_fails,
      network
<1>4. CASE \/ cleanup_forwarding \/ cleanup_forwarding_fails \/ cleanup_tunnel
           \/ cleanup_tunnel_fails \/ cleanup_done
  BY <1>1, <1>4
  DEF cleanup_forwarding, cleanup_forwarding_fails, cleanup_tunnel, cleanup_tunnel_fails,
      cleanup_done, skip_tunnel, remove_tunnel, remove_tunnel_fails, network
<1>5. CASE \/ rollback_tunnel \/ rollback_tunnel_fails \/ rollback_tunnels_done
           \/ rollback_forwarding \/ rollback_forwarding_fails
           \/ rollback_prepare_tunnel \/ rollback_prepare_fails \/ rollback_prepare_done
           \/ rollback_install_fails
  BY <1>1, <1>5
  DEF rollback_tunnel, rollback_tunnel_fails, rollback_tunnels_done, rollback_forwarding,
      rollback_forwarding_fails, rollback_prepare_tunnel, rollback_prepare_fails,
      rollback_prepare_done, rollback_install_fails, ensure_tunnel, ensure_tunnel_fails,
      skip_tunnel, remove_tunnel, remove_tunnel_fails, network
<1> QED BY <1>2, <1>3, <1>4, <1>5 DEF Continue, Work

CandidateInv == TypeOK /\ RecordsAreCandidates /\ ForwardsCandidates

LEMMA CandidateInvariant == Spec => []CandidateInv
<1>1. Init => CandidateInv
  BY InitTypeOK DEF Init, CandidateInv, RecordsAreCandidates, ForwardsCandidates
<1>2. CandidateInv /\ [Next]_vars => CandidateInv'
  <2> SUFFICES ASSUME CandidateInv, [Next]_vars PROVE CandidateInv'
    OBVIOUS
  <2>1. TypeOK'
    BY NextTypeOK DEF CandidateInv
  <2>2. CASE UNCHANGED vars
    BY <2>1, <2>2 DEF vars, state, network, locals, CandidateInv, RecordsAreCandidates,
                      ForwardsCandidates
  <2>3. CASE Continue
    <3>1. RecordsAreCandidates'
      BY <2>3, ContinueRecords DEF CandidateInv
    <3>2. ASSUME NEW k \in Keys PROVE active_paths'[k] \in candidates[k] \cup {NoPath}
      <4>1. CASE k # traffic_key
        BY <2>3, <4>1, OnlyItsKey DEF CandidateInv, ForwardsCandidates
      <4>2. CASE k = traffic_key
        BY <2>3, <4>2, ForwardingOfCall, ContinueRuns
        DEF CandidateInv, ForwardsCandidates, RecordsAreCandidates, TypeOK, CallOK
      <4> QED BY <4>1, <4>2
    <3> QED BY <2>1, <3>1, <3>2 DEF CandidateInv, ForwardsCandidates
  <2>4. CASE en_controller_submit_intent
    <3>1. UNCHANGED active_paths
      BY <2>4 DEF en_controller_submit_intent, maintain_path, en_transition_path, network
    <3> QED BY <2>1, <2>4, <3>1, SubmitRecords DEF CandidateInv, ForwardsCandidates
  <2> QED BY <2>2, <2>3, <2>4 DEF Next
<1> QED BY <1>1, <1>2, PTL DEF Spec

LEMMA OneStepKeepsOthers ==
  ASSUME CandidateInv, [Next]_vars, KeysDisjoint, NEW k \in Keys, Settled(k)
  PROVE  established \cap TunnelsOf(active_paths[k]) \subseteq established'
<1>1. CASE UNCHANGED vars
  BY <1>1 DEF vars, network
<1>2. CASE en_controller_submit_intent
  BY <1>2 DEF en_controller_submit_intent, maintain_path, en_transition_path, network
<1>3. CASE Continue
  <2>1. /\ traffic_key \in Keys /\ target_path \in candidates[traffic_key]
        /\ rollback_path_id \in candidates[traffic_key] \cup {NoPath}
        /\ active_paths[k] \in candidates[k] \cup {NoPath} /\ k # traffic_key
    BY <1>3, ContinueRuns
    DEF CandidateInv, TypeOK, CallOK, RecordsAreCandidates, ForwardsCandidates, Settled
  <2>2. TunnelsOf(NoPath) = {}
    BY DEF TunnelsOf
  <2>3. /\ TunnelsOf(active_paths[k]) \cap TunnelsOf(target_path) = {}
        /\ TunnelsOf(active_paths[k]) \cap TunnelsOf(rollback_path_id) = {}
    BY <2>1, <2>2 DEF KeysDisjoint
  <2> QED BY <1>3, <2>3, OnlyRemoved DEF CandidateInv
<1> QED BY <1>1, <1>2, <1>3 DEF Next

(* No step of a switch or a rollback of one key takes down a tunnel of the  *)
(* path another settled key forwards over, if no two keys use a tunnel in   *)
(* common.                                                                  *)
THEOREM SwitchKeepsOtherTunnels == Spec => OtherKeysKeepTunnels
<1>1. CandidateInv /\ [Next]_vars =>
        [KeysDisjoint => \A k \in Keys : Settled(k) /\ k # traffic_key' =>
           established \cap TunnelsOf(active_paths[k]) \subseteq established']_vars
  BY OneStepKeepsOthers
<1> QED BY <1>1, CandidateInvariant, PTL DEF Spec, OtherKeysKeepTunnels

-----------------------------------------------------------------------------
(* No tunnel is left over.                                                 *)

\* The recorded tunnels that are up; those of the loop's path still before it; those
\* of the applied paths of the keys no call is running for.
Up == established \cap observed_tunnels
Rest(p) == {segments[p][i] : i \in {j \in 1..Len(segments[p]) : segment <= j}}
OfOthers == UNION {TunnelsOf(applied_paths[k]) : k \in Keys \ {traffic_key}}

Forward == {"prepare", "ready", "commit", "install", "confirm", "cleanup_forwarding"}
Restoring == {"rollback_forwarding", "rollback_prepare", "rollback_install"}

\* Whose the tunnels are that are up in which phase.
CallOrphansOK ==
  /\ pc \in Forward => Up \subseteq OfOthers \cup TunnelsOf(target_path)
                                          \cup TunnelsOf(rollback_path_id)
  /\ pc = "cleanup_tunnels" =>
       Up \subseteq OfOthers \cup TunnelsOf(target_path) \cup Rest(rollback_path_id)
  /\ pc = "rollback_tunnels" =>
       Up \subseteq OfOthers \cup TunnelsOf(rollback_path_id) \cup Rest(target_path)
  /\ pc \in Restoring => Up \subseteq OfOthers \cup TunnelsOf(rollback_path_id)

\* A loop over old that keeps the tunnels of kept.
LEMMA RestNext ==
  ASSUME TypeOK, NEW old \in Paths, NEW kept, NEW others,
         Up \subseteq others \cup TunnelsOf(kept) \cup Rest(old),
         skip_tunnel(old, kept) \/ remove_tunnel(old, kept)
  PROVE  Up' \subseteq others \cup TunnelsOf(kept) \cup
           {segments[old][i] : i \in {j \in 1..Len(segments[old]) : segment' <= j}}
<1>a. segments[old] \in Seq(Tunnels) /\ segment \in Nat \ {0}
  BY TransitionAssumption DEF TypeOK, CallOK
<1>b. segment' = segment + 1 /\ observed_tunnels' = observed_tunnels
  BY DEF skip_tunnel, remove_tunnel, state
<1> SUFFICES ASSUME NEW u \in Up', u \notin others, u \notin TunnelsOf(kept)
             PROVE  \E i \in 1..Len(segments[old]) : segment' <= i /\ u = segments[old][i]
  OBVIOUS
<1>1. u \in Up /\ u # segments[old][segment]
  BY <1>b DEF Up, skip_tunnel, remove_tunnel, Terminate, network
<1>2. PICK i \in 1..Len(segments[old]) : segment <= i /\ u = segments[old][i]
  BY <1>1 DEF Rest
<1>3. segment' <= i
  BY <1>a, <1>b, <1>1, <1>2
<1> QED BY <1>2, <1>3

LEMMA RestBounds ==
  ASSUME TypeOK, NEW p \in Paths
  PROVE  /\ Done(p) => Rest(p) = {}
         /\ Rest(p) \subseteq TunnelsOf(p)
         /\ segment' = 1 => {segments[p][i] : i \in {j \in 1..Len(segments[p]) : segment' <= j}}
                              = TunnelsOf(p)
<1>1. segments[p] \in Seq(Tunnels) /\ segment \in Nat \ {0} /\ p # NoPath
  BY TransitionAssumption DEF TypeOK, CallOK
<1>2. Len(segments[p]) \in Nat
  BY <1>1
<1>3. Done(p) => Rest(p) = {}
  BY <1>1, <1>2 DEF Done, Rest
<1>4. Rest(p) \subseteq TunnelsOf(p)
  BY <1>1 DEF Rest, TunnelsOf
<1>5. ASSUME segment' = 1
      PROVE  {j \in 1..Len(segments[p]) : segment' <= j} = 1..Len(segments[p])
  BY <1>2, <1>5
<1> QED BY <1>1, <1>3, <1>4, <1>5 DEF TunnelsOf

\* Only the loops that ensure tunnels bring any up.
LEMMA OnlyEnsured ==
  ASSUME TypeOK, Continue
  PROVE  /\ Up' \subseteq Up \cup (CASE pc = "prepare" -> TunnelsOf(target_path)
                                 [] pc = "rollback_prepare" -> TunnelsOf(rollback_path_id)
                                 [] OTHER -> {})
         /\ errors \subseteq errors'
<1>a. segment \in Nat \ {0} /\ pc # "idle"
  BY ContinueRuns DEF TypeOK, CallOK
<1>1. ASSUME NEW p \in Paths, ensure_tunnel(p) \/ ensure_tunnel_fails(p)
      PROVE  Up' \subseteq Up \cup TunnelsOf(p)
  <2>1. segments[p][segment] \in TunnelsOf(p)
    BY <1>a, <1>1, SegmentType DEF ensure_tunnel, ensure_tunnel_fails
  <2> QED BY <1>1, <2>1 DEF ensure_tunnel, ensure_tunnel_fails, Up
<1>2. CASE prepare_tunnel \/ prepare_fails
  <2>1. pc = "prepare" /\ target_path \in Paths /\ errors' = errors
    BY <1>2, CallPaths DEF prepare_tunnel, prepare_fails, ensure_tunnel
  <2>2. Up' \subseteq Up \cup TunnelsOf(target_path)
    BY <1>1, <1>2, <2>1 DEF prepare_tunnel, prepare_fails
  <2> QED BY <2>1, <2>2
<1>3. CASE rollback_prepare_tunnel \/ rollback_prepare_fails
  <2>1. pc = "rollback_prepare" /\ rollback_path_id \in Paths /\ errors \subseteq errors'
    BY <1>3, CallPaths
    DEF rollback_prepare_tunnel, rollback_prepare_fails, ensure_tunnel, RollbackFails
  <2>2. Up' \subseteq Up \cup TunnelsOf(rollback_path_id)
    BY <1>1, <1>3, <2>1 DEF rollback_prepare_tunnel, rollback_prepare_fails
  <2> QED BY <2>1, <2>2
<1>4. CASE \/ prepare_done \/ ready_done \/ ready_fails \/ commit_drain
           \/ commit_refuses_flow_preserve \/ commit_done \/ commit_fails
           \/ confirm_done \/ confirm_fails \/ cleanup_forwarding
           \/ cleanup_forwarding_fails \/ cleanup_tunnel \/ cleanup_tunnel_fails
           \/ cleanup_done
  <2>1. Up' \subseteq Up /\ errors' = errors
    BY <1>4
    DEF Up, prepare_done, ready_done, ready_fails, commit_drain, Drain,
        commit_refuses_flow_preserve, commit_done, commit_fails, confirm_done,
        confirm_fails, cleanup_forwarding, cleanup_forwarding_fails, cleanup_tunnel,
        cleanup_tunnel_fails, cleanup_done, skip_tunnel, remove_tunnel,
        remove_tunnel_fails, Terminate, state, network
  <2> QED BY <2>1
<1>5. CASE \/ rollback_tunnel \/ rollback_tunnel_fails \/ rollback_tunnels_done
           \/ rollback_forwarding \/ rollback_forwarding_fails
           \/ rollback_prepare_done \/ rollback_done \/ rollback_install_fails
  <2>1. Up' \subseteq Up /\ errors \subseteq errors'
    BY <1>5
    DEF Up, rollback_tunnel, rollback_tunnel_fails, rollback_tunnels_done,
        rollback_forwarding, rollback_forwarding_fails, rollback_prepare_done,
        rollback_done, rollback_install_fails, RollbackFails, skip_tunnel, remove_tunnel,
        remove_tunnel_fails, Terminate, state, network
  <2> QED BY <2>1
<1> QED BY <1>2, <1>3, <1>4, <1>5 DEF Continue, Validation, Application, Work

LEMMA OthersStay ==
  ASSUME TypeOK, Continue
  PROVE  /\ traffic_key' = traffic_key => OfOthers' = OfOthers
         /\ OfOthers \subseteq UNION {TunnelsOf(applied_paths[k])' : k \in Keys \ {traffic_key}}
<1>1. \A k \in Keys \ {traffic_key} : TunnelsOf(applied_paths[k])' = TunnelsOf(applied_paths[k])
  BY OnlyItsKey DEF TunnelsOf
<1> QED BY <1>1 DEF OfOthers

\* Where the phases that take tunnels down, and the end of a call, come from.
LEMMA LoopSteps ==
  ASSUME TypeOK, Continue
  PROVE  /\ pc' \in Forward => pc \in Forward
         /\ pc' = "cleanup_tunnels" =>
              \/ cleanup_tunnel
              \/ pc = "cleanup_forwarding" /\ segment' = 1
         /\ pc' = "rollback_tunnels" =>
              \/ rollback_tunnel
              \/ pc \in Forward \cup {"cleanup_tunnels"} /\ segment' = 1
         /\ pc' \in Restoring => pc \in Restoring \/ rollback_tunnels_done
         /\ pc' = "idle" /\ errors' = {} =>
              \/ confirm_done /\ rollback_path_id = NoPath
              \/ cleanup_done \/ rollback_done
              \/ rollback_forwarding /\ rollback_path_id = NoPath
<1>a. ASSUME NEW phase, GoTo(phase) PROVE pc' = phase /\ segment' = 1
  BY <1>a DEF GoTo
<1>b. ASSUME NEW phase, NEW reached, RetryOrRollback(phase, reached)
      PROVE  pc' \in {phase, "rollback_tunnels"} /\ segment' = 1
  BY <1>a, <1>b DEF RetryOrRollback, EnterRollback
<1>c. ASSUME RollbackFails PROVE pc' = "idle" /\ errors' # {}
  BY <1>c DEF RollbackFails, Return
<1>d. ASSUME NEW r, Return(r) PROVE pc' = "idle"
  BY <1>d DEF Return
<1> USE DEF Forward, Restoring
<1>1. CASE \/ prepare_tunnel \/ prepare_fails \/ prepare_done \/ ready_done \/ ready_fails
  BY <1>1, <1>a, <1>b
  DEF prepare_tunnel, prepare_fails, prepare_done, ready_done, ready_fails, ensure_tunnel
<1>2. CASE \/ commit_drain \/ commit_refuses_flow_preserve \/ commit_done \/ commit_fails
           \/ confirm_done \/ confirm_fails
  BY <1>2, <1>a, <1>b, <1>d
  DEF commit_drain, Drain, commit_refuses_flow_preserve, commit_done, commit_fails,
      Committing, confirm_done, confirm_fails
<1>3. CASE \/ cleanup_forwarding \/ cleanup_forwarding_fails \/ cleanup_tunnel
           \/ cleanup_tunnel_fails \/ cleanup_done
  BY <1>3, <1>a, <1>d
  DEF cleanup_forwarding, cleanup_forwarding_fails, cleanup_tunnel, cleanup_tunnel_fails,
      cleanup_done, EnterRollback, skip_tunnel, remove_tunnel
<1>4. CASE \/ rollback_tunnel \/ rollback_tunnel_fails \/ rollback_tunnels_done
           \/ rollback_forwarding \/ rollback_forwarding_fails
  BY <1>4, <1>a, <1>c, <1>d
  DEF rollback_tunnel, rollback_tunnel_fails, rollback_tunnels_done, rollback_forwarding,
      rollback_forwarding_fails, RollbackSkipped, skip_tunnel, remove_tunnel
<1>5. CASE \/ rollback_prepare_tunnel \/ rollback_prepare_fails \/ rollback_prepare_done
           \/ rollback_done \/ rollback_install_fails
  BY <1>5, <1>a, <1>c, <1>d
  DEF rollback_prepare_tunnel, rollback_prepare_fails, rollback_prepare_done,
      rollback_done, rollback_install_fails, ensure_tunnel
<1> QED BY <1>1, <1>2, <1>3, <1>4, <1>5 DEF Continue, Validation, Application, Work

LEMMA ContinueOrphans ==
  ASSUME TypeOK, CallOrphansOK, Continue, pc' # "idle"
  PROVE  CallOrphansOK'
<1>a. /\ target_path \in Paths /\ target_path \in PathOrNone /\ rollback_path_id \in PathOrNone
      /\ pc = "cleanup_tunnels" => rollback_path_id \in Paths
  BY ContinueRuns, CallPaths
<1>b. UNCHANGED <<traffic_key, target_path, rollback_path_id>>
  BY PhaseSteps
<1>c. /\ OfOthers' = OfOthers
      /\ TunnelsOf(target_path)' = TunnelsOf(target_path)
      /\ TunnelsOf(rollback_path_id)' = TunnelsOf(rollback_path_id)
  BY <1>b, OthersStay DEF TunnelsOf
<1>d. /\ pc \in Forward => Up' \subseteq Up \cup TunnelsOf(target_path)
      /\ pc \in Restoring => Up' \subseteq Up \cup TunnelsOf(rollback_path_id)
      /\ pc \in {"cleanup_tunnels", "rollback_tunnels"} => Up' \subseteq Up
  BY OnlyEnsured DEF Forward, Restoring
<1>1. ASSUME pc' \in Forward
      PROVE  Up' \subseteq OfOthers \cup TunnelsOf(target_path) \cup TunnelsOf(rollback_path_id)
  BY <1>1, <1>d, LoopSteps DEF CallOrphansOK
<1>2. ASSUME pc' = "cleanup_tunnels"
      PROVE  Up' \subseteq OfOthers \cup TunnelsOf(target_path) \cup Rest(rollback_path_id)'
  <2>1. rollback_path_id \in Paths /\
        Rest(rollback_path_id)' =
          {segments[rollback_path_id][i] :
             i \in {j \in 1..Len(segments[rollback_path_id]) : segment' <= j}}
    <3>1. rollback_path_id \in Paths
      BY <1>2, <1>b, NextTypeOK DEF Next, TypeOK, CallOK, PathOrNone
    <3> QED BY <3>1, <1>b DEF Rest
  <2>2. CASE cleanup_tunnel
    <3>1. pc = "cleanup_tunnels"
      BY <2>2 DEF cleanup_tunnel
    <3>2. Up \subseteq OfOthers \cup TunnelsOf(target_path) \cup Rest(rollback_path_id)
      BY <3>1 DEF CallOrphansOK
    <3> QED BY <2>1, <2>2, <3>2, RestNext DEF cleanup_tunnel
  <2>3. CASE pc = "cleanup_forwarding" /\ segment' = 1
    <3>1. Up' \subseteq OfOthers \cup TunnelsOf(target_path) \cup TunnelsOf(rollback_path_id)
      BY <1>d, <2>3 DEF CallOrphansOK, Forward
    <3>2. Rest(rollback_path_id)' = TunnelsOf(rollback_path_id)
      BY <2>1, <2>3, RestBounds
    <3> QED BY <3>1, <3>2
  <2> QED BY <1>2, <2>2, <2>3, LoopSteps
<1>3. ASSUME pc' = "rollback_tunnels"
      PROVE  Up' \subseteq OfOthers \cup TunnelsOf(rollback_path_id) \cup Rest(target_path)'
  <2>1. Rest(target_path)' =
          {segments[target_path][i] :
             i \in {j \in 1..Len(segments[target_path]) : segment' <= j}}
    BY <1>b DEF Rest
  <2>2. CASE rollback_tunnel
    <3>1. pc = "rollback_tunnels"
      BY <2>2 DEF rollback_tunnel
    <3>2. Up \subseteq OfOthers \cup TunnelsOf(rollback_path_id) \cup Rest(target_path)
      BY <3>1 DEF CallOrphansOK
    <3> QED BY <1>a, <2>1, <2>2, <3>2, RestNext DEF rollback_tunnel
  <2>3. CASE pc \in Forward \cup {"cleanup_tunnels"} /\ segment' = 1
    <3>1. pc = "cleanup_tunnels" => Rest(rollback_path_id) \subseteq TunnelsOf(rollback_path_id)
      BY <1>a, RestBounds
    <3>2. Up' \subseteq OfOthers \cup TunnelsOf(target_path) \cup TunnelsOf(rollback_path_id)
      BY <1>d, <2>3, <3>1 DEF CallOrphansOK
    <3>3. Rest(target_path)' = TunnelsOf(target_path)
      BY <1>a, <2>1, <2>3, RestBounds
    <3> QED BY <3>2, <3>3
  <2> QED BY <1>3, <2>2, <2>3, LoopSteps
<1>4. ASSUME pc' \in Restoring
      PROVE  Up' \subseteq OfOthers \cup TunnelsOf(rollback_path_id)
  <2>1. CASE pc \in Restoring
    BY <1>d, <2>1 DEF CallOrphansOK
  <2>2. CASE rollback_tunnels_done
    <3>1. pc = "rollback_tunnels" /\ Done(target_path)
      BY <2>2 DEF rollback_tunnels_done
    <3>2. Rest(target_path) = {}
      BY <1>a, <3>1, RestBounds
    <3> QED BY <1>d, <3>1, <3>2 DEF CallOrphansOK
  <2> QED BY <1>4, <2>1, <2>2, LoopSteps
<1> QED BY <1>c, <1>1, <1>2, <1>3, <1>4 DEF CallOrphansOK

OrphanInv ==
  /\ ForwardingInv /\ RecordsAreCandidates
  /\ AppliedTableSuffices /\ errors = {} => CallOrphansOK
  /\ NoOrphanTunnels

LEMMA EndOrphans ==
  ASSUME OrphanInv, Continue, pc' = "idle"
  PROVE  NoOrphanTunnels'
<1> SUFFICES ASSUME AppliedTableSuffices, errors' = {}
             PROVE  Up' \subseteq UNION {TunnelsOf(applied_paths[k])' : k \in Keys}
  BY DEF NoOrphanTunnels, AppliedTableSuffices, Up
<1>a. /\ TypeOK /\ CallForwardingOK
      /\ traffic_key \in Keys /\ target_path \in Paths /\ rollback_path_id \in PathOrNone
      /\ applied_paths \in [Keys -> PathOrNone]
  BY ContinueRuns, CallPaths DEF OrphanInv, ForwardingInv, TypeOK, StateOK
<1>b. errors = {} /\ CallOrphansOK
  BY <1>a, OnlyEnsured DEF OrphanInv
<1>c. /\ OfOthers \subseteq UNION {TunnelsOf(applied_paths[k])' : k \in Keys}
      /\ TunnelsOf(applied_paths[traffic_key])
           \subseteq UNION {TunnelsOf(applied_paths[k]) : k \in Keys}
      /\ TunnelsOf(applied_paths'[traffic_key])
           \subseteq UNION {TunnelsOf(applied_paths[k])' : k \in Keys}
  BY <1>a, OthersStay DEF TunnelsOf
<1>d. pc \notin {"prepare", "rollback_prepare"} => Up' \subseteq Up
  BY <1>a, OnlyEnsured
<1>1. CASE confirm_done /\ rollback_path_id = NoPath
  <2>1. /\ applied_paths'[traffic_key] = target_path /\ pc = "confirm"
        /\ TunnelsOf(rollback_path_id) = {}
    BY <1>1, <1>a DEF confirm_done, CallForwardingOK, state, TunnelsOf
  <2> QED BY <1>b, <1>c, <1>d, <2>1 DEF CallOrphansOK, Forward
<1>2. CASE cleanup_done
  <2>1. /\ applied_paths'[traffic_key] = target_path /\ pc = "cleanup_tunnels"
        /\ Done(rollback_path_id)
    BY <1>2, <1>a DEF cleanup_done, CallForwardingOK
  <2>2. Rest(rollback_path_id) = {}
    BY <1>a, <2>1, CallPaths, RestBounds
  <2> QED BY <1>b, <1>c, <1>d, <2>1, <2>2 DEF CallOrphansOK
<1>3. CASE rollback_done
  <2>1. applied_paths' = [applied_paths EXCEPT ![traffic_key] = rollback_path_id]
    BY <1>3, <1>a, RecordIsMade DEF rollback_done
  <2>2. applied_paths'[traffic_key] = rollback_path_id /\ pc = "rollback_install"
    BY <1>3, <1>a, <2>1 DEF rollback_done
  <2> QED BY <1>b, <1>c, <1>d, <2>2 DEF CallOrphansOK, Restoring
<1>4. CASE rollback_forwarding /\ rollback_path_id = NoPath
  <2>1. pc = "rollback_forwarding" /\ TunnelsOf(rollback_path_id) = {}
    BY <1>4 DEF rollback_forwarding, TunnelsOf
  <2> QED BY <1>b, <1>c, <1>d, <2>1 DEF CallOrphansOK, Restoring
<1> QED BY <1>a, <1>1, <1>2, <1>3, <1>4, LoopSteps

LEMMA SubmitOrphans ==
  ASSUME OrphanInv, en_controller_submit_intent
  PROVE  /\ AppliedTableSuffices /\ errors' = {} => CallOrphansOK'
         /\ NoOrphanTunnels'
<1>a. TypeOK /\ pc = "idle" /\ NoKey \notin Keys
  BY TransitionAssumption
  DEF OrphanInv, ForwardingInv, en_controller_submit_intent, maintain_path, en_transition_path
<1>1. ASSUME NEW k \in Keys, maintain_path(k)
      PROVE  /\ CallOrphansOK' /\ NoOrphanTunnels'
  <2>1. pc' = "idle" /\ UNCHANGED <<applied_paths, established, observed_tunnels, errors>>
    BY <1>1, <1>a DEF maintain_path, state, network
  <2> QED BY <1>a, <2>1 DEF CallOrphansOK, Forward, Restoring, OrphanInv, NoOrphanTunnels,
                            TunnelsOf, AppliedTableSuffices
<1>2. ASSUME NEW k \in Keys, NEW p \in candidates[k], NEW s \in Strategies,
             en_transition_path(k, p, s), AppliedTableSuffices, errors' = {}
      PROVE  CallOrphansOK'
  <2>1. /\ UNCHANGED <<applied_paths, established, observed_tunnels, errors>>
        /\ pc' = "prepare" /\ traffic_key' = k /\ rollback_path_id' = applied_paths[k]
    BY <1>2 DEF en_transition_path, state, network
  <2>2. Up \subseteq UNION {TunnelsOf(applied_paths[l]) : l \in Keys}
    BY <1>a, <1>2, <2>1 DEF OrphanInv, NoOrphanTunnels, Up
  <2>3. /\ Up' = Up
        /\ OfOthers' = UNION {TunnelsOf(applied_paths[l]) : l \in Keys \ {k}}
        /\ TunnelsOf(rollback_path_id)' = TunnelsOf(applied_paths[k])
    BY <2>1 DEF Up, OfOthers, TunnelsOf
  <2>4. Up' \subseteq OfOthers' \cup TunnelsOf(rollback_path_id)'
    BY <2>2, <2>3
  <2> QED BY <2>1, <2>4 DEF CallOrphansOK, Forward, Restoring
<1>3. ASSUME NEW k \in Keys, NEW p \in candidates[k], NEW s \in Strategies,
             en_transition_path(k, p, s)
      PROVE  NoOrphanTunnels'
  BY <1>3 DEF en_transition_path, NoOrphanTunnels
<1> QED BY <1>1, <1>2, <1>3 DEF en_controller_submit_intent

LEMMA OrphanInvariant == Spec => []OrphanInv
<1>1. Init => OrphanInv
  <2> SUFFICES ASSUME Init PROVE OrphanInv
    OBVIOUS
  <2>1. ForwardingInv
    BY InitTypeOK DEF Init, ForwardingInv, CallForwardingOK, AppliedIsActive
  <2> QED BY <2>1 DEF Init, OrphanInv, RecordsAreCandidates, CallOrphansOK, Forward,
                      Restoring, NoOrphanTunnels
<1>2. OrphanInv /\ [Next]_vars /\ ForwardingInv' => OrphanInv'
  <2> SUFFICES ASSUME OrphanInv, [Next]_vars, ForwardingInv' PROVE OrphanInv'
    OBVIOUS
  <2>a. TypeOK
    BY DEF OrphanInv, ForwardingInv
  <2>1. CASE UNCHANGED vars
    BY <2>1 DEF vars, state, network, locals, OrphanInv, RecordsAreCandidates,
                CallOrphansOK, Up, OfOthers, Rest, TunnelsOf, NoOrphanTunnels,
                AppliedTableSuffices
  <2>2. CASE Continue /\ pc' = "idle"
    BY <2>2, <2>a, EndOrphans, ContinueRecords
    DEF OrphanInv, CallOrphansOK, Forward, Restoring
  <2>3. CASE Continue /\ pc' # "idle"
    <3>1. AppliedTableSuffices /\ errors' = {} => CallOrphansOK'
      BY <2>3, <2>a, OnlyEnsured, ContinueOrphans DEF OrphanInv
    <3>2. NoOrphanTunnels'
      BY <2>3 DEF NoOrphanTunnels
    <3> QED BY <2>3, <2>a, <3>1, <3>2, ContinueRecords DEF OrphanInv, AppliedTableSuffices
  <2>4. CASE en_controller_submit_intent
    BY <2>4, <2>a, SubmitOrphans, SubmitRecords DEF OrphanInv, AppliedTableSuffices
  <2> QED BY <2>1, <2>2, <2>3, <2>4 DEF Next
<1> QED BY <1>1, <1>2, ForwardingInvariant, PTL DEF Spec

(* As long as every rollback did its work, no recorded tunnel is up between *)
(* submissions that no applied path uses, also when paths and keys share    *)
(* tunnels and calls of the adapters fail anywhere.                         *)
THEOREM NoTunnelIsLeft == Spec => []NoOrphanTunnels
<1>1. OrphanInv => NoOrphanTunnels
  BY DEF OrphanInv
<1> QED BY <1>1, OrphanInvariant, PTL

-----------------------------------------------------------------------------
(* The transition implements the transaction.                              *)

\* A step of the call touches the forwarding and the stable path of no other key.
LEMMA OneKeyOpen ==
  ASSUME TypeOK, TypeOK', Continue
  PROVE  /\ active_paths' = [active_paths EXCEPT ![traffic_key] = active_paths'[traffic_key]]
         /\ active_paths'[traffic_key] \in PathOrNone
         /\ \A k \in Keys : k # traffic_key => stable'[k] = stable[k]
         /\ broken' \ {traffic_key} = broken \ {traffic_key}
<1>a. /\ traffic_key \in Keys /\ NoKey \notin Keys
      /\ active_paths \in [Keys -> PathOrNone] /\ active_paths' \in [Keys -> PathOrNone]
  BY ContinueRuns, TransitionAssumption DEF TypeOK, CallOK, NetworkOK
<1>1. \A k \in Keys : k # traffic_key =>
        /\ applied_paths'[k] = applied_paths[k] /\ active_paths'[k] = active_paths[k]
        /\ last_result'[k] = last_result[k] /\ k # traffic_key'
  BY <1>a, OnlyItsKey
<1>2. active_paths' = [active_paths EXCEPT ![traffic_key] = active_paths'[traffic_key]]
  BY <1>a, <1>1
<1>3. \A k \in Keys : k # traffic_key => stable'[k] = stable[k]
  BY <1>1 DEF stable
<1>4. broken' \ {traffic_key} = broken \ {traffic_key}
  BY <1>1 DEF broken
<1> QED BY <1>a, <1>2, <1>3, <1>4

LEMMA WorkMaps ==
  ASSUME TypeOK, TypeOK', Continue, pc' # "idle"
  PROVE  Transaction!Work
<1>a. traffic_key \in Keys /\ NoKey \notin Keys
  BY ContinueRuns, TransitionAssumption DEF TypeOK, CallOK
<1>b. UNCHANGED <<traffic_key, target_path, rollback_path_id, last_result>>
  BY PhaseSteps
<1>1. stable' = stable
  BY <1>a, <1>b, OnlyItsKey DEF stable
<1>2. broken' = broken
  BY <1>b DEF broken
<1>3. \E p \in PathOrNone : active_paths' = [active_paths EXCEPT ![traffic_key] = p]
  BY OneKeyOpen
<1> QED BY <1>a, <1>b, <1>1, <1>2, <1>3 DEF Transaction!Work, Transaction!PathOrNone, PathOrNone

LEMMA EndMaps ==
  ASSUME ForwardingInv, ForwardingInv', Continue, pc' = "idle",
         AppliedTableSuffices, ~SilentInstalls
  PROVE  Transaction!Commit \/ Transaction!Restore \/ Transaction!Break
<1>a. /\ TypeOK /\ TypeOK' /\ CallForwardingOK /\ AppliedIsActive'
      /\ traffic_key \in Keys /\ target_path \in Paths /\ rollback_path_id \in PathOrNone
      /\ NoKey \notin Keys
  BY ContinueRuns, CallPaths, TransitionAssumption
  DEF ForwardingInv, TypeOK, CallOK, AppliedTableSuffices
<1>b. /\ traffic_key' = NoKey /\ last_result' \in [Keys -> Results]
      /\ applied_paths' \in [Keys -> PathOrNone]
  BY <1>a DEF TypeOK, CallOK, StateOK
<1>c. /\ stable \in [Keys -> PathOrNone] /\ stable' \in [Keys -> PathOrNone]
      /\ stable[traffic_key] = rollback_path_id
      /\ stable'[traffic_key] = applied_paths'[traffic_key]
  BY <1>a, <1>b DEF stable, TypeOK, CallOK, StateOK
<1>d. stable' = [stable EXCEPT ![traffic_key] = applied_paths'[traffic_key]]
  BY <1>a, <1>c, OneKeyOpen
<1>e. Transaction!End
  BY <1>a, <1>b, OneKeyOpen DEF Transaction!End, Transaction!PathOrNone, PathOrNone
<1>1. CASE last_result'[traffic_key] \in {"skipped", "failed"}
  <2>1. broken' = broken \cup {traffic_key}
    <3>1. traffic_key \in broken'
      BY <1>a, <1>1 DEF broken
    <3> QED BY <1>a, <3>1, OneKeyOpen
  <2> QED BY <1>a, <1>b, <1>d, <1>e, <2>1
          DEF Transaction!Break, Transaction!PathOrNone, PathOrNone
<1>2. CASE last_result'[traffic_key] \in {"none", "completed", "rolled_back"}
  <2>1. broken' = broken \ {traffic_key}
    <3>1. traffic_key \notin broken'
      BY <1>2 DEF broken
    <3> QED BY <1>a, <3>1, OneKeyOpen
  <2>2. applied_paths'[traffic_key] = active_paths'[traffic_key]
    BY <1>a, <1>b, <1>2 DEF AppliedIsActive, AppliedTableSuffices, Settled
  <2>3. confirm_done \/ cleanup_done \/ rollback_done
    BY <1>a, <1>b, <1>2, SettlingSteps
  <2>4. CASE confirm_done \/ cleanup_done
    <3>1. applied_paths'[traffic_key] = target_path
      BY <1>a, <2>4 DEF confirm_done, cleanup_done, CallForwardingOK, state
    <3> QED BY <1>a, <1>d, <1>e, <2>1, <2>2, <3>1 DEF Transaction!Commit
  <2>5. CASE rollback_done
    <3>1. applied_paths'[traffic_key] = rollback_path_id
      BY <1>a, <2>5, RecordIsMade DEF rollback_done, TypeOK, StateOK
    <3>2. stable' = stable
      BY <1>a, <1>c, <1>d, <3>1
    <3> QED BY <1>c, <1>e, <2>1, <2>2, <3>1, <3>2 DEF Transaction!Restore
  <2> QED BY <2>3, <2>4, <2>5
<1> QED BY <1>a, <1>b, <1>1, <1>2 DEF Results

LEMMA SubmitMaps ==
  ASSUME TypeOK, en_controller_submit_intent
  PROVE  (\E k \in Keys : Transaction!Begin(k)) \/ UNCHANGED Transaction!transactionVars
<1>1. ASSUME NEW k \in Keys, maintain_path(k)
      PROVE  UNCHANGED Transaction!transactionVars
  BY <1>1 DEF maintain_path, state, network, locals, stable, broken,
              Transaction!transactionVars
<1>2. ASSUME NEW k \in Keys, NEW p \in candidates[k], NEW s \in Strategies,
             en_transition_path(k, p, s)
      PROVE  Transaction!Begin(k)
  <2>1. traffic_key = NoKey /\ NoKey \notin Keys
    BY <1>2, TransitionAssumption DEF en_transition_path, TypeOK, CallOK
  <2>2. /\ traffic_key' = k /\ rollback_path_id' = applied_paths[k]
        /\ UNCHANGED <<applied_paths, active_paths, last_result>>
    BY <1>2 DEF en_transition_path, state, network
  <2>3. stable' = stable
    BY <2>1, <2>2 DEF stable
  <2>4. broken' = broken
    BY <2>2 DEF broken
  <2> QED BY <2>1, <2>2, <2>3, <2>4 DEF Transaction!Begin
<1> QED BY <1>1, <1>2 DEF en_controller_submit_intent

(* The transition implements the transaction: whatever fails and is retried *)
(* the forwarding of one key changes only while a call for it runs, and the *)
(* call commits the target, restores the previous path or reports that it   *)
(* could do neither, if there is room to record the path of every key and   *)
(* install_path tells the truth.                                            *)
THEOREM TransitionIsTransaction ==
  ASSUME AppliedTableSuffices, ~SilentInstalls
  PROVE  Spec => ImplementsTransaction
<1>1. Init => Transaction!Init
  BY TransitionAssumption DEF Init, Transaction!Init, stable, broken
<1>2. ForwardingInv /\ ForwardingInv' /\ [Next]_vars
        => [Transaction!Next]_Transaction!transactionVars
  <2> SUFFICES ASSUME ForwardingInv, ForwardingInv', [Next]_vars
               PROVE  [Transaction!Next]_Transaction!transactionVars
    OBVIOUS
  <2>a. TypeOK /\ TypeOK'
    BY DEF ForwardingInv
  <2>1. CASE UNCHANGED vars
    BY <2>1 DEF vars, state, network, locals, stable, broken, Transaction!transactionVars
  <2>2. CASE en_controller_submit_intent
    BY <2>a, <2>2, SubmitMaps DEF Transaction!Next
  <2>3. CASE Continue /\ pc' # "idle"
    BY <2>a, <2>3, WorkMaps DEF Transaction!Next
  <2>4. CASE Continue /\ pc' = "idle"
    BY <2>4, EndMaps DEF Transaction!Next
  <2> QED BY <2>1, <2>2, <2>3, <2>4 DEF Next
<1> QED BY <1>1, <1>2, ForwardingInvariant, PTL
        DEF Spec, ImplementsTransaction, Transaction!Spec

-----------------------------------------------------------------------------
(* The controller runs the transition: what is proved of Transition for any *)
(* choice among the candidates holds for the choices of path selection.    *)

LEMMA IntentFields ==
  ASSUME NEW k \in Keys, NEW i \in Intents[k]
  PROVE  /\ Len(i.candidates) \in Nat
         /\ i.mode \in {"explicit", "priority", "evaluated"}
         /\ i.strategy \in Strategies
         /\ i.hold_down_ms \in Nat
         /\ Selectable(i) \subseteq candidates[k]
<1>1. /\ i.candidates \in Seq(Paths)
      /\ i.mode \in {"explicit", "priority", "evaluated"}
      /\ i.strategy \in Strategies
      /\ i.hold_down_ms \in Nat
      /\ Selectable(i) \subseteq candidates[k]
  BY ControllerAssumption
<1> QED BY <1>1

LEMMA ObservedArePaths ==
  ASSUME NEW k \in Keys, NEW i \in Intents[k]
  PROVE  Observed(i) \subseteq Paths
<1>1. i.candidates \in Seq(Paths)
  BY ControllerAssumption
<1>2. Candidates(i) \subseteq Paths
  BY <1>1 DEF Candidates
<1>3. Selectable(i) \subseteq Paths
  BY IntentFields, TransitionAssumption
<1> QED BY <1>2, <1>3 DEF Observed, Selectable

LEMMA SubmissionIsSubmission ==
  ASSUME NEW k \in Keys, NEW i \in Intents[k], submit_intent(k, i)
  PROVE  en_controller_submit_intent \/ UNCHANGED vars
<1> DEFINE p == en_select_path(i, View(k, observe_candidate_health(i)))
<1>1. \/ p = NoPath /\ no_candidate
      \/ p # NoPath /\ p = applied_paths[k] /\ maintain_path(k)
      \/ p # NoPath /\ en_transition_path(k, p, i.strategy)
  BY DEF submit_intent
<1>2. CASE p # NoPath /\ en_transition_path(k, p, i.strategy)
  <2>1. p \in candidates[k] /\ i.strategy \in Strategies
    BY <1>2, IntentFields, SelectedIsEligible
  <2> QED BY <1>2, <2>1 DEF en_controller_submit_intent
<1> QED BY <1>1, <1>2 DEF no_candidate, en_controller_submit_intent

(* Every behaviour of the controller in its loop is one of the transition. *)
THEOREM ControllerTransits == ControllerSpec => Spec
<1>1. ControllerInit => Init
  BY DEF ControllerInit
<1>2. [ControllerNext]_cvars => [Next]_vars
  <2> SUFFICES ASSUME [ControllerNext]_cvars PROVE Next \/ UNCHANGED vars
    OBVIOUS
  <2>1. CASE submit
    BY <2>1, SubmissionIsSubmission DEF submit, Next
  <2>2. CASE continue
    BY <2>2 DEF continue, validate, apply, work, Next, Continue, Validation
  <2>3. CASE (\E p \in Paths : measure(p)) \/ Tick \/ UNCHANGED cvars
    BY <2>3 DEF measure, Tick, cvars
  <2> QED BY <2>1, <2>2, <2>3 DEF ControllerNext
<1> QED BY <1>1, <1>2, PTL DEF ControllerSpec, Spec

(* What the controller records as applied is what the traffic follows, also *)
(* when health reports choose the paths.                                   *)
COROLLARY ControllerAppliedIsActive == ControllerSpec => []AppliedIsActive
BY ControllerTransits, AppliedPathIsActive, PTL

LEMMA MeasurementType ==
  ASSUME NEW h \in Reports
  PROVE  /\ \A r \in Rtts : Answered(h, r) \in Reports
         /\ Unanswered(h) \in Reports
         /\ Unknown \in Reports
BY ControllerAssumption DEF Answered, Unanswered, Unknown, NextCount, Reports

LEMMA ReportsType == ReportsOK /\ [ControllerNext]_cvars => ReportsOK'
<1> SUFFICES ASSUME ReportsOK, [ControllerNext]_cvars PROVE ReportsOK'
  OBVIOUS
<1>1. ASSUME NEW i PROVE observe_candidate_health(i) \in [Paths -> Reports \cup {NoHealth}]
  BY DEF observe_candidate_health, ReportsOK
<1>2. CASE submit
  BY <1>1, <1>2 DEF submit, submit_intent, ReportsOK
<1>3. CASE continue
  BY <1>3 DEF continue, validate, apply, work, ReportsOK
<1>4. ASSUME NEW p \in Paths, measure(p) PROVE ReportsOK'
  <2>1. PICK h \in {Answered(reports[p], r) : r \in Rtts} \cup {Unanswered(reports[p])} :
          reports' = [reports EXCEPT ![p] = h]
    BY <1>4 DEF measure
  <2>2. h \in Reports
    BY <2>1, MeasurementType DEF ReportsOK
  <2>3. reports' \in [Paths -> Reports]
    BY <2>1, <2>2 DEF ReportsOK
  <2> QED BY <1>4, <2>3 DEF measure, ReportsOK
<1>5. CASE Tick
  BY <1>5 DEF Tick, ReportsOK
<1>6. CASE UNCHANGED cvars
  BY <1>6 DEF cvars, ReportsOK
<1> QED BY <1>2, <1>3, <1>4, <1>5, <1>6 DEF ControllerNext

LEMMA ReportsCorrect == ControllerSpec => []ReportsOK
<1>1. ControllerInit => ReportsOK
  <2> SUFFICES ASSUME ControllerInit PROVE ReportsOK
    OBVIOUS
  <2>1. Unknown \in Reports
    BY ControllerAssumption DEF Unknown, Reports
  <2> QED BY <2>1 DEF ControllerInit, ReportsOK
<1> QED BY <1>1, ReportsType, PTL DEF ControllerSpec

(* Reports, the health table and the hold-down timers stay in their types  *)
(* together with all variables of the transition.                          *)
THEOREM ControllerTypeCorrect == ControllerSpec => []ControllerTypeOK
<1>1. TypeOK /\ ReportsOK => ControllerTypeOK
  BY DEF ControllerTypeOK
<1> QED BY <1>1, ControllerTransits, TypeCorrect, ReportsCorrect, PTL

(* The hold-down time of an intent is kept for every path it observes that *)
(* still answers, whatever the intent, its mode and its other thresholds.  *)
THEOREM HoldDownKept == ControllerSpec => HoldsDown
<1>1. ASSUME ReportsOK, NEW k \in Keys, NEW i \in Intents[k],
             NEW a \in Observed(i), NEW b \in Paths,
             Moves(k, i, a, b), Usable(reports[a])
      PROVE  elapsed[k] >= i.hold_down_ms
  <2> DEFINE v == View(k, observe_candidate_health(i))
  <2>1. /\ en_transition_path(k, en_select_path(i, v), i.strategy)
        /\ en_select_path(i, v) # NoPath
    BY <1>1 DEF Moves, submit_intent, no_candidate, maintain_path, vars
  <2>2. b = en_select_path(i, v) /\ a # b /\ a = applied_paths[k]
    BY <1>1, <2>1 DEF Moves, en_transition_path
  <2>3. ~HeldDown(i, b, v)
    BY <2>1, <2>2, IntentFields, SelectedIsEligible DEF exclusion_reason
  <2>4. a \in Paths
    BY <1>1, ObservedArePaths
  <2>5. v.active = a /\ v.elapsed = elapsed[k] /\ v.health[a] = reports[a]
    BY <1>1, <2>2, <2>4 DEF View, observe_candidate_health
  <2>6. ~(elapsed[k] < i.hold_down_ms)
    BY <1>1, <2>2, <2>3, <2>4, <2>5, TransitionAssumption DEF HeldDown
  <2>7. elapsed[k] \in Nat /\ i.hold_down_ms \in Nat
    BY <1>1, IntentFields DEF ReportsOK
  <2> QED BY <2>6, <2>7
<1>2. ReportsOK /\ [ControllerNext]_cvars =>
        [\A k \in Keys : \A i \in Intents[k] : \A a \in Observed(i), b \in Paths :
           Moves(k, i, a, b) /\ Usable(reports[a]) => elapsed[k] >= i.hold_down_ms]_cvars
  BY <1>1
<1> QED BY <1>2, ReportsCorrect, PTL DEF ControllerSpec, HoldsDown

(* By priority a path that meets the constraints keeps the traffic until it *)
(* failed failure_threshold times in a row or a preferred one is usable,   *)
(* for any intents, thresholds and reports.                                *)
THEOREM FailuresTolerated == ControllerSpec => ToleratesFailures
<1>1. ASSUME ReportsOK, NEW k \in Keys, NEW i \in Intents[k], NEW b \in Paths,
             NEW n \in 1..Len(i.candidates), i.mode = "priority",
             Moves(k, i, i.candidates[n], b), \A m \in 1..n : i.candidates[m] # b,
             Suits(i, i.candidates[n], View(k, observe_candidate_health(i)))
      PROVE  reports[i.candidates[n]].failures >= i.failure_threshold
  <2> DEFINE v == View(k, observe_candidate_health(i))
             a == i.candidates[n]
  <2>1. en_transition_path(k, en_select_path(i, v), i.strategy)
    BY <1>1 DEF Moves, submit_intent, no_candidate, maintain_path, vars
  <2>2. b = FirstUsable(i, v) /\ a = applied_paths[k]
    BY <1>1, <2>1 DEF Moves, en_transition_path, en_select_path
  <2>3. i.candidates \in Seq(Paths) /\ i.failure_threshold \in Nat
    BY ControllerAssumption
  <2>4. exclusion_reason(i, a, v)
    BY <1>1, <2>2, <2>3, FirstUsableIsPreferred
  <2>5. a \in Paths /\ a \in Observed(i)
    BY <2>3 DEF Observed, Candidates
  <2>6. v.active = a /\ v.health[a] = reports[a]
    BY <2>2, <2>5 DEF View, observe_candidate_health
  <2>7. OutOfOrder(i, a, v)
    BY <1>1, <2>4, <2>6 DEF exclusion_reason, HeldDown, NotRecovered
  <2>8. ~(reports[a].failures < i.failure_threshold)
    BY <2>6, <2>7 DEF OutOfOrder
  <2>9. reports[a].failures \in Nat
    BY <1>1, <2>5, ControllerAssumption DEF ReportsOK, Reports
  <2> QED BY <2>3, <2>8, <2>9
<1>2. ReportsOK /\ [ControllerNext]_cvars =>
        [\A k \in Keys : \A i \in Intents[k] : \A b \in Paths :
           \A n \in 1..Len(i.candidates) :
             /\ i.mode = "priority"
             /\ Moves(k, i, i.candidates[n], b) /\ \A m \in 1..n : i.candidates[m] # b
             /\ Suits(i, i.candidates[n], View(k, observe_candidate_health(i)))
             => reports[i.candidates[n]].failures >= i.failure_threshold]_cvars
  BY <1>1
<1> QED BY <1>2, ReportsCorrect, PTL DEF ControllerSpec, ToleratesFailures
=============================================================================
