----------------------------- MODULE Transition -----------------------------
(***************************************************************************)
(* The path transition of the controller: en_controller_submit_intent from *)
(* the point where a path is selected, and en_transition_path with all its *)
(* phases, retries and the rollback (src/src/transition.c,                 *)
(* src/src/controller.c).                                                  *)
(*                                                                         *)
(* The controller is single-threaded.  A transition is a sequence of calls *)
(* of two adapters, each of which may fail, and every adapter call is one  *)
(* step here, so that what the network looks like between two calls is a   *)
(* state of the model.  Path selection is any choice among the candidates  *)
(* of the intent (PathSelection models which one), and the health table,   *)
(* which only path selection reads, is left out.                           *)
(***************************************************************************)
EXTENDS PathIds, Integers, Sequences, FiniteSets

CONSTANTS
  Keys,            \* traffic keys, one per intent
  Tunnels,         \* tunnel ids
  segments,        \* segments[p] : the tunnels of the segments of path p
  candidates,      \* candidates[k] : the paths the intent of k may select
  NoKey,
  RetryCount,      \* retry_count of the transition policy
  MaxTunnels,      \* EN_MAX_TUNNELS, size of observed_tunnels
  MaxApplied,      \* EN_MAX_CANDIDATES, size of applied_paths
  SilentInstalls   \* may install_path report success without taking effect?

ASSUME TransitionAssumption ==
  /\ segments \in [Paths -> Seq(Tunnels)]
  /\ candidates \in [Keys -> SUBSET Paths]
  /\ NoPath \notin Paths /\ NoKey \notin Keys
  /\ IsFiniteSet(Keys) /\ IsFiniteSet(Tunnels)
  /\ RetryCount \in Nat /\ MaxTunnels \in Nat /\ MaxApplied \in Nat
  /\ SilentInstalls \in BOOLEAN

VARIABLES
  (* en_controller_state_t *)
  applied_paths,      \* applied_paths[k] : path recorded as applied, or NoPath
  observed_tunnels,   \* ids in the observed_tunnels table, never shrinks
  operational_state,  \* per path
  transition_state,   \* one for the whole controller
  errors,             \* codes in the error log; only ROLLBACK_FAILED is kept
  (* the network behind the adapters *)
  established,        \* tunnels strongSwan keeps up
  active_paths,       \* active_paths[k] : path the forwarding of k follows
  (* the running en_transition_path call *)
  pc, traffic_key, target_path, rollback_path_id, strategy, attempt, segment,
  (* what the last en_transition_path call for k came to *)
  last_result

state   == <<applied_paths, observed_tunnels, operational_state>>
network == <<established, active_paths>>
locals  == <<traffic_key, target_path, rollback_path_id, strategy>>
vars    == <<state, transition_state, errors, network, pc, locals,
             attempt, segment, last_result>>

PathOrNone == Paths \cup {NoPath}
Strategies == {"immediate", "graceful", "flow_preserve"}
Results    == {"none", "completed", "rolled_back", "skipped", "failed"}
Phases     == {"idle", "prepare", "ready", "commit", "install", "confirm",
               "cleanup_forwarding", "cleanup_tunnels", "rollback_tunnels",
               "rollback_forwarding", "rollback_prepare", "rollback_install"}

\* path_uses_tunnel for all tunnels at once; no path uses none.
TunnelsOf(p) ==
  IF p = NoPath THEN {} ELSE {segments[p][i] : i \in 1..Len(segments[p])}

StateOK ==
  /\ applied_paths \in [Keys -> PathOrNone]
  /\ observed_tunnels \subseteq Tunnels
  /\ operational_state \in
       [Paths -> {"unknown", "preparing", "ready", "active", "standby", "draining"}]
  /\ transition_state \in
       {"idle", "preparing", "validating", "ready", "draining", "switching",
        "verifying", "rolling_back", "failed"}
  /\ errors \subseteq {"rollback_failed"}

NetworkOK ==
  /\ established \subseteq Tunnels
  /\ active_paths \in [Keys -> PathOrNone]

\* A call that cleans up or restores a previous path has one.
CallOK ==
  /\ pc \in Phases
  /\ IF pc = "idle"
       THEN traffic_key = NoKey /\ target_path = NoPath
       ELSE traffic_key \in Keys /\ target_path \in candidates[traffic_key]
  /\ rollback_path_id \in PathOrNone
  /\ pc \in {"cleanup_forwarding", "cleanup_tunnels",
             "rollback_prepare", "rollback_install"} => rollback_path_id # NoPath
  /\ strategy \in Strategies
  /\ attempt \in 0..RetryCount
  /\ segment \in Nat \ {0}
  /\ last_result \in [Keys -> Results]

TypeOK == StateOK /\ NetworkOK /\ CallOK

Init ==
  /\ applied_paths = [k \in Keys |-> NoPath]
  /\ observed_tunnels = {}
  /\ operational_state = [p \in Paths |-> "unknown"]
  /\ transition_state = "idle"
  /\ errors = {}
  /\ established = {}
  /\ active_paths = [k \in Keys |-> NoPath]
  /\ pc = "idle"
  /\ traffic_key = NoKey /\ target_path = NoPath /\ rollback_path_id = NoPath
  /\ strategy = "immediate" /\ attempt = 0 /\ segment = 1
  /\ last_result = [k \in Keys |-> "none"]

-----------------------------------------------------------------------------
(* Control flow shared by the phases.  An operator called a mutant is a     *)
(* faulty form of the one after it, which a property must tell from it.    *)

\* Mutant of Done: the last segment is left out.
DoneEarly(p) == segment >= Len(segments[p])

\* The loop over the segments of p is at its end.
Done(p) == segment > Len(segments[p])

GoTo(phase) ==
  pc' = phase /\ attempt' = 0 /\ segment' = 1 /\ UNCHANGED <<locals, last_result>>

\* The call of en_transition_path returns; its locals go out of scope.
Return(result) ==
  /\ pc' = "idle"
  /\ traffic_key' = NoKey /\ target_path' = NoPath /\ rollback_path_id' = NoPath
  /\ strategy' = "immediate" /\ attempt' = 0 /\ segment' = 1
  /\ last_result' = [last_result EXCEPT ![traffic_key] = result]

EnterRollback ==
  GoTo("rollback_tunnels") /\ transition_state' = "rolling_back"

\* Mutants: one attempt too many; the attempts are not counted.
MayRetryOnceMore == attempt <= RetryCount
SameAttempt == attempt

MayRetry == attempt < RetryCount
NextAttempt == attempt + 1

\* transition_*_retry: the failed phase is run again from its start until its
\* attempts are used up; the failed call left transition_state at reached.
RetryOrRollback(phase, reached) ==
  \/ /\ MayRetry
     /\ pc' = phase /\ attempt' = NextAttempt /\ segment' = 1
     /\ transition_state' = reached
     /\ UNCHANGED <<locals, last_result>>
  \/ ~MayRetry /\ EnterRollback

RollbackFails ==
  /\ Return("failed")
  /\ transition_state' = "failed" /\ errors' = errors \cup {"rollback_failed"}

\* Mutant: the entry of a traffic key that is in the table stays as it is.
set_new_applied_path(k, p) ==
  IF applied_paths[k] = NoPath THEN [applied_paths EXCEPT ![k] = p] ELSE applied_paths

\* A full table drops the entry of a new traffic key without an error.
en_set_applied_path(k, p) ==
  IF \/ applied_paths[k] # NoPath
     \/ Cardinality({l \in Keys : applied_paths[l] # NoPath}) < MaxApplied
  THEN [applied_paths EXCEPT ![k] = p]
  ELSE applied_paths

-----------------------------------------------------------------------------
(* Adapter calls.  A call that fails may have done part of its work.       *)

\* One pass of the loop of transition_prepare over the segments of p.
ensure_tunnel(p) ==
  LET t == segments[p][segment]
  IN /\ ~Done(p)
     /\ t \in observed_tunnels \/ Cardinality(observed_tunnels) < MaxTunnels
     /\ established' = established \cup {t}
     /\ observed_tunnels' = observed_tunnels \cup {t}
     /\ operational_state' = [operational_state EXCEPT ![p] = "preparing"]
     /\ segment' = segment + 1
     /\ UNCHANGED <<applied_paths, transition_state, errors, active_paths,
                    pc, locals, attempt, last_result>>

\* The call fails, before or after the tunnel is up, or observed_tunnels is full: then
\* the tunnel may be up without being recorded.
ensure_tunnel_fails(p) ==
  LET t == segments[p][segment]
  IN /\ ~Done(p)
     /\ established' \in {established, established \cup {t}}
     /\ operational_state' = [operational_state EXCEPT ![p] = "preparing"]
     /\ UNCHANGED <<applied_paths, observed_tunnels, active_paths>>

\* What a failed install_path may leave behind.
AfterFailedInstall(p) ==
  {[active_paths EXCEPT ![traffic_key] = q] :
     q \in {active_paths[traffic_key], p, NoPath}}

AfterInstall(p) ==
  {[active_paths EXCEPT ![traffic_key] = p]}
    \cup (IF SilentInstalls THEN {active_paths} ELSE {})

\* remove_path withdraws the forwarding of k only where it follows p.
AfterRemove(p) ==
  IF active_paths[traffic_key] = p
    THEN [active_paths EXCEPT ![traffic_key] = NoPath]
    ELSE active_paths

\* Mutant: the tunnels that are recorded are passed over as well.
skip_observed_tunnel(old, kept) ==
  /\ ~Done(old)
  /\ segment' = segment + 1
  /\ UNCHANGED <<state, transition_state, errors, network, pc, locals,
                 attempt, last_result>>

\* One pass of the loop of remove_unshared_tunnels over the segments of old.
skip_tunnel(old, kept) ==
  LET t == segments[old][segment]
  IN /\ ~Done(old)
     /\ t \in TunnelsOf(kept) \/ t \notin observed_tunnels
     /\ segment' = segment + 1
     /\ UNCHANGED <<state, transition_state, errors, network, pc, locals,
                    attempt, last_result>>

\* Mutant: all but the tunnels of the kept path are terminated.
TerminateAllBut(old, kept) == established \cap TunnelsOf(kept)

Removable(old, kept) ==
  /\ ~Done(old)
  /\ segments[old][segment] \in observed_tunnels \ TunnelsOf(kept)

Terminate(old, kept) == established \ {segments[old][segment]}

remove_tunnel(old, kept) ==
  /\ Removable(old, kept)
  /\ established' = Terminate(old, kept)
  /\ segment' = segment + 1
  /\ UNCHANGED <<state, transition_state, errors, active_paths, pc, locals,
                 attempt, last_result>>

\* strongswan_remove may fail before or after the child SA is gone.
remove_tunnel_fails(old, kept) ==
  /\ Removable(old, kept)
  /\ established' \in {established, Terminate(old, kept)}
  /\ UNCHANGED active_paths

-----------------------------------------------------------------------------
(* en_controller_submit_intent.                                            *)

\* The selected path is the applied one: nothing is changed in the network.
maintain_path(k) ==
  /\ pc = "idle"
  /\ applied_paths[k] \in candidates[k]
  /\ transition_state' = "idle"
  /\ UNCHANGED <<state, errors, network, pc, locals, attempt, segment,
                 last_result>>

en_transition_path(k, p, s) ==
  /\ pc = "idle"
  /\ applied_paths[k] # p
  /\ pc' = "prepare"
  /\ traffic_key' = k /\ target_path' = p /\ strategy' = s
  /\ rollback_path_id' = applied_paths[k]
  /\ attempt' = 0 /\ segment' = 1
  /\ transition_state' = "preparing"
  /\ UNCHANGED <<state, errors, network, last_result>>

-----------------------------------------------------------------------------
(* Phases of en_transition_path.                                           *)

prepare_tunnel == pc = "prepare" /\ ensure_tunnel(target_path)

prepare_fails ==
  /\ pc = "prepare"
  /\ ensure_tunnel_fails(target_path)
  /\ RetryOrRollback("prepare", transition_state)
  /\ UNCHANGED errors

prepare_done ==
  /\ pc = "prepare"
  /\ Done(target_path)
  /\ operational_state' = [operational_state EXCEPT ![target_path] = "ready"]
  /\ GoTo("ready")
  /\ UNCHANGED <<applied_paths, observed_tunnels, transition_state, errors,
                 network>>

\* The probe of the target path answers healthy or degraded.
ready_done ==
  /\ pc = "ready"
  /\ transition_state' = "ready"
  /\ GoTo("commit")
  /\ UNCHANGED <<state, errors, network>>

\* The probe fails, or answers any other health.
ready_fails ==
  /\ pc = "ready"
  /\ RetryOrRollback("ready", "validating")
  /\ UNCHANGED <<state, errors, network>>

\* Graceful switching sleeps twice before it touches the forwarding.
Drain ==
  /\ pc = "commit" /\ strategy = "graceful"
  /\ operational_state' =
       [p \in Paths |-> IF p \in {rollback_path_id, target_path}
                          THEN "draining" ELSE operational_state[p]]
  /\ transition_state' = "draining"
  /\ pc' = "install"
  /\ UNCHANGED <<applied_paths, observed_tunnels, errors, established, locals,
                 attempt, segment, last_result>>

\* Mutant: the previous path is withdrawn while it drains.
commit_drain_withdraws == Drain /\ active_paths' = AfterRemove(rollback_path_id)

commit_drain == Drain /\ UNCHANGED active_paths

commit_refuses_flow_preserve ==
  /\ pc = "commit" /\ strategy = "flow_preserve"
  /\ RetryOrRollback("commit", transition_state)
  /\ UNCHANGED <<state, errors, network>>

Committing ==
  \/ pc = "install"
  \/ pc = "commit" /\ strategy = "immediate"

commit_done ==
  /\ Committing
  /\ active_paths' \in AfterInstall(target_path)
  /\ applied_paths' = en_set_applied_path(traffic_key, target_path)
  /\ operational_state' = [operational_state EXCEPT ![target_path] = "active"]
  /\ transition_state' = "switching"
  /\ GoTo("confirm")
  /\ UNCHANGED <<observed_tunnels, errors, established>>

commit_fails ==
  /\ Committing
  /\ active_paths' \in AfterFailedInstall(target_path)
  /\ RetryOrRollback("commit", "switching")
  /\ UNCHANGED <<state, errors, established>>

\* Mutant: the forwarding is not compared with the target.
AlwaysConfirmed == TRUE

Confirmed == active_paths[traffic_key] = target_path

confirm_done ==
  /\ pc = "confirm"
  /\ Confirmed
  /\ IF rollback_path_id = NoPath
       THEN Return("completed") /\ transition_state' = "idle"
       ELSE GoTo("cleanup_forwarding") /\ transition_state' = "verifying"
  /\ UNCHANGED <<state, errors, network>>

confirm_fails ==
  /\ pc = "confirm"
  /\ ~Confirmed
  /\ RetryOrRollback("confirm", "verifying")
  /\ UNCHANGED <<state, errors, network>>

-----------------------------------------------------------------------------
(* transition_cleanup_previous: the forwarding of the previous path goes    *)
(* first, then the tunnels the target path does not use.                   *)

cleanup_forwarding ==
  /\ pc = "cleanup_forwarding"
  /\ active_paths' = AfterRemove(rollback_path_id)
  /\ GoTo("cleanup_tunnels")
  /\ UNCHANGED <<state, transition_state, errors, established>>

cleanup_forwarding_fails ==
  /\ pc = "cleanup_forwarding"
  /\ active_paths' \in {active_paths, AfterRemove(rollback_path_id)}
  /\ EnterRollback
  /\ UNCHANGED <<state, errors, established>>

cleanup_tunnel ==
  /\ pc = "cleanup_tunnels"
  /\ \/ skip_tunnel(rollback_path_id, target_path)
     \/ remove_tunnel(rollback_path_id, target_path)

cleanup_tunnel_fails ==
  /\ pc = "cleanup_tunnels"
  /\ remove_tunnel_fails(rollback_path_id, target_path)
  /\ EnterRollback
  /\ UNCHANGED <<state, errors>>

cleanup_done ==
  /\ pc = "cleanup_tunnels"
  /\ Done(rollback_path_id)
  /\ operational_state' = [operational_state EXCEPT ![rollback_path_id] = "standby"]
  /\ transition_state' = "idle"
  /\ Return("completed")
  /\ UNCHANGED <<applied_paths, observed_tunnels, errors, network>>

-----------------------------------------------------------------------------
(* rollback: the tunnels of the target path go first, then its forwarding, *)
(* then the previous path is prepared and installed again, each in one     *)
(* attempt.                                                                *)

rollback_tunnel ==
  /\ pc = "rollback_tunnels"
  /\ \/ skip_tunnel(target_path, rollback_path_id)
     \/ remove_tunnel(target_path, rollback_path_id)

rollback_tunnel_fails ==
  /\ pc = "rollback_tunnels"
  /\ remove_tunnel_fails(target_path, rollback_path_id)
  /\ RollbackFails
  /\ UNCHANGED state

rollback_tunnels_done ==
  /\ pc = "rollback_tunnels"
  /\ Done(target_path)
  /\ GoTo("rollback_forwarding")
  /\ UNCHANGED <<state, transition_state, errors, network>>

\* Mutant: a rollback without a previous path counts as done.
RollbackNotNeeded == Return("rolled_back") /\ transition_state' = "idle"

\* Without a previous path the rollback ends in the failed state, but leaves
\* no entry in the error log.
RollbackSkipped == Return("skipped") /\ transition_state' = "failed"

rollback_forwarding ==
  /\ pc = "rollback_forwarding"
  /\ active_paths' = AfterRemove(target_path)
  /\ IF rollback_path_id = NoPath
       THEN RollbackSkipped
       ELSE GoTo("rollback_prepare") /\ UNCHANGED transition_state
  /\ UNCHANGED <<state, errors, established>>

rollback_forwarding_fails ==
  /\ pc = "rollback_forwarding"
  /\ active_paths' \in {active_paths, AfterRemove(target_path)}
  /\ RollbackFails
  /\ UNCHANGED <<state, established>>

rollback_prepare_tunnel ==
  pc = "rollback_prepare" /\ ensure_tunnel(rollback_path_id)

rollback_prepare_fails ==
  /\ pc = "rollback_prepare"
  /\ ensure_tunnel_fails(rollback_path_id)
  /\ RollbackFails

\* Mutant: the previous path is reinstalled whether its tunnels are up again or not.
rollback_without_prepare ==
  /\ pc = "rollback_prepare"
  /\ operational_state' = [operational_state EXCEPT ![rollback_path_id] = "ready"]
  /\ GoTo("rollback_install")
  /\ UNCHANGED <<applied_paths, observed_tunnels, transition_state, errors,
                 network>>

rollback_prepare_done ==
  /\ pc = "rollback_prepare"
  /\ Done(rollback_path_id)
  /\ operational_state' = [operational_state EXCEPT ![rollback_path_id] = "ready"]
  /\ GoTo("rollback_install")
  /\ UNCHANGED <<applied_paths, observed_tunnels, transition_state, errors,
                 network>>

\* Unlike the commit, the reinstallation is not confirmed.
rollback_done ==
  /\ pc = "rollback_install"
  /\ active_paths' \in AfterInstall(rollback_path_id)
  /\ applied_paths' = en_set_applied_path(traffic_key, rollback_path_id)
  /\ transition_state' = "idle"
  /\ Return("rolled_back")
  /\ UNCHANGED <<observed_tunnels, operational_state, errors, established>>

rollback_install_fails ==
  /\ pc = "rollback_install"
  /\ active_paths' \in AfterFailedInstall(rollback_path_id)
  /\ RollbackFails
  /\ UNCHANGED <<state, established>>

-----------------------------------------------------------------------------
en_controller_submit_intent ==
  \E k \in Keys :
    \/ maintain_path(k)
    \/ \E p \in candidates[k], s \in Strategies : en_transition_path(k, p, s)

\* The steps that consult the probe, that record a path as applied, the rest.
Validation  == ready_done \/ ready_fails
Application == commit_done \/ rollback_done
Work ==
  \/ prepare_tunnel \/ prepare_fails \/ prepare_done
  \/ commit_drain \/ commit_refuses_flow_preserve \/ commit_fails
  \/ confirm_done \/ confirm_fails
  \/ cleanup_forwarding \/ cleanup_forwarding_fails
  \/ cleanup_tunnel \/ cleanup_tunnel_fails \/ cleanup_done
  \/ rollback_tunnel \/ rollback_tunnel_fails \/ rollback_tunnels_done
  \/ rollback_forwarding \/ rollback_forwarding_fails
  \/ rollback_prepare_tunnel \/ rollback_prepare_fails \/ rollback_prepare_done
  \/ rollback_install_fails

Continue == Validation \/ Application \/ Work

Next == en_controller_submit_intent \/ Continue

Spec     == Init /\ [][Next]_vars
FairSpec == Spec /\ WF_vars(Continue)

-----------------------------------------------------------------------------
(* Properties.                                                             *)

KeysDisjoint ==
  \A k, l \in Keys : k # l =>
    \A p \in candidates[k], q \in candidates[l] : TunnelsOf(p) \cap TunnelsOf(q) = {}

AppliedTableSuffices == Cardinality(Keys) <= MaxApplied

\* Settled(k) : no transition of k is running and the last one did not fail.
Settled(k) == k # traffic_key /\ last_result[k] \in {"none", "completed", "rolled_back"}

(* After a completed or rolled back transition the path recorded as applied *)
(* is the one the forwarding follows.  Rollback is exempt when adapters may *)
(* lie about an installation, since it confirms nothing.                   *)
AppliedIsActive ==
  AppliedTableSuffices =>
    \A k \in Keys : Settled(k) /\ (last_result[k] = "rolled_back" => ~SilentInstalls)
      => applied_paths[k] = active_paths[k]

(* ... and its tunnels are up, as long as no other traffic key has a path   *)
(* through one of them.                                                    *)
AppliedIsCarried ==
  AppliedTableSuffices /\ KeysDisjoint =>
    \A k \in Keys : Settled(k) => TunnelsOf(applied_paths[k]) \subseteq established

(* Make before break: until the target path is confirmed, the tunnels of   *)
(* the path the traffic still uses stay up, and until the first attempt to *)
(* install the target the forwarding follows that path.                    *)
MakeBeforeBreak ==
  AppliedTableSuffices /\ KeysDisjoint /\ ~SilentInstalls
    /\ pc # "idle" /\ last_result[traffic_key] \in {"none", "completed", "rolled_back"} =>
    /\ pc \in {"prepare", "ready", "commit", "install", "confirm", "cleanup_forwarding"}
         => TunnelsOf(rollback_path_id) \subseteq established
    /\ pc \in {"prepare", "ready"} \/ (pc \in {"commit", "install"} /\ attempt = 0)
         => active_paths[traffic_key] = rollback_path_id

(* Traffic is switched only to a path all of whose tunnels are up.         *)
SwitchToReadyPath ==
  pc \in {"commit", "install", "confirm", "cleanup_forwarding", "cleanup_tunnels"}
    => TunnelsOf(target_path) \subseteq established

(* While every rollback so far did its work, the recorded tunnels that are *)
(* up belong to applied paths: neither a switch nor an undone switch leaves *)
(* one over.  A tunnel that came up in a failed call is not recorded and    *)
(* stays up (transition_prepare, transition.c:164-177, 324).               *)
NoOrphanTunnels ==
  AppliedTableSuffices /\ errors = {} /\ pc = "idle"
    => established \cap observed_tunnels
         \subseteq UNION {TunnelsOf(applied_paths[k]) : k \in Keys}

(* The switch of one traffic key never costs another one its tunnels, if    *)
(* no two keys use a tunnel in common: removal looks only at the other path *)
(* of its own key (remove_unshared_tunnels, transition.c:323).             *)
OtherKeysKeepTunnels ==
  [][KeysDisjoint => \A k \in Keys : Settled(k) /\ k # traffic_key' =>
       established \cap TunnelsOf(active_paths[k]) \subseteq established']_vars

(* Every transition ends, after a bounded number of attempts.              *)
TransitionEnds == pc # "idle" ~> pc = "idle"

=============================================================================
