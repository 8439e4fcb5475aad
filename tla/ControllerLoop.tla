--------------------------- MODULE ControllerLoop ---------------------------
(***************************************************************************)
(* The controller with one intent for each traffic key, submitted over and *)
(* over, as run_stream of src/examples/eventnetd.c does with the intent it *)
(* reads at its start.  With adapters that do what they are asked for, the *)
(* traffic has to end up where the intent wants it.  That eventnetd ends a *)
(* stream whose submission failed, and starts the next one with a new      *)
(* controller, is the subject of Eventnetd.                                *)
(***************************************************************************)
EXTENDS Controller

VARIABLE intent   \* intent[k] : the intent of k

lvars == <<cvars, intent>>

\* A call in which an adapter reported a failure.
AdapterFails ==
  \/ prepare_fails \/ commit_fails \/ confirm_fails
  \/ cleanup_forwarding_fails \/ cleanup_tunnel_fails
  \/ rollback_tunnel_fails \/ rollback_forwarding_fails
  \/ rollback_prepare_fails \/ rollback_install_fails

LoopInit ==
  /\ ControllerInit
  /\ intent \in [Keys -> UNION {Intents[k] : k \in Keys}]
  /\ \A k \in Keys : intent[k] \in Intents[k]

loop_submit == (\E k \in Keys : submit_intent(k, intent[k])) /\ UNCHANGED intent

loop_continue == continue /\ ~ AdapterFails /\ UNCHANGED intent

loop_measure(p) == measure(p) /\ UNCHANGED intent

\* The agent sees the same as before and counts it.
recount(p) ==
  /\ loop_measure(p)
  /\ reports'[p].state = reports[p].state
  /\ \/ reports'[p].failures # reports[p].failures
     \/ reports'[p].successes # reports[p].successes

loop_tick == Tick /\ UNCHANGED intent

LoopNext ==
  loop_submit \/ loop_continue \/ (\E p \in Paths : loop_measure(p)) \/ loop_tick

\* Adapter calls return, intents are submitted and paths measured over and over,
\* and time goes on.
LoopSpec ==
  /\ LoopInit /\ [][LoopNext]_lvars
  /\ WF_lvars(loop_continue) /\ WF_lvars(loop_submit) /\ WF_lvars(loop_tick)
  /\ \A p \in Paths : WF_lvars(recount(p))

-----------------------------------------------------------------------------
(* Properties.                                                             *)

\* Of the candidates of k only p answers, and answers well enough.
Only(k, p) ==
  \A q \in Candidates(intent[k]) :
    q = p <=> Usable(reports[q]) /\ ~ ViolatesLimit(intent[k], reports[q])

(* Failover: when all candidates but one have failed, or exceed the limits  *)
(* of the intent, for good, the traffic ends up on that one, whatever      *)
(* happened before.                                                        *)
FailsOver ==
  \A k \in Keys : \A p \in candidates[k] :
    <>[]Only(k, p) => <>[](active_paths[k] = p)

\* p is what the intent of k prefers, and it answers.
PreferredAnswers(k, p) ==
  /\ intent[k].mode = "priority" /\ p = intent[k].candidates[1]
  /\ Usable(reports[p])

(* Failback: a preferred path that answers for good is used again in the   *)
(* end, whatever the other candidates do.                                  *)
FailsBack ==
  \A k \in Keys : \A p \in candidates[k] :
    <>[]PreferredAnswers(k, p) => <>[](active_paths[k] = p)

(* When the reports no longer change the controller stops switching: the   *)
(* paths do not take turns, for hysteresis, limits or thresholds.          *)
Settles == <>[][FALSE]_reports => <>[][FALSE]_applied_paths
=============================================================================
