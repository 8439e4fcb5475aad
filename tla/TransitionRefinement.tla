------------------------ MODULE TransitionRefinement ------------------------
(***************************************************************************)
(* The transition implements the transaction.  A transaction is open while *)
(* en_transition_path runs; the stable path of its key is the one the call *)
(* remembers for the rollback, because applied_paths already names the     *)
(* target between the commit and the end of the call.                      *)
(***************************************************************************)
EXTENDS Transition

stable ==
  [k \in Keys |-> IF k = traffic_key THEN rollback_path_id ELSE applied_paths[k]]
broken == {k \in Keys : last_result[k] \in {"skipped", "failed"}}

Transaction == INSTANCE PathTransaction
                 WITH serving <- active_paths, open <- traffic_key

(* en_transition_path is a transaction on the path of one traffic key: it   *)
(* commits, restores the previous path or reports a failure, and touches    *)
(* the forwarding of no other key.                                          *)
ImplementsTransaction == Transaction!Spec
=============================================================================
