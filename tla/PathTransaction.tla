--------------------------- MODULE PathTransaction --------------------------
(***************************************************************************)
(* What a path transition promises to the traffic: it is a transaction on  *)
(* the path of one traffic key.  While it is open the forwarding of that   *)
(* key, and of no other, may be anything; it ends with the new path        *)
(* serving, with the old path serving, or by reporting that it broke the   *)
(* key.  A key is mended only by a later transaction.                      *)
(***************************************************************************)
CONSTANTS Keys, Paths, NoPath, NoKey

VARIABLES
  stable,    \* stable[k]  : the path the last transaction on k left behind
  serving,   \* serving[k] : the path the forwarding of k follows
  open,      \* the key of the open transaction, or NoKey
  broken     \* the keys whose last transaction reported a failure

transactionVars == <<stable, serving, open, broken>>

PathOrNone == Paths \cup {NoPath}

Init ==
  /\ stable = [k \in Keys |-> NoPath]
  /\ serving = [k \in Keys |-> NoPath]
  /\ open = NoKey
  /\ broken = {}

Begin(k) ==
  /\ open = NoKey
  /\ open' = k
  /\ UNCHANGED <<stable, serving, broken>>

Work ==
  /\ open # NoKey
  /\ \E p \in PathOrNone : serving' = [serving EXCEPT ![open] = p]
  /\ UNCHANGED <<stable, open, broken>>

\* The last step of a transaction may still change what serves.
End ==
  /\ open # NoKey
  /\ open' = NoKey
  /\ \E p \in PathOrNone : serving' = [serving EXCEPT ![open] = p]

Commit ==
  /\ End
  /\ serving'[open] \in Paths
  /\ stable' = [stable EXCEPT ![open] = serving'[open]]
  /\ broken' = broken \ {open}

Restore ==
  /\ End
  /\ serving'[open] = stable[open]
  /\ broken' = broken \ {open}
  /\ UNCHANGED stable

Break ==
  /\ End
  /\ \E p \in PathOrNone : stable' = [stable EXCEPT ![open] = p]
  /\ broken' = broken \cup {open}

Next ==
  \/ \E k \in Keys : Begin(k)
  \/ Work \/ Commit \/ Restore \/ Break

Spec == Init /\ [][Next]_transactionVars

\* A key that is neither in transaction nor broken is served by its stable path.
StableServes == \A k \in Keys \ (broken \cup {open}) : serving[k] = stable[k]
=============================================================================
