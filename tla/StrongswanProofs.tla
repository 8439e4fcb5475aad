-------------------------- MODULE StrongswanProofs --------------------------
(***************************************************************************)
(* Proofs about the command adapter of strongSwan, for any tunnels,        *)
(* selectors and options, and any number of commands that fail.            *)
(***************************************************************************)
EXTENDS StrongswanCommand, FiniteSetTheorems, TLAPS

AllSteps == EnsureSteps \cup RemoveSteps \cup {"idle"}

\* The steps from the listings to the second policy are reached with selectors.
CallOK ==
  /\ call \in [step : AllSteps, op : {"none", "ensure", "remove"},
               tunnel : Tunnels \cup {NoTunnel}, ok : BOOLEAN]
  /\ call.step \in EnsureSteps => call.op = "ensure" /\ t \in Tunnels
  /\ call.step \in RemoveSteps => call.op = "remove" /\ t \in Tunnels
  /\ call.step \in {"list_in", "add_out", "add_in"} => SelectorOf[t] # NoSelector

TypeInv == CallOK /\ StrongswanTypeOK

\* A call that ensures its tunnel, on whatever its listings showed.
Ensures == \E shown : Ensured(shown)

-----------------------------------------------------------------------------
(* Type correctness.                                                       *)

\* What the steps of a call make of it.
LEMMA CallStep ==
  ASSUME CallOK
  PROVE  /\ \A step \in EnsureSteps : GoTo(step) /\ call.step \in EnsureSteps
              /\ (step \in {"list_in", "add_out", "add_in"} => SelectorOf[t] # NoSelector)
              => CallOK' /\ call'.step = step /\ t' = t
         /\ \A step \in RemoveSteps : GoTo(step) /\ call.step \in RemoveSteps
              => CallOK' /\ call'.step = step /\ t' = t
         /\ \A ok \in BOOLEAN : Return(ok)
              => CallOK' /\ call'.step = "idle" /\ t' = t /\ call'.op = call.op /\ call'.ok = ok
BY DEF CallOK, GoTo, Return, EnsureSteps, RemoveSteps, AllSteps, t

LEMMA PolicyType ==
  ASSUME NEW u \in Tunnels, SelectorOf[u] # NoSelector
  PROVE  Policies(u) \subseteq {"out", "in"} \X Selectors
BY DEF Policies, Policy, Selectors

LEMMA TypeInit == StrongswanInit => TypeInv
<1> SUFFICES ASSUME StrongswanInit PROVE TypeInv
  OBVIOUS
<1>1. CallOK
  BY DEF StrongswanInit, CallOK, EnsureSteps, RemoveSteps, AllSteps
<1>2. call.step = "idle" /\ call.op = "none"
  BY DEF StrongswanInit
<1>3. 0 \in 0 .. MaxFaults
  BY StrongswanAssumption
<1>4. /\ sas = {} /\ policies \subseteq {"out", "in"} \X Selectors
      /\ connections_loaded \in BOOLEAN /\ ends_absent \in BOOLEAN
      /\ xfrm_block_tunnels = {} /\ observed_tunnels = {}
      /\ added = {} /\ guarded = {} /\ misread = {} /\ half_removed = {} /\ seen = {}
      /\ faults = 0
  BY DEF StrongswanInit
<1>5. StrongswanTypeOK
  BY <1>2, <1>3, <1>4 DEF StrongswanTypeOK
<1> QED BY <1>1, <1>5 DEF TypeInv

\* A new call.
LEMMA CallType ==
  ASSUME TypeInv, ensure_tunnel \/ remove_tunnel
  PROVE  TypeInv'
<1>1. /\ UNCHANGED <<sas, policies, ends_absent, connections_loaded, xfrm_block_tunnels,
                      observed_tunnels, added, guarded, misread, half_removed, faults>>
      /\ seen' = {}
  BY DEF ensure_tunnel, remove_tunnel, system, adapter, outcome
<1>2. CallOK'
  <2>1. CASE ensure_tunnel
    <3>1. PICK new \in Tunnels :
            call' = [step |-> IF ConfigFile /\ ~ connections_loaded THEN "load" ELSE "initiate",
                     op |-> "ensure", tunnel |-> new, ok |-> TRUE]
      BY <2>1 DEF ensure_tunnel
    <3>2. CASE ConfigFile /\ ~ connections_loaded
      <4>1. call' = [step |-> "load", op |-> "ensure", tunnel |-> new, ok |-> TRUE]
        BY <3>1, <3>2
      <4> QED BY <4>1 DEF CallOK, EnsureSteps, RemoveSteps, AllSteps, t
    <3>3. CASE ~ (ConfigFile /\ ~ connections_loaded)
      <4>1. call' = [step |-> "initiate", op |-> "ensure", tunnel |-> new,
                     ok |-> TRUE]
        BY <3>1, <3>3
      <4> QED BY <4>1 DEF CallOK, EnsureSteps, RemoveSteps, AllSteps, t
    <3> QED BY <3>2, <3>3
  <2>2. CASE remove_tunnel
    BY <2>2 DEF remove_tunnel, TypeInv, CallOK, StrongswanTypeOK, EnsureSteps, RemoveSteps,
                AllSteps, t
  <2> QED BY <2>1, <2>2
<1>3. /\ call'.step # "idle" => call'.tunnel \in Tunnels
      /\ call'.step \in CASE call'.op = "ensure" -> EnsureSteps \cup {"idle"}
                           [] call'.op = "remove" -> RemoveSteps \cup {"idle"}
                           [] call'.op = "none" -> {"idle"}
  BY DEF ensure_tunnel, remove_tunnel, TypeInv, StrongswanTypeOK, EnsureSteps, RemoveSteps
<1> QED BY <1>1, <1>2, <1>3 DEF TypeInv, StrongswanTypeOK

\* The part of the type invariant that is about the call follows from CallOK.
LEMMA CallPart ==
  ASSUME CallOK'
  PROVE  /\ call'.step # "idle" => call'.tunnel \in Tunnels
         /\ call'.step \in CASE call'.op = "ensure" -> EnsureSteps \cup {"idle"}
                              [] call'.op = "remove" -> RemoveSteps \cup {"idle"}
                              [] call'.op = "none" -> {"idle"}
BY DEF CallOK, EnsureSteps, RemoveSteps, AllSteps, t

\* What the tunnels of a result are.
OutcomeOK ==
  /\ observed_tunnels \subseteq Tunnels /\ guarded \subseteq Tunnels
  /\ misread \subseteq guarded

LEMMA ResultType ==
  ASSUME CallOK, call.step \in EnsureSteps, OutcomeOK
  PROVE  /\ Ensures => /\ CallOK' /\ call'.step = "idle" /\ t' = t
                       /\ observed_tunnels \subseteq observed_tunnels' /\ t \in observed_tunnels'
                       /\ OutcomeOK'
         /\ Fails => /\ CallOK' /\ call'.step = "idle" /\ t' = t
                     /\ UNCHANGED outcome /\ OutcomeOK'
                     /\ observed_tunnels \subseteq observed_tunnels'
         /\ \A step \in EnsureSteps :
              Continue(step) /\ (step \in {"list_in", "add_out", "add_in"} => SelectorOf[t] # NoSelector)
                => /\ CallOK' /\ call'.step = step /\ t' = t
                   /\ UNCHANGED outcome /\ OutcomeOK'
                   /\ observed_tunnels \subseteq observed_tunnels'
<1>1. t \in Tunnels
  BY DEF CallOK
<1>2. UNCHANGED outcome => OutcomeOK' /\ observed_tunnels \subseteq observed_tunnels'
  BY DEF OutcomeOK, outcome
<1>3. Ensures => OutcomeOK' /\ observed_tunnels \subseteq observed_tunnels' /\ t \in observed_tunnels'
  BY <1>1 DEF Ensures, Ensured, OutcomeOK
<1> QED BY <1>1, <1>2, <1>3, CallStep DEF Ensures, Ensured, Fails, Continue

LEMMA FaultType ==
  ASSUME faults \in 0..MaxFaults, Fault
  PROVE  faults' \in 0..MaxFaults
BY StrongswanAssumption DEF Fault

LEMMA EnsureType ==
  ASSUME TypeInv, load_conns \/ initiate \/ list_sas \/ list_out \/ list_in
  PROVE  TypeInv'
<1>a. /\ CallOK /\ StrongswanTypeOK /\ call.step \in EnsureSteps /\ t \in Tunnels
      /\ OutcomeOK /\ faults \in 0..MaxFaults /\ seen \subseteq {"out", "in"} \X Selectors
  BY DEF TypeInv, CallOK, StrongswanTypeOK, OutcomeOK, load_conns, initiate, list_sas, list_out,
         list_in, At, EnsureSteps
<1>b. ASSUME AfterVerify
      PROVE  CallOK' /\ OutcomeOK' /\ observed_tunnels \subseteq observed_tunnels'
  BY <1>a, <1>b, ResultType DEF AfterVerify, Ensures, EnsureSteps
<1>c. ASSUME NEW direction \in {"out", "in"}, SelectorOf[t] # NoSelector,
             NEW found \in xfrm_policy_exists(Policy(direction, t))
      PROVE  found \subseteq {"out", "in"} \X Selectors
  <2>1. Policy(direction, t) \in {"out", "in"} \X Selectors
    BY <1>a, <1>c, PolicyType DEF Policies
  <2> QED BY <1>c, <2>1 DEF xfrm_policy_exists
<1>1. CASE load_conns
  <2>1. /\ CallOK' /\ OutcomeOK' /\ observed_tunnels \subseteq observed_tunnels'
        /\ faults' \in 0..MaxFaults
    BY <1>1, <1>a, ResultType, FaultType DEF load_conns, EnsureSteps
  <2>2. connections_loaded' \in BOOLEAN
    BY <1>1 DEF load_conns
  <2> QED BY <1>1, <1>a, <2>1, <2>2, CallPart
          DEF load_conns, TypeInv, StrongswanTypeOK, OutcomeOK, system
<1>2. CASE initiate
  <2>1. /\ CallOK' /\ OutcomeOK' /\ observed_tunnels \subseteq observed_tunnels'
        /\ faults' \in 0..MaxFaults
    BY <1>2, <1>a, <1>b, ResultType, FaultType DEF initiate, EnsureSteps
  <2>2. sas' \subseteq Tunnels
    BY <1>2, <1>a DEF initiate, StrongswanTypeOK
  <2> QED BY <1>2, <1>a, <2>1, <2>2, CallPart
          DEF initiate, TypeInv, StrongswanTypeOK, OutcomeOK, adapter
<1>3. CASE list_sas
  <2>1. /\ CallOK' /\ OutcomeOK' /\ observed_tunnels \subseteq observed_tunnels'
        /\ faults' \in 0..MaxFaults
    BY <1>3, <1>a, <1>b, ResultType, FaultType DEF list_sas
  <2> QED BY <1>3, <1>a, <2>1, CallPart
          DEF list_sas, TypeInv, StrongswanTypeOK, OutcomeOK, system, adapter
<1>4. CASE list_out
  <2>1. /\ CallOK' /\ OutcomeOK' /\ observed_tunnels \subseteq observed_tunnels'
        /\ faults' \in 0..MaxFaults
    BY <1>4, <1>a, ResultType, FaultType DEF list_out, Ensures, EnsureSteps
  <2>2. seen' \subseteq {"out", "in"} \X Selectors
    BY <1>4, <1>a, <1>c DEF list_out
  <2> QED BY <1>4, <1>a, <2>1, <2>2, CallPart
          DEF list_out, TypeInv, StrongswanTypeOK, OutcomeOK, system, adapter
<1>5. CASE list_in
  <2>0. SelectorOf[t] # NoSelector
    BY <1>5, <1>a DEF list_in, At, CallOK
  <2>1. ASSUME NEW shown, Reuse(shown)
        PROVE  /\ CallOK' /\ OutcomeOK' /\ observed_tunnels \subseteq observed_tunnels'
               /\ xfrm_block_tunnels' = xfrm_block_tunnels /\ seen' = shown
    BY <1>a, <2>0, <2>1, ResultType DEF Reuse, Ensures, EnsureSteps
  <2>2. faults' \in 0..MaxFaults
    BY <1>5, <1>a, FaultType DEF list_in
  <2>3. PICK shown : Reuse(shown) /\ shown \subseteq {"out", "in"} \X Selectors
    <3>1. CASE \E found \in xfrm_policy_exists(Policy("in", t)) : Reuse(seen \cup found)
      BY <1>a, <1>c, <2>0, <3>1
    <3>2. CASE Reuse(seen)
      BY <1>a, <3>2
    <3> QED BY <1>5, <3>1, <3>2 DEF list_in
  <2>4. seen' \subseteq {"out", "in"} \X Selectors
    BY <2>1, <2>3
  <2> QED BY <1>5, <1>a, <2>1, <2>2, <2>3, <2>4, CallPart
          DEF list_in, TypeInv, StrongswanTypeOK, OutcomeOK, system
<1> QED BY <1>1, <1>2, <1>3, <1>4, <1>5

LEMMA AddType ==
  ASSUME TypeInv, add_out \/ add_in
  PROVE  TypeInv'
<1>a. /\ CallOK /\ StrongswanTypeOK /\ call.step \in EnsureSteps /\ t \in Tunnels
      /\ OutcomeOK /\ faults \in 0..MaxFaults /\ SelectorOf[t] # NoSelector
  BY DEF TypeInv, CallOK, StrongswanTypeOK, OutcomeOK, add_out, add_in, At, EnsureSteps
<1>b. ASSUME NEW policy \in Policies(t), Add(policy) \/ UNCHANGED <<policies, added>>
      PROVE  policies' \subseteq {"out", "in"} \X Selectors /\ added' \subseteq policies'
  <2>1. policy \in {"out", "in"} \X Selectors
    BY <1>a, PolicyType
  <2> QED BY <1>a, <1>b, <2>1 DEF Add, StrongswanTypeOK
<1>c. Policy("out", t) \in Policies(t) /\ Policy("in", t) \in Policies(t)
  BY DEF Policies
<1>d. ASSUME NEW policy \in Policies(t), AddFails(policy)
      PROVE  /\ policies' \subseteq {"out", "in"} \X Selectors /\ added' \subseteq policies'
             /\ faults' \in 0..MaxFaults /\ CallOK' /\ OutcomeOK'
             /\ observed_tunnels \subseteq observed_tunnels'
  BY <1>a, <1>b, <1>d, ResultType, FaultType DEF AddFails
<1>1. CASE add_out
  <2>1. /\ policies' \subseteq {"out", "in"} \X Selectors /\ added' \subseteq policies'
        /\ faults' \in 0..MaxFaults /\ CallOK' /\ OutcomeOK'
        /\ observed_tunnels \subseteq observed_tunnels'
    BY <1>1, <1>a, <1>b, <1>c, <1>d, ResultType DEF add_out, EnsureSteps
  <2> QED BY <1>1, <1>a, <2>1, CallPart DEF add_out, TypeInv, StrongswanTypeOK, OutcomeOK, adapter
<1>2. CASE add_in
  <2>1. /\ policies' \subseteq {"out", "in"} \X Selectors /\ added' \subseteq policies'
        /\ faults' \in 0..MaxFaults /\ CallOK' /\ OutcomeOK'
        /\ observed_tunnels \subseteq observed_tunnels'
    BY <1>2, <1>a, <1>b, <1>c, <1>d, ResultType DEF add_in, Ensures
  <2>2. xfrm_block_tunnels' \subseteq observed_tunnels'
    BY <1>2, <1>a, <2>1, ResultType DEF add_in, StrongswanTypeOK, Ensures
  <2> QED BY <1>2, <1>a, <2>1, <2>2, CallPart DEF add_in, TypeInv, StrongswanTypeOK, OutcomeOK
<1> QED BY <1>1, <1>2

LEMMA RemoveType ==
  ASSUME TypeInv, terminate \/ delete_out \/ delete_in
  PROVE  TypeInv'
<1>a. /\ CallOK /\ StrongswanTypeOK /\ call.step \in RemoveSteps /\ t \in Tunnels
      /\ half_removed \subseteq Tunnels /\ faults \in 0..MaxFaults
  BY DEF TypeInv, CallOK, StrongswanTypeOK, terminate, delete_out, delete_in, At, RemoveSteps
<1>b. ASSUME NEW policy, Delete(policy) \/ UNCHANGED <<policies, added>>
      PROVE  policies' \subseteq {"out", "in"} \X Selectors /\ added' \subseteq policies'
  BY <1>a, <1>b DEF Delete, StrongswanTypeOK
<1>c. ASSUME NEW policy, DeleteFails(policy)
      PROVE  /\ policies' \subseteq {"out", "in"} \X Selectors /\ added' \subseteq policies'
             /\ faults' \in 0..MaxFaults /\ CallOK' /\ half_removed' \subseteq Tunnels
  BY <1>a, <1>b, <1>c, CallStep, FaultType DEF DeleteFails
<1>d. Removed => CallOK' /\ half_removed' \subseteq Tunnels
  BY <1>a, CallStep DEF Removed
<1>e. \A step \in RemoveSteps : GoTo(step) => CallOK'
  BY <1>a, CallStep
<1>1. CASE terminate
  <2>1. CallOK' /\ half_removed' \subseteq Tunnels /\ faults' \in 0..MaxFaults
    <3>1. Return(FALSE) => CallOK'
      BY <1>a, CallStep
    <3> QED BY <1>1, <1>a, <1>d, <1>e, <3>1, FaultType DEF terminate, RemoveSteps
  <2>2. sas' \subseteq Tunnels /\ guarded' \subseteq Tunnels /\ misread' \subseteq guarded'
    BY <1>1, <1>a DEF terminate, StrongswanTypeOK
  <2> QED BY <1>1, <1>a, <2>1, <2>2, CallPart DEF terminate, TypeInv, StrongswanTypeOK, adapter
<1>2. CASE delete_out
  <2>1. /\ policies' \subseteq {"out", "in"} \X Selectors /\ added' \subseteq policies'
        /\ faults' \in 0..MaxFaults /\ CallOK' /\ half_removed' \subseteq Tunnels
        /\ xfrm_block_tunnels' = xfrm_block_tunnels
    BY <1>2, <1>a, <1>b, <1>c, <1>e DEF delete_out, AfterDeleteOut, RemoveSteps
  <2> QED BY <1>2, <1>a, <2>1, CallPart DEF delete_out, TypeInv, StrongswanTypeOK, outcome
<1>3. CASE delete_in
  <2>1. /\ policies' \subseteq {"out", "in"} \X Selectors /\ added' \subseteq policies'
        /\ faults' \in 0..MaxFaults /\ CallOK' /\ half_removed' \subseteq Tunnels
        /\ xfrm_block_tunnels' \subseteq xfrm_block_tunnels
    BY <1>3, <1>a, <1>b, <1>c, <1>d DEF delete_in
  <2> QED BY <1>3, <1>a, <2>1, CallPart DEF delete_in, TypeInv, StrongswanTypeOK, outcome
<1> QED BY <1>1, <1>2, <1>3

LEMMA OtherType ==
  ASSUME TypeInv, sa_lost \/ restart \/ UNCHANGED svars
  PROVE  TypeInv'
<1>1. CASE sa_lost \/ UNCHANGED svars
  BY <1>1 DEF sa_lost, svars, adapter, outcome, TypeInv, CallOK, StrongswanTypeOK, t
<1>2. CASE restart
  <2>1. CallOK'
    BY <1>2 DEF restart, CallOK, AllSteps, EnsureSteps, RemoveSteps
  <2>2. call' = [step |-> "idle", op |-> "none", tunnel |-> NoTunnel, ok |-> TRUE]
    BY <1>2 DEF restart
  <2>3. call'.step = "idle" /\ call'.op = "none"
    BY <2>2
  <2>4. /\ sas' = sas /\ policies' = policies /\ ends_absent' = ends_absent
        /\ faults' = faults /\ connections_loaded' = FALSE
        /\ xfrm_block_tunnels' = {} /\ observed_tunnels' = {}
        /\ added' = {} /\ guarded' = {} /\ misread' = {} /\ half_removed' = {} /\ seen' = {}
    BY <1>2 DEF restart, system
  <2>5. StrongswanTypeOK'
    BY <2>3, <2>4 DEF TypeInv, StrongswanTypeOK
  <2> QED BY <2>1, <2>5 DEF TypeInv
<1> QED BY <1>1, <1>2

LEMMA TypeStep ==
  ASSUME TypeInv, [StrongswanNext]_svars
  PROVE  TypeInv'
BY CallType, EnsureType, AddType, RemoveType, OtherType DEF StrongswanNext

LEMMA TypeInvariant == StrongswanSpec => []TypeInv
<1>1. TypeInv /\ [StrongswanNext]_svars => TypeInv'
  BY TypeStep
<1> QED BY <1>1, TypeInit, PTL DEF StrongswanSpec

(* The adapter records only tunnels the controller has seen up, the         *)
(* policies it added are in place, and every call is at a step of its       *)
(* operation, whatever fails and whenever the daemon restarts.              *)
THEOREM StrongswanTypeCorrect == StrongswanSpec => []StrongswanTypeOK
<1>1. TypeInv => StrongswanTypeOK
  BY DEF TypeInv
<1> QED BY <1>1, TypeInvariant, PTL

-----------------------------------------------------------------------------
(* Policies of others.  What is in place of a recorded tunnel was added by  *)
(* the adapter, and only recorded tunnels reach the deletions.              *)

RecordInv ==
  /\ \A u \in xfrm_block_tunnels : Policies(u) \cap policies \subseteq added
  /\ At("add_in") => Policy("out", t) \in added
  /\ call.step \in {"delete_out", "delete_in"} => t \in xfrm_block_tunnels

\* The actions before the first policy is added touch neither policies nor records.
LEMMA QuietStep ==
  ASSUME TypeInv,
         \/ ensure_tunnel \/ load_conns \/ initiate \/ list_sas \/ list_out \/ list_in
         \/ remove_tunnel
  PROVE  /\ UNCHANGED <<policies, added, xfrm_block_tunnels, half_removed>>
         /\ call'.step \notin {"add_in", "delete_out", "delete_in"}
<1>a. call \in [step : AllSteps, op : {"none", "ensure", "remove"},
                tunnel : Tunnels \cup {NoTunnel}, ok : BOOLEAN]
  BY DEF TypeInv, CallOK
<1>1. CASE ensure_tunnel \/ remove_tunnel
  <2>1. call'.step \in {"load", "initiate", "terminate"}
    BY <1>1 DEF ensure_tunnel, remove_tunnel
  <2> QED BY <1>1, <2>1 DEF ensure_tunnel, remove_tunnel, system, adapter
<1>b. /\ \A shown : Ensured(shown) => call'.step = "idle"
      /\ Fails => call'.step = "idle"
      /\ \A step : Continue(step) => call'.step = step
  BY <1>a DEF Ensured, Fails, Continue, Return, GoTo
<1>2. CASE load_conns \/ initiate \/ list_sas
  BY <1>2, <1>b DEF load_conns, initiate, list_sas, AfterVerify, system, adapter
<1>3. CASE list_out
  <2>1. call'.step \in {"idle", "list_in"}
    BY <1>3, <1>a, <1>b DEF list_out
  <2> QED BY <1>3, <2>1 DEF list_out, system, adapter
<1>4. CASE list_in
  BY <1>4, <1>b DEF list_in, Reuse, system
<1> QED BY <1>1, <1>2, <1>3, <1>4

\* How the other steps of a call end.
LEMMA StepsOn ==
  ASSUME CallOK
  PROVE  /\ \A shown : Ensured(shown) => call'.step = "idle" /\ t' = t
         /\ (Ensures \/ Fails \/ Removed) => call'.step = "idle" /\ t' = t
         /\ \A ok : Return(ok) => call'.step = "idle" /\ t' = t
         /\ \A step : (Continue(step) \/ GoTo(step))
                      => call'.step = step /\ t' = t
BY DEF CallOK, Ensures, Ensured, Fails, Removed, Continue, Return, GoTo, t

LEMMA RecordStep ==
  ASSUME TypeInv, RecordInv, [StrongswanNext]_svars
  PROVE  RecordInv'
<1>a. CallOK /\ added \subseteq policies
  BY DEF TypeInv, StrongswanTypeOK
<1>b. ASSUME NEW u PROVE Policies(u)' = Policies(u)
  BY DEF Policies, Policy
<1>c. ASSUME NEW policy, Add(policy) \/ Delete(policy) \/ UNCHANGED <<policies, added>>,
             NEW u, Policies(u) \cap policies \subseteq added
      PROVE  Policies(u) \cap policies' \subseteq added'
  BY <1>c DEF Add, Delete
<1>d. Policies(t) = {Policy("out", t), Policy("in", t)}
  BY DEF Policies
<1>1. CASE \/ ensure_tunnel \/ load_conns \/ initiate \/ list_sas \/ list_out \/ list_in
           \/ remove_tunnel
  BY <1>1, <1>b, QuietStep DEF RecordInv, At
<1>2. CASE sa_lost \/ UNCHANGED svars
  BY <1>2, <1>b DEF sa_lost, svars, adapter, RecordInv, At, Policy, t
<1>3. CASE add_out
  <2>1. Add(Policy("out", t)) \/ UNCHANGED <<policies, added>>
    BY <1>3 DEF add_out, AddFails
  <2>2. /\ t' = t /\ call'.step \in {"idle", "add_in"} /\ xfrm_block_tunnels' = xfrm_block_tunnels
        /\ call'.step = "add_in" => Policy("out", t) \in added'
    BY <1>3, <1>a, StepsOn DEF add_out, AddFails, Add, adapter
  <2> QED BY <1>b, <1>c, <2>1, <2>2 DEF RecordInv, At, Policy
<1>4. CASE add_in
  <2>1. Add(Policy("in", t)) \/ UNCHANGED <<policies, added>>
    BY <1>4 DEF add_in, AddFails
  <2>2. t' = t /\ call'.step = "idle"
    BY <1>4, <1>a, StepsOn DEF add_in, AddFails
  <2>3. CASE xfrm_block_tunnels' = xfrm_block_tunnels
    BY <1>b, <1>c, <2>1, <2>2, <2>3 DEF RecordInv, At
  <2>4. CASE xfrm_block_tunnels' # xfrm_block_tunnels
    <3>1. /\ xfrm_block_tunnels' = xfrm_block_tunnels \cup {t}
          /\ Policy("in", t) \notin policies /\ Add(Policy("in", t))
      BY <1>4, <2>4 DEF add_in, AddFails
    <3>2. Policies(t) \subseteq added'
      BY <1>4, <1>d, <3>1 DEF RecordInv, add_in, At, Add
    <3> QED BY <1>b, <1>c, <2>1, <2>2, <3>1, <3>2 DEF RecordInv, At
  <2> QED BY <2>3, <2>4
<1>5. CASE terminate
  <2>1. /\ UNCHANGED <<policies, added, xfrm_block_tunnels>> /\ t' = t
        /\ call'.step \in {"idle", "delete_out"}
        /\ call'.step = "delete_out" => t \in xfrm_block_tunnels
    BY <1>5, <1>a, StepsOn DEF terminate, Recorded, adapter
  <2> QED BY <1>b, <2>1 DEF RecordInv, At
<1>6. CASE delete_out
  <2>1. Delete(Policy("out", t)) \/ UNCHANGED <<policies, added>>
    BY <1>6 DEF delete_out, DeleteFails
  <2>2. /\ xfrm_block_tunnels' = xfrm_block_tunnels /\ t' = t
        /\ call'.step \in {"idle", "delete_in"}
    BY <1>6, <1>a, StepsOn DEF delete_out, DeleteFails, AfterDeleteOut
  <2>3. t \in xfrm_block_tunnels
    BY <1>6 DEF RecordInv, delete_out, At
  <2> QED BY <1>b, <1>c, <2>1, <2>2, <2>3 DEF RecordInv, At
<1>7. CASE delete_in
  <2>1. Delete(Policy("in", t)) \/ UNCHANGED <<policies, added>>
    BY <1>7 DEF delete_in, DeleteFails
  <2>2. /\ xfrm_block_tunnels' \subseteq xfrm_block_tunnels /\ t' = t
        /\ call'.step = "idle"
    BY <1>7, <1>a, StepsOn DEF delete_in, DeleteFails
  <2> QED BY <1>b, <1>c, <2>1, <2>2 DEF RecordInv, At
<1>8. CASE restart
  <2>1. xfrm_block_tunnels' = {} /\ call'.step = "idle"
    BY <1>8 DEF restart
  <2> QED BY <2>1 DEF RecordInv, At
<1> QED BY <1>1, <1>2, <1>3, <1>4, <1>5, <1>6, <1>7, <1>8 DEF StrongswanNext

LEMMA RecordInvariant == StrongswanSpec => [](TypeInv /\ RecordInv)
<1>1. StrongswanInit => RecordInv
  BY DEF StrongswanInit, RecordInv, At
<1>2. TypeInv /\ RecordInv /\ [StrongswanNext]_svars => RecordInv'
  BY RecordStep
<1> QED BY <1>1, <1>2, TypeInvariant, PTL DEF StrongswanSpec

(* A policy the adapter has not added itself is never deleted: only         *)
(* recorded tunnels reach ip xfrm policy delete, and what is in place of a  *)
(* recorded tunnel was added by this adapter.                               *)
THEOREM PoliciesOfOthersStay == StrongswanSpec => ForeignPoliciesStay
<1>1. ASSUME RecordInv, TypeInv, [StrongswanNext]_svars
      PROVE  [policies \ added \subseteq policies']_svars
  <2>1. ASSUME delete_out \/ delete_in
        PROVE  policies \ added \subseteq policies'
    <3>1. /\ t \in xfrm_block_tunnels
          /\ \E policy \in Policies(t) : Delete(policy) \/ policies' = policies
      BY <1>1, <2>1 DEF RecordInv, delete_out, delete_in, DeleteFails, At, Policies
    <3> QED BY <1>1, <3>1 DEF RecordInv, Delete
  <2>2. ASSUME add_out \/ add_in
        PROVE  policies \subseteq policies'
    BY <2>2 DEF add_out, add_in, AddFails, Add
  <2>3. ASSUME terminate \/ sa_lost \/ restart \/ UNCHANGED svars
        PROVE  policies' = policies
    BY <2>3 DEF terminate, sa_lost, restart, svars, system
  <2> QED BY <1>1, <2>1, <2>2, <2>3, QuietStep DEF StrongswanNext
<1> QED BY <1>1, RecordInvariant, PTL DEF StrongswanSpec, ForeignPoliciesStay

-----------------------------------------------------------------------------
(* The block.  A recorded tunnel that is not half removed is blocked, up to *)
(* the deletion of its first policy, which its termination precedes.        *)

BlockInv ==
  /\ \A u \in xfrm_block_tunnels \ half_removed :
       Alone(u) /\ ~ (At("delete_in") /\ t = u) => Policies(u) \subseteq policies
  /\ \A u \in guarded \ (half_removed \cup misread) : Alone(u) => Policies(u) \subseteq policies
  /\ call.step \in {"delete_out", "delete_in"} => t \notin guarded

LEMMA BlockStep ==
  ASSUME BlockNonIpsec, TypeInv, RecordInv, BlockInv, [StrongswanNext]_svars
  PROVE  BlockInv'
<1>a. /\ CallOK /\ added \subseteq policies /\ xfrm_block_tunnels \subseteq Tunnels
      /\ guarded \subseteq Tunnels
  BY DEF TypeInv, StrongswanTypeOK
<1>b. ASSUME NEW u PROVE Policies(u)' = Policies(u) /\ Alone(u)' = Alone(u)
  BY DEF Policies, Policy, Alone
<1>d. Policies(t) = {Policy("out", t), Policy("in", t)}
  BY DEF Policies
\* No policy of a tunnel is one of another tunnel that is alone.
<1>e. ASSUME NEW u \in Tunnels, Alone(u), t \in Tunnels, u # t,
             NEW policy \in Policies(t)
      PROVE  policy \notin Policies(u)
  BY <1>e DEF Alone, Policies, Policy
<1>1. CASE \/ ensure_tunnel \/ load_conns \/ initiate \/ list_sas \/ remove_tunnel
  <2>1. /\ UNCHANGED <<policies, xfrm_block_tunnels, half_removed>>
        /\ call'.step \notin {"delete_out", "delete_in"}
    BY <1>1, QuietStep
  <2>2. UNCHANGED <<guarded, misread>>
    <3>1. CASE ensure_tunnel \/ remove_tunnel
      BY <3>1 DEF ensure_tunnel, remove_tunnel, outcome
    <3>2. CASE load_conns \/ initiate \/ list_sas
      <4>1. \/ Fails \/ Continue("initiate") \/ Continue("verify") \/ Continue("list_out")
        BY <3>2 DEF load_conns, initiate, list_sas, AfterVerify
      <4> QED BY <4>1 DEF Fails, Continue, outcome
    <3> QED BY <1>1, <3>1, <3>2
  <2> QED BY <1>b, <1>1, <2>1, <2>2 DEF BlockInv, At, ensure_tunnel, remove_tunnel, load_conns,
                                        initiate, list_sas
<1>2. CASE sa_lost \/ UNCHANGED svars
  BY <1>2, <1>b DEF sa_lost, svars, adapter, outcome, BlockInv, At, Policy, t
<1>3. CASE list_out
  <2>1. /\ UNCHANGED <<policies, xfrm_block_tunnels, half_removed>>
        /\ call'.step \notin {"delete_out", "delete_in"}
    BY <1>3, QuietStep
  <2>2. \/ UNCHANGED <<guarded, misread>>
        \/ /\ t \in xfrm_block_tunnels /\ guarded' = guarded \cup {t}
           /\ misread \ {t} \subseteq misread'
    BY <1>3 DEF list_out, Recorded, Ensured, Fails, Continue, outcome
  <2> QED BY <1>3, <1>b, <2>1, <2>2 DEF BlockInv, At, list_out
<1>4. CASE list_in
  <2>1. /\ UNCHANGED <<policies, xfrm_block_tunnels, half_removed>>
        /\ call'.step \notin {"delete_out", "delete_in"}
    BY <1>4, QuietStep
  <2>2. PICK shown : Reuse(shown)
    BY <1>4 DEF list_in
  <2>3. \/ UNCHANGED <<guarded, misread>>
        \/ /\ guarded' = guarded \cup {t} /\ misread \ {t} \subseteq misread'
           /\ t \notin misread' => Policies(t) \subseteq policies
    <3>1. CASE shown = Policies(t)
      BY <2>2, <3>1 DEF Reuse, Ensured
    <3>2. CASE shown # Policies(t)
      BY <2>2, <3>2 DEF Reuse, Fails, Continue, outcome
    <3> QED BY <3>1, <3>2
  <2> QED BY <1>4, <1>b, <2>1, <2>3 DEF BlockInv, At, list_in
<1>5. CASE add_out
  <2>1. /\ policies \subseteq policies'
        /\ UNCHANGED <<xfrm_block_tunnels, half_removed, guarded, misread>>
    BY <1>5 DEF add_out, AddFails, Add, adapter, Continue, Fails, outcome
  <2>2. call'.step \in {"idle", "add_in"}
    BY <1>5, <1>a, StepsOn DEF add_out, AddFails
  <2> QED BY <1>5, <1>b, <2>1, <2>2 DEF BlockInv, At, add_out
<1>6. CASE add_in
  <2>1. policies \subseteq policies' /\ half_removed' = half_removed
    BY <1>6 DEF add_in, AddFails, Add
  <2>2. call'.step = "idle"
    BY <1>6, <1>a, StepsOn DEF add_in, AddFails
  <2>3. \/ UNCHANGED <<xfrm_block_tunnels, guarded, misread>>
        \/ /\ xfrm_block_tunnels' = xfrm_block_tunnels \cup {t}
           /\ guarded' = guarded \cup {t} /\ misread \ {t} \subseteq misread'
           /\ Policies(t) \subseteq policies'
    BY <1>6, <1>a, <1>d DEF add_in, AddFails, Add, Ensured, Fails, RecordInv, At, outcome
  <2> QED BY <1>6, <1>b, <2>1, <2>2, <2>3 DEF BlockInv, At, add_in
<1>7. CASE terminate
  <2>1. UNCHANGED <<policies, xfrm_block_tunnels>> /\ t' = t
    BY <1>7, <1>a, StepsOn DEF terminate, adapter
  <2>2. /\ call'.step \in {"idle", "delete_out"}
        /\ guarded' \subseteq guarded /\ guarded' \cap misread \subseteq misread'
        /\ call'.step = "delete_out" => t \notin guarded'
        /\ \/ half_removed' = half_removed
           \/ half_removed' = half_removed \ {t} /\ t \notin guarded' /\ t \notin xfrm_block_tunnels
    BY <1>7, <1>a, StepsOn DEF terminate, Removed, Recorded
  <2> QED BY <1>7, <1>b, <2>1, <2>2 DEF BlockInv, At, terminate
<1>8. CASE delete_out
  <2>0. t \in xfrm_block_tunnels /\ t \in Tunnels /\ t \notin guarded
    BY <1>8, <1>a DEF RecordInv, BlockInv, delete_out, At
  <2>1. /\ UNCHANGED <<xfrm_block_tunnels, guarded, misread>> /\ t' = t
        /\ policies \ Policies(t) \subseteq policies'
        /\ \/ call'.step = "delete_in" /\ half_removed' = half_removed
           \/ call'.step = "idle" /\ half_removed' = half_removed \cup {t}
    BY <1>8, <1>a, <1>d, StepsOn DEF delete_out, DeleteFails, AfterDeleteOut, Delete, outcome
  <2>2. ASSUME NEW u \in Tunnels, u # t, Alone(u), Policies(u) \subseteq policies
        PROVE  Policies(u) \subseteq policies'
    BY <1>e, <2>0, <2>1, <2>2
  <2> QED BY <1>8, <1>a, <1>b, <2>0, <2>1, <2>2 DEF BlockInv, At
<1>9. CASE delete_in
  <2>0. t \in xfrm_block_tunnels /\ t \in Tunnels /\ t \notin guarded
    BY <1>9, <1>a DEF RecordInv, BlockInv, delete_in, At
  <2>1. /\ UNCHANGED <<guarded, misread>> /\ t' = t /\ call'.step = "idle"
        /\ policies \ Policies(t) \subseteq policies'
        /\ \/ xfrm_block_tunnels' = xfrm_block_tunnels \ {t} /\ half_removed' = half_removed \ {t}
           \/ xfrm_block_tunnels' = xfrm_block_tunnels /\ half_removed' = half_removed \cup {t}
    BY <1>9, <1>a, <1>d, StepsOn DEF delete_in, DeleteFails, Delete, Removed, outcome
  <2>2. ASSUME NEW u \in Tunnels, u # t, Alone(u), Policies(u) \subseteq policies
        PROVE  Policies(u) \subseteq policies'
    BY <1>e, <2>0, <2>1, <2>2
  <2> QED BY <1>9, <1>a, <1>b, <2>0, <2>1, <2>2 DEF BlockInv, At
<1>10. CASE restart
  <2>1. xfrm_block_tunnels' = {} /\ guarded' = {} /\ call'.step = "idle"
    BY <1>10 DEF restart
  <2> QED BY <2>1 DEF BlockInv, At
<1> QED BY <1>1, <1>2, <1>3, <1>4, <1>5, <1>6, <1>7, <1>8, <1>9, <1>10 DEF StrongswanNext

(* From its establishment to its termination a tunnel with selectors of its *)
(* own stays blocked outside of IPsec, as long as its policies have not     *)
(* failed to be removed and it was not ensured on a listing that showed     *)
(* policies it does not have (xfrm_policy_exists), however the two passes   *)
(* over the policies of the kernel fail and whatever policies others have   *)
(* put there.                                                               *)
THEOREM GuardedStaysBlocked == StrongswanSpec => []GuardedIsBlocked
<1>1. StrongswanInit => BlockInv
  BY DEF StrongswanInit, BlockInv, At
<1>2. (BlockNonIpsec => BlockInv) => GuardedIsBlocked
  BY DEF BlockInv, GuardedIsBlocked
<1>3. TypeInv /\ RecordInv /\ (BlockNonIpsec => BlockInv) /\ [StrongswanNext]_svars
      => (BlockNonIpsec => BlockInv)'
  BY BlockStep
<1> QED BY <1>1, <1>2, <1>3, RecordInvariant, PTL DEF StrongswanSpec

-----------------------------------------------------------------------------
(* Calls in which no command fails by itself.  A policy the listings do not *)
(* show is not there and stays away up to its addition, so none is refused, *)
(* and there is always room to record one more tunnel.                      *)

BlocksOnRecord == UNION {Policies(u) : u \in xfrm_block_tunnels}

\* A listing that does not fail shows the policy of the tunnel if it is there, and
\* no policy of another direction or tunnel.
Found(direction, shown) ==
  /\ shown \subseteq {Policy(direction, t)}
  /\ Policy(direction, t) \in policies => Policy(direction, t) \in shown

FaultlessInv ==
  /\ ~ At("add_in") => added \subseteq BlocksOnRecord
  /\ At("add_in") => added \subseteq BlocksOnRecord \cup {Policy("out", t)}
  /\ At("list_in") => Found("out", seen)
  /\ At("add_out") => Policies(t) \cap policies = {}
  /\ At("add_in") => Policy("in", t) \notin policies
  /\ call.step \in {"list_in", "add_out", "add_in"} => ~ Recorded
  /\ At("delete_in") => Policy("out", t) \notin added
  /\ EnsureSucceeds

\* There is room in xfrm_block_tunnels for a tunnel that is not on record.
LEMMA RoomToRecord ==
  ASSUME TypeInv, t \in Tunnels, ~ Recorded
  PROVE  Cardinality(xfrm_block_tunnels) < MaxTunnels
<1>1. xfrm_block_tunnels \subseteq Tunnels /\ xfrm_block_tunnels # Tunnels
  BY DEF TypeInv, StrongswanTypeOK, Recorded
<1>2. IsFiniteSet(Tunnels) /\ Cardinality(Tunnels) <= MaxTunnels /\ MaxTunnels \in Nat
  BY StrongswanAssumption
<1>3. /\ Cardinality(xfrm_block_tunnels) \in Nat /\ Cardinality(Tunnels) \in Nat
      /\ Cardinality(xfrm_block_tunnels) < Cardinality(Tunnels)
  BY <1>1, <1>2, FS_Subset, FS_CardinalityType
<1> QED BY <1>2, <1>3

LEMMA FaultlessStep ==
  ASSUME TypeInv, faults = 0 => FaultlessInv, [StrongswanNext]_svars, faults' = 0
  PROVE  FaultlessInv'
<1>a. /\ CallOK /\ added \subseteq policies /\ faults \in 0..MaxFaults
  BY DEF TypeInv, StrongswanTypeOK
<1>f. faults = 0 /\ ~ Fault /\ FaultlessInv
  <2>1. load_conns \/ initiate \/ list_sas \/ list_out \/ list_in => UNCHANGED faults \/ Fault
    BY DEF load_conns, initiate, list_sas, list_out, list_in
  <2>2. add_out \/ add_in \/ delete_out \/ delete_in => UNCHANGED faults \/ Fault
    BY DEF add_out, add_in, AddFails, delete_out, delete_in, DeleteFails
  <2>3. ensure_tunnel \/ remove_tunnel \/ terminate \/ sa_lost \/ restart
      => UNCHANGED faults \/ Fault
    BY DEF ensure_tunnel, remove_tunnel, terminate, sa_lost, restart
  <2>4. UNCHANGED faults \/ Fault
    BY <2>1, <2>2, <2>3 DEF StrongswanNext, svars
  <2>5. faults \in Nat
    BY <1>a, StrongswanAssumption
  <2> QED BY <2>4, <2>5 DEF Fault
<1>b. ASSUME NEW u PROVE Policies(u)' = Policies(u)
  BY DEF Policies, Policy
<1>c. xfrm_block_tunnels' = xfrm_block_tunnels => BlocksOnRecord' = BlocksOnRecord
  BY DEF BlocksOnRecord, Policies, Policy
<1>d. Policies(t) = {Policy("out", t), Policy("in", t)} /\ Policy("out", t) # Policy("in", t)
  BY DEF Policies, Policy
<1>g. ASSUME NEW u PROVE Policy("out", u)' = Policy("out", u) /\ Policy("in", u)' = Policy("in", u)
  BY DEF Policy
<1>e. /\ \A shown : Ensured(shown) => call'.step = "idle" /\ call'.ok
      /\ Ensures => call'.step = "idle" /\ call'.ok
  BY <1>a DEF Ensures, Ensured, Return, CallOK
<1>1. CASE ensure_tunnel \/ remove_tunnel
  <2>1. call'.step \in {"load", "initiate", "terminate"}
    BY <1>1 DEF ensure_tunnel, remove_tunnel
  <2>2. UNCHANGED <<policies, added, xfrm_block_tunnels>> /\ ~ At("add_in")
    BY <1>1 DEF ensure_tunnel, remove_tunnel, system, adapter, At
  <2> QED BY <1>f, <1>c, <2>1, <2>2 DEF FaultlessInv, EnsureSucceeds, At
<1>2. CASE load_conns \/ initiate \/ list_sas
  <2>1. /\ UNCHANGED <<policies, added, xfrm_block_tunnels>> /\ ~ At("add_in")
        /\ ~ At("idle")
    BY <1>2 DEF load_conns, initiate, list_sas, AfterVerify, system, adapter, At
  <2>2. \/ Ensures \/ Continue("initiate") \/ Continue("verify") \/ Continue("list_out")
        \/ Fails /\ t \notin sas /\ sas' = sas
    BY <1>2, <1>f DEF load_conns, initiate, list_sas, AfterVerify, system, Ensures
  <2>3. /\ call'.step \in {"idle", "initiate", "verify", "list_out"}
        /\ t' = t
        /\ call'.step = "idle" => call'.ok \/ (t \notin sas /\ sas' = sas)
    BY <1>a, <1>e, <2>2, StepsOn
  <2> QED BY <1>f, <1>c, <2>1, <2>3 DEF FaultlessInv, EnsureSucceeds, At
<1>3. CASE sa_lost \/ UNCHANGED svars
  <2>1. sas' \subseteq sas /\ UNCHANGED <<policies, added, xfrm_block_tunnels, call, seen, faults>>
    BY <1>3 DEF sa_lost, svars, adapter
  <2> QED BY <1>f, <1>b, <1>c, <1>g, <2>1 DEF FaultlessInv, Found, EnsureSucceeds, At, Recorded, t
<1>4. CASE list_out
  <2>1. /\ UNCHANGED <<policies, added, xfrm_block_tunnels, sas>> /\ ~ At("add_in")
    BY <1>4 DEF list_out, system, adapter, At
  <2>2. CASE Ensured(seen)
    BY <1>f, <1>c, <1>e, <2>1, <2>2 DEF FaultlessInv, EnsureSucceeds, At
  <2>3. CASE Fails /\ SelectorOf[t] = NoSelector
    <3>1. call'.step = "idle" /\ t' = t
      BY <1>a, <2>3, StepsOn
    <3> QED BY <1>f, <1>c, <2>1, <2>3, <3>1 DEF FaultlessInv, EnsureSucceeds, At, t
  <2>4. CASE Continue("list_in") /\ ~ Recorded /\ seen' \in xfrm_policy_exists(Policy("out", t))
    <3>1. call'.step = "list_in" /\ t' = t
      BY <1>a, <2>4, StepsOn
    <3>2. Found("out", seen')
      BY <2>4 DEF Found, xfrm_policy_exists
    <3>3. Found("out", seen)'
      BY <1>g, <2>1, <3>1, <3>2 DEF Found
    <3> QED BY <1>f, <1>c, <1>g, <2>1, <2>4, <3>1, <3>3 DEF FaultlessInv, EnsureSucceeds, At, Recorded
  <2> QED BY <1>4, <1>f, <2>2, <2>3, <2>4 DEF list_out
<1>5. CASE list_in
  <2>1. /\ UNCHANGED <<policies, added, xfrm_block_tunnels, sas>> /\ At("list_in")
    BY <1>5, <1>f DEF list_in, Reuse, system
  <2>2. Found("out", seen) /\ ~ Recorded
    BY <1>f, <2>1 DEF FaultlessInv, At
  <2>3. PICK found \in xfrm_policy_exists(Policy("in", t)) : Reuse(seen \cup found)
    BY <1>5, <1>f DEF list_in
  <2>4. Found("in", found)
    BY <2>3 DEF Found, xfrm_policy_exists
  <2>5. seen' = seen \cup found
    BY <2>3 DEF Reuse
  <2>6. CASE seen' = Policies(t)
    <3>1. Ensures
      BY <2>3, <2>5, <2>6 DEF Reuse, Ensures
    <3> QED BY <1>f, <1>c, <1>e, <2>1, <3>1 DEF FaultlessInv, EnsureSucceeds, At
  <2>7. CASE seen' = {}
    <3>1. /\ Continue("add_out") /\ Policy("out", t) \notin policies
          /\ Policy("in", t) \notin policies
      BY <1>d, <2>2, <2>3, <2>4, <2>5, <2>7 DEF Reuse, Found
    <3>2. call'.step = "add_out" /\ t' = t
      BY <1>a, <3>1, StepsOn
    <3> QED BY <1>f, <1>b, <1>c, <1>d, <2>1, <2>2, <3>1, <3>2
            DEF FaultlessInv, EnsureSucceeds, At, Recorded
  <2>8. CASE seen' # Policies(t) /\ seen' # {}
    <3>1. Fails
      BY <2>3, <2>5, <2>8 DEF Reuse
    <3>2. call'.step = "idle" /\ t' = t
      BY <1>a, <3>1, StepsOn
    <3>3. \/ Policy("out", t) \in policies <=> Policy("in", t) \notin policies
          \/ ~ (seen' \subseteq policies)
      BY <1>d, <2>2, <2>4, <2>5, <2>8 DEF Found
    <3> QED BY <1>f, <1>c, <1>g, <2>1, <3>2, <3>3 DEF FaultlessInv, EnsureSucceeds, At
  <2> QED BY <2>6, <2>7, <2>8
<1>6. CASE add_out
  <2>1. /\ Add(Policy("out", t)) /\ Continue("add_in") /\ xfrm_block_tunnels' = xfrm_block_tunnels
        /\ ~ Recorded /\ added \subseteq BlocksOnRecord /\ Policy("in", t) \notin policies
    BY <1>6, <1>f, <1>d DEF add_out, AddFails, FaultlessInv, At, adapter
  <2>2. call'.step = "add_in" /\ t' = t
    BY <1>a, <2>1, StepsOn
  <2> QED BY <1>f, <1>c, <1>d, <1>g, <2>1, <2>2
          DEF FaultlessInv, EnsureSucceeds, At, Recorded, Add
<1>7. CASE add_in
  <2>0. ~ Recorded /\ added \subseteq BlocksOnRecord \cup {Policy("out", t)} /\ t \in Tunnels
    BY <1>7, <1>f, <1>a DEF add_in, At, FaultlessInv, CallOK, EnsureSteps
  <2>1. /\ Add(Policy("in", t)) /\ Ensured(seen) /\ xfrm_block_tunnels' = xfrm_block_tunnels \cup {t}
    BY <1>7, <1>f, <2>0, RoomToRecord DEF add_in, AddFails, FaultlessInv, At
  <2>2. call'.step = "idle" /\ call'.ok
    BY <1>e, <2>1
  <2>3. BlocksOnRecord \cup Policies(t) \subseteq BlocksOnRecord'
    BY <2>1, <1>b DEF BlocksOnRecord
  <2> QED BY <1>d, <2>0, <2>1, <2>2, <2>3 DEF FaultlessInv, EnsureSucceeds, At, Add
<1>8. CASE terminate
  <2>1. /\ UNCHANGED <<policies, added, xfrm_block_tunnels>> /\ At("terminate")
    BY <1>8 DEF terminate, adapter
  <2>2. call'.step \in {"idle", "delete_out"} /\ call'.op = "remove"
    BY <1>8, <1>a DEF terminate, Removed, Return, GoTo, CallOK, At, RemoveSteps
  <2> QED BY <1>f, <1>c, <2>1, <2>2 DEF FaultlessInv, EnsureSucceeds, At
<1>9. CASE delete_out
  <2>1. /\ xfrm_block_tunnels' = xfrm_block_tunnels /\ added \subseteq BlocksOnRecord
        /\ call.op = "remove"
    BY <1>9, <1>f, <1>a DEF delete_out, AfterDeleteOut, FaultlessInv, At, CallOK, RemoveSteps
  <2>2. \/ Delete(Policy("out", t)) /\ GoTo("delete_in")
        \/ Return(FALSE) /\ added' = added
    BY <1>9, <1>f DEF delete_out, AfterDeleteOut, DeleteFails
  <2>3. /\ t' = t /\ call'.op = "remove" /\ added' \subseteq added
        /\ \/ call'.step = "idle"
           \/ call'.step = "delete_in" /\ Policy("out", t) \notin added'
    BY <1>a, <2>1, <2>2 DEF Delete, GoTo, Return, CallOK, t
  <2> QED BY <1>f, <1>c, <1>g, <2>1, <2>3 DEF FaultlessInv, EnsureSucceeds, At
<1>10. CASE delete_in
  <2>1. /\ added \subseteq BlocksOnRecord /\ Policy("out", t) \notin added
        /\ call.op = "remove"
    BY <1>10, <1>f, <1>a DEF delete_in, FaultlessInv, At, CallOK, RemoveSteps
  <2>2. \/ /\ Delete(Policy("in", t)) /\ Return(TRUE)
           /\ xfrm_block_tunnels' = xfrm_block_tunnels \ {t}
        \/ /\ Return(FALSE) /\ added' = added
           /\ xfrm_block_tunnels' = xfrm_block_tunnels
    BY <1>10, <1>f DEF delete_in, DeleteFails, Removed
  <2>3. call'.op = "remove" /\ call'.step = "idle"
    BY <1>a, <2>1, <2>2 DEF Return, CallOK
  <2>4. added' \subseteq BlocksOnRecord'
    BY <1>b, <1>c, <1>d, <2>1, <2>2 DEF BlocksOnRecord, Delete
  <2> QED BY <2>3, <2>4 DEF FaultlessInv, EnsureSucceeds, At
<1>11. CASE restart
  <2>1. added' = {} /\ call'.step = "idle" /\ call'.op = "none"
    BY <1>11 DEF restart
  <2> QED BY <2>1 DEF FaultlessInv, EnsureSucceeds, At
<1> QED BY <1>1, <1>2, <1>3, <1>4, <1>5, <1>6, <1>7, <1>8, <1>9, <1>10, <1>11 DEF StrongswanNext

LEMMA FaultlessInvariant == StrongswanSpec => [](faults = 0 => FaultlessInv)
<1> DEFINE I == faults = 0 => FaultlessInv
<1>1. StrongswanInit => I
  <2>1. StrongswanInit => added = {} /\ call.step = "idle" /\ call.op = "none"
    BY DEF StrongswanInit
  <2> QED BY <2>1 DEF FaultlessInv, EnsureSucceeds, At
<1>2. TypeInv /\ I /\ [StrongswanNext]_svars => I'
  BY FaultlessStep
<1> HIDE DEF I
<1>3. StrongswanSpec => []I
  BY <1>1, <1>2, TypeInvariant, PTL DEF StrongswanSpec
<1> QED BY <1>3 DEF I

(* With no command that fails by itself the policies the adapter added      *)
(* belong to recorded tunnels between its calls, so that strongswan_remove  *)
(* will find them.                                                          *)
THEOREM AddedStaysRecorded == StrongswanSpec => []AddedIsRecorded
<1>1. (faults = 0 => FaultlessInv) => AddedIsRecorded
  BY DEF FaultlessInv, AddedIsRecorded, BlocksOnRecord, At
<1> QED BY <1>1, FaultlessInvariant, PTL

(* With no command that fails by itself strongswan_ensure succeeds for a    *)
(* tunnel that holds: neither full records nor policies that earlier runs   *)
(* left stand in its way, unless they are one of two, or a listing showed   *)
(* one that is not there (xfrm_policy_exists).                              *)
THEOREM EnsureOfTunnelSucceeds == StrongswanSpec => []EnsureSucceeds
<1>1. (faults = 0 => FaultlessInv) => EnsureSucceeds
  BY DEF FaultlessInv, EnsureSucceeds
<1> QED BY <1>1, FaultlessInvariant, PTL

=============================================================================
