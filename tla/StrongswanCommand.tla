------------------------- MODULE StrongswanCommand --------------------------
(***************************************************************************)
(* The command adapter of strongSwan (src/src/command_adapters.c): a tunnel *)
(* is brought up and taken down by swanctl, and with block_non_ipsec the   *)
(* traffic between its selectors is blocked outside of IPsec by two        *)
(* policies of the kernel, which outlive the adapter that added them.      *)
(*                                                                         *)
(* The transition calls ensure_tunnel and remove_tunnel; here a call may   *)
(* be made whenever none is under way, of any tunnel and in any order, but *)
(* only a tunnel the controller has seen up is removed.  A stop of the     *)
(* daemon may come between any two commands.                               *)
(***************************************************************************)
EXTENDS Naturals, FiniteSets

CONSTANTS
  Tunnels,
  SelectorOf,        \* of each tunnel: its local and remote selector, or NoSelector
  NoSelector,
  NoTunnel,
  ConfigFile,        \* is there a swanctl_config_file?
  VerifyTunnel,      \* verify_tunnel
  BlockNonIpsec,     \* block_non_ipsec
  MaxTunnels,        \* EN_MAX_TUNNELS, size of xfrm_block_tunnels
  MaxFaults          \* bound on the commands that fail by themselves

ASSUME StrongswanAssumption ==
  /\ DOMAIN SelectorOf = Tunnels /\ NoTunnel \notin Tunnels
  /\ {ConfigFile, VerifyTunnel, BlockNonIpsec} \subseteq BOOLEAN
  /\ IsFiniteSet(Tunnels) /\ Cardinality(Tunnels) <= MaxTunnels
  /\ MaxTunnels \in Nat /\ MaxFaults \in Nat

VARIABLES
  sas,                \* strongSwan: the tunnels that are up
  policies,           \* kernel: the block policies, <<direction, selectors>>
  ends_absent,        \* swanctl takes the end of an SA that is not there for done
  connections_loaded, xfrm_block_tunnels,  \* en_strongswan_command_ctx_t
  observed_tunnels,   \* the controller: the tunnels it has seen up
  call,               \* the call under way, or what the last one came to
  added,              \* the policies this adapter has added
  seen,               \* what the listings of the call took for policies of its tunnel
  guarded,            \* tunnels that were ensured and not terminated since
  misread,            \* of these: ensured over policies that are not there
  half_removed,       \* tunnels whose policies failed to be removed
  faults

svars == <<sas, policies, ends_absent, connections_loaded, xfrm_block_tunnels,
           observed_tunnels, call, seen, added, guarded, misread, half_removed, faults>>

system  == <<sas, policies>>
adapter == <<connections_loaded, xfrm_block_tunnels>>
outcome == <<observed_tunnels, guarded, misread>>

Selectors == {SelectorOf[t] : t \in Tunnels} \ {NoSelector}
Policy(direction, t) == <<direction, SelectorOf[t]>>
Policies(t) == {Policy("out", t), Policy("in", t)}

t == call.tunnel

StrongswanInit ==
  /\ sas = {} /\ policies \in SUBSET ({"out", "in"} \X Selectors)
  /\ ends_absent \in BOOLEAN
  /\ connections_loaded = FALSE /\ xfrm_block_tunnels = {}
  /\ observed_tunnels = {}
  /\ call = [step |-> "idle", op |-> "none", tunnel |-> NoTunnel, ok |-> TRUE] /\ seen = {}
  /\ added = {} /\ guarded = {} /\ misread = {} /\ half_removed = {}
  /\ faults = 0

-----------------------------------------------------------------------------
(* The steps of a call.                                                    *)

At(step) == call.step = step
GoTo(step) == call' = [call EXCEPT !.step = step]
Return(ok) == call' = [call EXCEPT !.step = "idle", !.ok = ok]

\* The controller records the tunnel as observed.
Ensured(shown) ==
  /\ Return(TRUE)
  /\ observed_tunnels' = observed_tunnels \cup {t}
  /\ guarded' = guarded \cup {t}
  /\ misread' = IF shown \subseteq policies THEN misread \ {t} ELSE misread \cup {t}

Fails == Return(FALSE) /\ UNCHANGED outcome

Fault == faults < MaxFaults /\ faults' = faults + 1

Continue(step) == GoTo(step) /\ UNCHANGED outcome

\* strongswan_ensure
ensure_tunnel ==
  /\ At("idle")
  /\ \E new \in Tunnels :
       call' = [step |-> IF ConfigFile /\ ~ connections_loaded THEN "load" ELSE "initiate",
                op |-> "ensure", tunnel |-> new, ok |-> TRUE]
  /\ seen' = {}
  /\ UNCHANGED <<system, ends_absent, adapter, outcome, added, half_removed, faults>>

load_conns ==
  /\ At("load")
  /\ \/ connections_loaded' = TRUE /\ Continue("initiate") /\ UNCHANGED faults
     \/ connections_loaded' = FALSE /\ Fails /\ Fault
  /\ UNCHANGED <<system, ends_absent, xfrm_block_tunnels, seen, added, half_removed>>

AfterVerify == IF BlockNonIpsec THEN Continue("list_out") ELSE Ensured(seen)

initiate ==
  /\ At("initiate")
  /\ \/ /\ sas' = sas \cup {t}
        /\ IF VerifyTunnel THEN Continue("verify") ELSE AfterVerify
        /\ UNCHANGED faults
     \/ /\ sas' \in {sas, sas \cup {t}}
        /\ Fails /\ Fault
  /\ UNCHANGED <<policies, ends_absent, adapter, seen, added, half_removed>>

list_sas ==
  /\ At("verify")
  /\ \/ (IF t \in sas THEN AfterVerify ELSE Fails) /\ UNCHANGED faults
     \/ Fails /\ Fault
  /\ UNCHANGED <<system, ends_absent, adapter, seen, added, half_removed>>

\* has_xfrm_block
Recorded == t \in xfrm_block_tunnels

\* xfrm_policy_exists: the listing is searched from the selectors to the next blank
\* line, of which ip prints none, so to its end.  A block policy that is there is found;
\* one that is not is found as well when the selectors are those of another policy, as
\* an IPsec policy of the tunnel is, and a block of whatever tunnel or direction is
\* listed behind it.  In which order policies are listed is up to the kernel.
xfrm_policy_exists(policy) ==
  {found \in SUBSET {policy} : /\ policy \in policies => found # {}
                               /\ found # {} => policies # {}}

\* apply_xfrm_block up to the first listing: a tunnel without selectors is refused, a
\* tunnel on record is taken to be blocked.  A listing that fails shows no policy.
list_out ==
  /\ At("list_out")
  /\ \/ SelectorOf[t] = NoSelector /\ seen' = seen /\ Fails /\ UNCHANGED faults
     \/ SelectorOf[t] # NoSelector /\ Recorded /\ seen' = seen /\ Ensured(seen) /\ UNCHANGED faults
     \/ /\ SelectorOf[t] # NoSelector /\ ~ Recorded
        /\ \/ seen' \in xfrm_policy_exists(Policy("out", t)) /\ UNCHANGED faults
           \/ seen' = {} /\ Fault
        /\ Continue("list_in")
  /\ UNCHANGED <<system, ends_absent, adapter, added, half_removed>>

\* Mutants: one policy is enough; the policies that are there are taken for the
\* adapter's own; they are not looked at.
ReuseEither(shown) ==
  /\ seen' = shown
  /\ IF shown # {} THEN Ensured(shown) ELSE Continue("add_out")
  /\ UNCHANGED xfrm_block_tunnels
ReuseAndRecord(shown) ==
  /\ seen' = shown
  /\ IF shown = Policies(t)
     THEN Ensured(shown) /\ xfrm_block_tunnels' = xfrm_block_tunnels \cup {t}
     ELSE /\ IF shown = {} THEN Continue("add_out") ELSE Fails
          /\ UNCHANGED xfrm_block_tunnels
AddAnyway(shown) ==
  seen' = shown /\ Continue("add_out") /\ UNCHANGED xfrm_block_tunnels

\* What the two listings show: one policy is a conflict, both are used as they are.
Reuse(shown) ==
  /\ seen' = shown
  /\ IF shown = Policies(t) THEN Ensured(shown)
     ELSE IF shown = {} THEN Continue("add_out")
     ELSE Fails
  /\ UNCHANGED xfrm_block_tunnels

list_in ==
  /\ At("list_in")
  /\ \/ /\ \E found \in xfrm_policy_exists(Policy("in", t)) : Reuse(seen \cup found)
        /\ UNCHANGED faults
     \/ Reuse(seen) /\ Fault
  /\ UNCHANGED <<system, ends_absent, connections_loaded, added, half_removed>>

Add(policy) == policies' = policies \cup {policy} /\ added' = added \cup ({policy} \ policies)

\* ip xfrm policy add, which the kernel refuses for a policy it has; it may also be
\* killed, before or after it took effect.
AddFails(policy) ==
  /\ Fails
  /\ \/ policy \in policies /\ UNCHANGED <<policies, added, faults>>
     \/ policy \notin policies /\ Fault /\ (UNCHANGED <<policies, added>> \/ Add(policy))

add_out ==
  /\ At("add_out")
  /\ \/ Policy("out", t) \notin policies /\ Add(Policy("out", t)) /\ Continue("add_in")
        /\ UNCHANGED faults
     \/ AddFails(Policy("out", t))
  /\ UNCHANGED <<sas, ends_absent, adapter, seen, half_removed>>

\* The second policy completes the block, and the tunnel is recorded if there is room.
add_in ==
  /\ At("add_in")
  /\ \/ /\ Policy("in", t) \notin policies /\ Add(Policy("in", t))
        /\ IF Cardinality(xfrm_block_tunnels) < MaxTunnels
           THEN Ensured(seen) /\ xfrm_block_tunnels' = xfrm_block_tunnels \cup {t}
           ELSE Fails /\ UNCHANGED xfrm_block_tunnels
        /\ UNCHANGED faults
     \/ AddFails(Policy("in", t)) /\ UNCHANGED xfrm_block_tunnels
  /\ UNCHANGED <<sas, ends_absent, connections_loaded, seen, half_removed>>

-----------------------------------------------------------------------------
\* strongswan_remove, of a tunnel the controller has observed
remove_tunnel ==
  /\ At("idle")
  /\ \E old \in observed_tunnels :
       call' = [step |-> "terminate", op |-> "remove", tunnel |-> old, ok |-> TRUE]
  /\ seen' = {}
  /\ UNCHANGED <<system, ends_absent, adapter, outcome, added, half_removed, faults>>

Removed == Return(TRUE) /\ half_removed' = half_removed \ {t}

terminate ==
  /\ At("terminate")
  /\ \/ /\ t \in sas \/ ends_absent
        /\ sas' = sas \ {t} /\ guarded' = guarded \ {t} /\ misread' = misread \ {t}
        /\ IF BlockNonIpsec /\ Recorded
           THEN GoTo("delete_out") /\ UNCHANGED half_removed
           ELSE Removed
        /\ UNCHANGED faults
     \/ /\ t \notin sas /\ ~ ends_absent
        /\ Return(FALSE) /\ UNCHANGED <<sas, guarded, misread, half_removed, faults>>
     \/ /\ sas' \in {sas, sas \ {t}} /\ UNCHANGED <<guarded, misread>>
        /\ Return(FALSE) /\ Fault /\ UNCHANGED half_removed
  /\ UNCHANGED <<policies, ends_absent, adapter, observed_tunnels, seen, added>>

Delete(policy) == policies' = policies \ {policy} /\ added' = added \ {policy}

DeleteFails(policy) ==
  /\ Return(FALSE) /\ half_removed' = half_removed \cup {t}
  /\ \/ policy \notin policies /\ UNCHANGED <<policies, added, faults>>
     \/ policy \in policies /\ Fault /\ (UNCHANGED <<policies, added>> \/ Delete(policy))

\* Mutant: only the outgoing policy is deleted.
AfterDeleteOutDone ==
  Removed /\ xfrm_block_tunnels' = xfrm_block_tunnels \ {t}

AfterDeleteOut ==
  GoTo("delete_in") /\ UNCHANGED <<half_removed, xfrm_block_tunnels>>

\* remove_xfrm_block; the tunnel is on record until both policies are deleted.
delete_out ==
  /\ At("delete_out")
  /\ \/ Policy("out", t) \in policies /\ Delete(Policy("out", t)) /\ AfterDeleteOut
        /\ UNCHANGED faults
     \/ DeleteFails(Policy("out", t)) /\ UNCHANGED xfrm_block_tunnels
  /\ UNCHANGED <<sas, ends_absent, connections_loaded, seen, outcome>>

delete_in ==
  /\ At("delete_in")
  /\ \/ /\ Policy("in", t) \in policies /\ Delete(Policy("in", t))
        /\ Removed /\ xfrm_block_tunnels' = xfrm_block_tunnels \ {t}
        /\ UNCHANGED faults
     \/ DeleteFails(Policy("in", t)) /\ UNCHANGED xfrm_block_tunnels
  /\ UNCHANGED <<sas, ends_absent, connections_loaded, seen, outcome>>

-----------------------------------------------------------------------------
\* An SA goes down without the adapter.
sa_lost ==
  /\ \E down \in sas : sas' = sas \ {down}
  /\ UNCHANGED <<policies, ends_absent, adapter, outcome, call, seen, added, half_removed,
                 faults>>

\* The stream ends, or the daemon stops wherever it is: the next run has an adapter
\* and a controller of its own.
restart ==
  /\ connections_loaded' = FALSE /\ xfrm_block_tunnels' = {} /\ observed_tunnels' = {}
  /\ call' = [step |-> "idle", op |-> "none", tunnel |-> NoTunnel, ok |-> TRUE] /\ seen' = {}
  /\ added' = {} /\ guarded' = {} /\ misread' = {} /\ half_removed' = {}
  /\ UNCHANGED <<system, ends_absent, faults>>

StrongswanNext ==
  \/ ensure_tunnel \/ load_conns \/ initiate \/ list_sas
  \/ list_out \/ list_in \/ add_out \/ add_in
  \/ remove_tunnel \/ terminate \/ delete_out \/ delete_in
  \/ sa_lost \/ restart

StrongswanSpec == StrongswanInit /\ [][StrongswanNext]_svars
-----------------------------------------------------------------------------
(* Properties.                                                             *)

EnsureSteps == {"load", "initiate", "verify", "list_out", "list_in", "add_out", "add_in"}
RemoveSteps == {"terminate", "delete_out", "delete_in"}

\* The adapter has tunnels on record that the controller has seen up, the policies it
\* added are in place, and a call is at a step of its operation.
StrongswanTypeOK ==
  /\ sas \subseteq Tunnels /\ policies \subseteq {"out", "in"} \X Selectors
  /\ connections_loaded \in BOOLEAN /\ ends_absent \in BOOLEAN
  /\ xfrm_block_tunnels \subseteq observed_tunnels /\ observed_tunnels \subseteq Tunnels
  /\ call.step # "idle" => call.tunnel \in Tunnels
  /\ call.step \in CASE call.op = "ensure" -> EnsureSteps \cup {"idle"}
                     [] call.op = "remove" -> RemoveSteps \cup {"idle"}
                     [] call.op = "none" -> {"idle"}
  /\ seen \subseteq {"out", "in"} \X Selectors
  /\ added \subseteq policies /\ guarded \subseteq Tunnels /\ half_removed \subseteq Tunnels
  /\ misread \subseteq guarded
  /\ faults \in 0 .. MaxFaults

\* No other tunnel has the selectors of u.
Alone(u) == \A other \in Tunnels \ {u} : SelectorOf[other] # SelectorOf[u]

\* From the time a tunnel is ensured to the time it is terminated, whether its SA holds
\* or not, no traffic between its selectors leaves or enters in the clear, unless it
\* shares its selectors with another tunnel, its policies once failed to be removed, or
\* it was ensured because the listings showed policies it does not have
\* (apply_xfrm_block, xfrm_policy_exists, remove_xfrm_block).
GuardedIsBlocked ==
  BlockNonIpsec =>
    \A u \in guarded \ (half_removed \cup misread) : Alone(u) => Policies(u) \subseteq policies

\* As docs/security-audit-notes.md:413 has it: also after a block failed to be removed
\* nothing goes on towards letting traffic pass in the clear.
BlockedAfterFailedRemoval ==
  BlockNonIpsec => \A u \in guarded \ misread : Alone(u) => Policies(u) \subseteq policies

\* As docs/security-audit-notes.md:407 has it: policies are reused for a tunnel only if
\* its selectors, the direction, the priority and the action are those of one policy.
ReusedIsInPlace ==
  [][At("list_in") /\ call'.op = "ensure" /\ call'.step = "idle" /\ call'.ok
       => Policies(t) \subseteq policies]_svars

\* A policy that this adapter has not added itself - an operator's, or one of an earlier
\* run - is never deleted (docs/security-audit-notes.md:409).
ForeignPoliciesStay == [][policies \ added \subseteq policies']_svars

\* As long as no command failed by itself, the policies this adapter has added belong
\* to tunnels it has on record between its calls, so that their removal will find them.
AddedIsRecorded ==
  faults = 0 /\ call.step = "idle" =>
    added \subseteq UNION {Policies(u) : u \in xfrm_block_tunnels}

\* As long as no command failed by itself, a tunnel that holds is ensured, whatever
\* policies earlier runs or tunnels with the same selectors have left, unless it has
\* no selectors, exactly one of its policies is in place, or a listing showed a policy
\* it does not have (xfrm_policy_exists).
EnsureSucceeds ==
  faults = 0 /\ call.step = "idle" /\ call.op = "ensure" /\ ~ call.ok =>
    \/ t \notin sas
    \/ SelectorOf[t] = NoSelector
    \/ Policy("out", t) \in policies <=> Policy("in", t) \notin policies
    \/ ~ (seen \subseteq policies)
=============================================================================
