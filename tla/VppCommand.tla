----------------------------- MODULE VppCommand -----------------------------
(***************************************************************************)
(* The command adapter of VPP (src/src/command_adapters.c) under the calls *)
(* a transition makes (src/src/transition.c): a path is installed and      *)
(* removed by a sequence of vppctl commands, each of which may fail after  *)
(* others have taken effect, and VPP, not the adapter, is what forwards.   *)
(*                                                                         *)
(* An installation or removal is the sequence of its commands (`todo`);    *)
(* one step runs one of them.  What VPP does with a command is external.   *)
(* A path has one routing table at all its nodes: a path with several is   *)
(* refused before the first command.                                       *)
(***************************************************************************)
EXTENDS PathIds, CommandLists

CONSTANTS
  Keys,                 \* traffic keys
  Candidates,           \* the paths of each key
  Routes, Gres, Edges,  \* routes, GRE tunnels, edges (interfaces towards a site)
  RoutesOf, GresOf, EdgesOf,  \* of each path, in the order the adapter takes them
  TableOf,              \* the routing table of a path; 0: no table of its own
  Dest,                 \* what a lookup finds a route by: its prefix and its table
  Via, NoGre,           \* the GRE tunnel a route leaves through, if any
  VlanRefused,          \* the edges whose allowed_vlans lack the VLAN
  HasVlan, Deny, Verify,  \* has_vlan_id, deny_unmatched_vlan, verify_route
  RetryCount,           \* transition.retry_count
  MaxFaults             \* bound on the commands and calls that fail by themselves

VARIABLES
  vpp,                  \* VPP: what the commands have made of it
  reports_refusals,     \* vppctl ends with an error when VPP refuses a command
  active,               \* active_paths of the adapter
  applied,              \* applied_paths of the controller
  call,                 \* the transition under way
  faults,               \* failures so far
  torn,                 \* keys whose forwarding was withdrawn and not put back
  littered              \* a transition ended with some key torn

cvars == <<vpp, reports_refusals, active, applied, call, faults, torn, littered>>

PathOrNone == Paths \cup {NoPath}
NoneTwice(s) == \A i, j \in DOMAIN s : s[i] = s[j] => i = j

ASSUME VppAssumption ==
  /\ NoPath \notin Paths /\ NoGre \notin Gres
  /\ Candidates \in [Keys -> SUBSET Paths]
  /\ RoutesOf \in [Paths -> Seq(Routes)] /\ GresOf \in [Paths -> Seq(Gres)]
  /\ \A p \in Paths : NoneTwice(GresOf[p])  \* ensure_vpp_gre_tunnels skips duplicates
  /\ EdgesOf \in [Paths -> Seq(Edges)] /\ TableOf \in [Paths -> Nat]
  /\ DOMAIN Dest = Routes /\ Via \in [Routes -> Gres \cup {NoGre}]
  /\ VlanRefused \subseteq Edges
  /\ {HasVlan, Deny, Verify} \subseteq BOOLEAN /\ (Deny => HasVlan)
  /\ RetryCount \in Nat /\ MaxFaults \in Nat

-----------------------------------------------------------------------------
(* The commands.                                                           *)

\* ensure_vpp_gre_tunnels; address and MTU are one command here.
GreCommands(p) == Each(<<"gre_create", "gre_address", "gre_up">>, GresOf[p])

\* ensure_vpp_vlan_interfaces
VlanCommands(p) == When(HasVlan, Each(<<"vlan_allowed", "sub_create", "sub_up">>, EdgesOf[p]))

\* ensure_vpp_unmatched_vlan_acl.  run_exec_command takes 15 words at most, none
\* with a comma; the command that sets an ACL has more, and a comma.  What follows
\* it is never reached, nor does vpp_remove ever find an ACL to remove.
AclCommands(p) == When(Deny, Each(<<"acl_set">>, EdgesOf[p]))

\* ensure_vpp_route_tables, ensure_vpp_vlan_interface_tables.  The latter refuses
\* an intent without VLAN.
TableCommands(p) ==
  When(TableOf[p] > 0, <<[op |-> "table_add", on |-> TableOf[p]]>>)
  \o <<[op |-> "vlan_known", on |-> p]>>
  \o When(TableOf[p] > 0,
          Each(<<"if_table">>, [i \in DOMAIN EdgesOf[p] |-> <<EdgesOf[p][i], TableOf[p]>>]))

\* The verification of routes, of the first GRE tunnel, and of the subinterfaces.
VerifyCommands(p) ==
  When(Verify, Each(<<"verify_route">>, RoutesOf[p])
               \o Each(<<"verify_gre">>, When(GresOf[p] # <<>>, <<GresOf[p][1]>>))
               \o When(HasVlan, Each(<<"verify_sub">>, EdgesOf[p])))

\* Mutant: the interface is not put into the table of the path.
InstallKeepsTable(p) ==
  GreCommands(p) \o VlanCommands(p) \o AclCommands(p)
  \o When(TableOf[p] > 0, <<[op |-> "table_add", on |-> TableOf[p]]>>)
  \o Each(<<"route_add">>, RoutesOf[p]) \o VerifyCommands(p)

\* Mutant: the routes are added before their table.
InstallRoutesFirst(p) ==
  GreCommands(p) \o VlanCommands(p) \o AclCommands(p)
  \o Each(<<"route_add">>, RoutesOf[p]) \o TableCommands(p) \o VerifyCommands(p)

\* vpp_install, for a path with explicit routes.
InstallCommands(p) ==
  GreCommands(p) \o VlanCommands(p) \o AclCommands(p) \o TableCommands(p)
  \o Each(<<"route_add">>, RoutesOf[p]) \o VerifyCommands(p)

\* Mutant: the GRE tunnels stay.
RemoveKeepsGre(p) == Each(<<"route_del">>, RoutesOf[p])

\* vpp_remove; subinterfaces and tables stay.
RemoveCommands(p) ==
  Each(<<"route_del">>, RoutesOf[p]) \o Each(<<"gre_delete">>, Reversed(GresOf[p]))

-----------------------------------------------------------------------------
(* VPP.  A route names a next hop of its destination; adding and deleting  *)
(* one leaves the other next hops of that destination alone.               *)

Exists == {"exists"}
Works == {"exists", "address", "up"}

Present(c) ==
  CASE c.op \in {"gre_create", "gre_address", "gre_up", "gre_delete", "verify_gre"} ->
         "exists" \in vpp.gre[c.on]
    [] c.op \in {"sub_create", "sub_up", "verify_sub"} -> "exists" \in vpp.sub[c.on]
    [] c.op \in {"route_add", "route_del", "verify_route"} -> c.on \in vpp.fib
    [] c.op = "table_add" -> c.on \in vpp.tables
    [] c.op = "if_table" -> "exists" \in vpp.sub[c.on[1]] /\ c.on[2] \in vpp.tables

Accepts(c) ==
  CASE c.op \in {"gre_create", "sub_create", "table_add"} -> ~ Present(c)
    [] c.op = "route_add" ->
         /\ \E p \in Paths : c.on \in Elements(RoutesOf[p]) /\ TableOf[p] \in vpp.tables
         /\ Via[c.on] # NoGre => "exists" \in vpp.gre[Via[c.on]]
    [] OTHER -> Present(c)

Effect(c) ==
  CASE c.op = "gre_create"  -> [vpp EXCEPT !.gre[c.on] = Exists]
    [] c.op = "gre_address" -> [vpp EXCEPT !.gre[c.on] = @ \cup {"address"}]
    [] c.op = "gre_up"      -> [vpp EXCEPT !.gre[c.on] = @ \cup {"up"}]
    [] c.op = "gre_delete"  -> [vpp EXCEPT !.gre[c.on] = {}]
    [] c.op = "sub_create"  -> [vpp EXCEPT !.sub[c.on] = Exists]
    [] c.op = "sub_up"      -> [vpp EXCEPT !.sub[c.on] = @ \cup {"up"}]
    [] c.op = "table_add"   -> [vpp EXCEPT !.tables = @ \cup {c.on}]
    [] c.op = "if_table"    -> [vpp EXCEPT !.if_table[c.on[1]] = c.on[2]]
    [] c.op = "route_add"   -> [vpp EXCEPT !.fib = @ \cup {c.on}]
    [] c.op = "route_del"   -> [vpp EXCEPT !.fib = @ \ {c.on}]

\* Some next hop of every destination is found, and it leads on.
Forwards(p) ==
  /\ \A r \in Elements(RoutesOf[p]) :
       r \in vpp.fib /\ (Via[r] # NoGre => vpp.gre[Via[r]] = Works)
  /\ HasVlan => \A e \in Elements(EdgesOf[p]) :
                  /\ vpp.sub[e] = {"exists", "up"}
                  /\ TableOf[p] > 0 => vpp.if_table[e] = TableOf[p]

-----------------------------------------------------------------------------
(* Running a command.                                                      *)

Idle == [phase |-> "idle", key |-> CHOOSE k \in Keys : TRUE, target |-> NoPath,
         previous |-> NoPath, attempt |-> 0, todo |-> <<>>, created |-> <<>>,
         undoing |-> FALSE, failed |-> FALSE]

VppInit ==
  /\ vpp = [gre |-> [g \in Gres |-> {}], sub |-> [e \in Edges |-> {}], tables |-> {0},
            if_table |-> [e \in Edges |-> 0], fib |-> {}]
  /\ reports_refusals \in BOOLEAN
  /\ active = [k \in Keys |-> NoPath] /\ applied = [k \in Keys |-> NoPath]
  /\ call = Idle /\ faults = 0
  /\ torn = {} /\ littered = FALSE

Checks == {"vlan_allowed", "vlan_known", "acl_set"}
Verifications == {"verify_route", "verify_gre", "verify_sub"}

\* The digits of n begin with those of id, or are the same; n has ten at most.
BeginsWith(n, id) == n = id \/ \E d \in 1 .. 9 : n \div (10 ^ d) = id

\* `show ip fib` names a table by its number, and the code looks for the number of a
\* table anywhere in the output, whatever digits follow it there.
TableShown(id) == \E n \in vpp.tables : BeginsWith(n, id)

\* What the code looks at before it runs a command: it is taken not to be needed.
Superfluous(c) ==
  \/ c.op = "sub_create" /\ Present(c)
  \/ c.op = "table_add" /\ TableShown(c.on)

\* What the adapter goes on with after a command that did what it should.
Succeeded(c) ==
  [call EXCEPT !.todo = Tail(@),
               !.created = IF c.op = "gre_create" THEN Append(@, c.on) ELSE @]

\* Mutant: all GRE tunnels of the path are undone, created or not.
UndoAll == Reversed(GresOf[call.target])

\* The tunnels ensure_vpp_gre_tunnels has created, the last one first.
Undo == Reversed(call.created)

\* A command that failed ends the call; within ensure_vpp_gre_tunnels what it
\* created is deleted before, and whether that succeeds is not looked at.
Failed(c) ==
  IF call.undoing THEN [call EXCEPT !.todo = Tail(@)]
  ELSE IF c.op \in {"gre_create", "gre_address", "gre_up"}
  THEN [call EXCEPT !.todo = Each(<<"gre_delete">>, Undo), !.undoing = TRUE, !.failed = TRUE]
  ELSE [call EXCEPT !.todo = <<>>, !.failed = TRUE]

Command == Head(call.todo)
Running == call.phase # "idle" /\ call.todo # <<>>

Rest == <<reports_refusals, active, applied, torn, littered>>

\* run_vpp_command
run_vpp_command ==
  /\ Running /\ Command.op \notin Checks \cup Verifications /\ ~ Superfluous(Command)
  /\ \/ Accepts(Command) /\ vpp' = Effect(Command) /\ call' = Succeeded(Command)
     \/ /\ ~ Accepts(Command) /\ vpp' = vpp
        /\ call' = IF reports_refusals THEN Failed(Command) ELSE Succeeded(Command)
  /\ UNCHANGED <<faults, Rest>>

\* vppctl cannot be started, loses its connection, or is killed.
run_vpp_command_fails ==
  /\ Running /\ Command.op \notin Checks \cup Verifications /\ ~ Superfluous(Command)
  /\ faults < MaxFaults /\ faults' = faults + 1
  /\ vpp' = vpp \/ (Accepts(Command) /\ vpp' = Effect(Command))
  /\ call' = Failed(Command)
  /\ UNCHANGED Rest

\* show interface, show ip fib: what seems to be there already is not made again.
skip_command ==
  /\ Running /\ Superfluous(Command)
  /\ call' = Succeeded(Command)
  /\ UNCHANGED <<vpp, faults, Rest>>

\* The conditions the code checks between the commands; the words of acl_set.
check ==
  /\ Running /\ Command.op \in Checks
  /\ call' = IF \/ Command.op = "vlan_allowed" /\ Command.on \notin VlanRefused
                \/ Command.op = "vlan_known" /\ HasVlan
             THEN Succeeded(Command) ELSE Failed(Command)
  /\ UNCHANGED <<vpp, faults, Rest>>

\* verify_vpp_route looks at the first next hop that is listed for the destination.
Verified(c) ==
  CASE c.op = "verify_route" ->
         /\ c.on \in vpp.fib
         /\ Via[c.on] # NoGre => "up" \in vpp.gre[Via[c.on]]
    [] c.op = "verify_gre" -> "up" \in vpp.gre[c.on]
    [] c.op = "verify_sub" -> "up" \in vpp.sub[c.on]

Ambiguous(c) == c.op = "verify_route" /\ \E r \in vpp.fib : r # c.on /\ Dest[r] = Dest[c.on]

verify ==
  /\ Running /\ Command.op \in Verifications
  /\ \/ Verified(Command) /\ call' = Succeeded(Command)
     \/ (~ Verified(Command) \/ Ambiguous(Command)) /\ call' = Failed(Command)
  /\ UNCHANGED <<vpp, faults, Rest>>

\* The output of vppctl cannot be read.
verify_fails ==
  /\ Running /\ Command.op \in Verifications
  /\ faults < MaxFaults /\ faults' = faults + 1
  /\ call' = Failed(Command)
  /\ UNCHANGED <<vpp, Rest>>

-----------------------------------------------------------------------------
(* The calls of a transition, in the order en_transition_path makes them.  *)
(* The calls of strongSwan and of the probe only succeed or fail here.     *)

k == call.key

Install(phase, p) ==
  [call EXCEPT !.phase = phase, !.todo = InstallCommands(p), !.created = <<>>,
               !.undoing = FALSE, !.failed = FALSE]

Remove(phase, p) ==
  [call EXCEPT !.phase = phase, !.todo = RemoveCommands(p), !.undoing = FALSE,
               !.failed = FALSE]

\* rollback: the forwarding of the target is removed first.
Withdraw == call' = Remove("withdraw", call.target) /\ torn' = torn \cup {k}

Ends == call' = Idle /\ littered' = (littered \/ torn' # {})

OtherCallFails == faults < MaxFaults /\ faults' = faults + 1

\* en_transition_path up to the commit; preparation and validation may fail.
switch ==
  /\ call.phase = "idle"
  /\ \E key \in Keys : \E p \in Candidates[key] \ {applied[key]} :
       LET begun == [Idle EXCEPT !.key = key, !.target = p, !.previous = applied[key]]
       IN \/ /\ call' = [begun EXCEPT !.phase = "commit", !.todo = InstallCommands(p)]
             /\ UNCHANGED <<faults, torn>>
          \/ /\ OtherCallFails
             /\ call' = [begun EXCEPT !.phase = "withdraw", !.todo = RemoveCommands(p)]
             /\ torn' = torn \cup {key}
  /\ UNCHANGED <<vpp, reports_refusals, active, applied, littered>>

Returned(phase) == call.phase = phase /\ call.todo = <<>>

\* remember_active_path, en_set_applied_path
Remember(p) ==
  /\ active' = [active EXCEPT ![k] = p]
  /\ applied' = [applied EXCEPT ![k] = p]
  /\ torn' = torn \ {k}

\* forget_active_path
Forget(p) == active' = [active EXCEPT ![k] = IF @ = p THEN NoPath ELSE @]

\* transition_commit_retry
commit ==
  /\ Returned("commit") /\ ~ call.failed
  /\ Remember(call.target)
  /\ call' = [call EXCEPT !.phase = "confirm"]
  /\ UNCHANGED <<vpp, reports_refusals, faults, littered>>

MayRetry == call.attempt < RetryCount

commit_fails ==
  /\ Returned("commit") /\ call.failed
  /\ IF MayRetry
     THEN call' = [Install("commit", call.target) EXCEPT !.attempt = @ + 1] /\ torn' = torn
     ELSE Withdraw
  /\ UNCHANGED <<vpp, reports_refusals, active, applied, faults, littered>>

\* transition_confirm, and the start of transition_cleanup_previous
confirm ==
  /\ call.phase = "confirm"
  /\ \/ /\ active[k] = call.target /\ call.previous # NoPath
        /\ call' = Remove("cleanup", call.previous)
        /\ UNCHANGED <<torn, littered>>
     \/ /\ active[k] = call.target /\ call.previous = NoPath
        /\ torn' = torn /\ Ends
     \/ active[k] # call.target /\ Withdraw /\ littered' = littered
  /\ UNCHANGED <<vpp, reports_refusals, active, applied, faults>>

\* transition_cleanup_previous; removing the tunnels of the previous path may fail.
cleanup ==
  /\ Returned("cleanup")
  /\ \/ /\ ~ call.failed
        /\ Forget(call.previous)
        /\ \/ UNCHANGED <<torn, faults>> /\ Ends
           \/ OtherCallFails /\ Withdraw /\ littered' = littered
     \/ call.failed /\ Withdraw /\ UNCHANGED <<active, faults, littered>>
  /\ UNCHANGED <<vpp, reports_refusals, applied>>

\* Mutant: the previous path is taken to be in place still.
RestoreNothing == UNCHANGED <<active, applied, torn>> /\ Ends

\* rollback, once the target is removed: without a previous path it ends there.
Restore ==
  /\ Forget(call.target)
  /\ UNCHANGED <<applied, torn>>
  /\ IF call.previous = NoPath THEN Ends
     ELSE call' = Install("restore", call.previous) /\ littered' = littered

\* rollback, after remove_path
rollback ==
  /\ Returned("withdraw") /\ ~ call.failed
  /\ Restore
  /\ UNCHANGED <<vpp, reports_refusals, faults>>

\* rollback ends where its first failure occurs: removing or preparing tunnels,
\* removing the target, installing the previous path.
rollback_fails ==
  /\ \/ call.phase \in {"withdraw", "restore"} /\ call.todo = <<>> /\ call.failed
        /\ faults' = faults
     \/ /\ OtherCallFails
        /\ \/ call.phase = "withdraw" /\ call.todo = RemoveCommands(call.target)
           \/ call.phase = "restore" /\ call.todo = InstallCommands(call.previous)
  /\ UNCHANGED <<vpp, reports_refusals, active, applied, torn>>
  /\ Ends

\* rollback, after install_path
rollback_completes ==
  /\ Returned("restore") /\ ~ call.failed
  /\ Remember(call.previous)
  /\ Ends
  /\ UNCHANGED <<vpp, reports_refusals, faults>>

\* The end of a stream: the next one has an adapter of its own.
new_adapter ==
  /\ call.phase = "idle"
  /\ active' = [key \in Keys |-> NoPath]
  /\ UNCHANGED <<vpp, reports_refusals, applied, call, faults, torn, littered>>

VppNext ==
  \/ run_vpp_command \/ run_vpp_command_fails \/ skip_command \/ check
  \/ verify \/ verify_fails
  \/ switch \/ commit \/ commit_fails \/ confirm \/ cleanup
  \/ rollback \/ rollback_fails \/ rollback_completes \/ new_adapter

VppSpec == VppInit /\ [][VppNext]_cvars
-----------------------------------------------------------------------------
(* Properties.                                                             *)

\* The paths of other keys and the other paths of the key.
OtherPaths(key, p) == {q \in Paths : \E other \in Keys :
                         q \in Candidates[other] /\ <<other, q>> # <<key, p>>}

\* No removal or installation for another path touches what the paths of the key
\* need: no common routes, no common GRE tunnels, routes through tunnels of the path
\* itself, and one table wherever keys meet at an edge.
Apart(key) ==
  \A p \in Candidates[key] :
    /\ \A r \in Elements(RoutesOf[p]) : Via[r] \in Elements(GresOf[p]) \cup {NoGre}
    /\ \A q \in OtherPaths(key, p) :
         /\ Elements(RoutesOf[p]) \cap Elements(RoutesOf[q]) = {}
         /\ Elements(GresOf[p]) \cap Elements(GresOf[q]) = {}
    /\ \A other \in Keys \ {key} : \A q \in Candidates[other] :
         \/ TableOf[p] = TableOf[q]
         \/ Elements(EdgesOf[p]) \cap Elements(EdgesOf[q]) = {}

\* The conditions checked between the commands hold for every path of the key.
Admitted(key) ==
  /\ HasVlan /\ ~ Deny
  /\ \A p \in Candidates[key] : Elements(EdgesOf[p]) \cap VlanRefused = {}

\* No two routes have one destination, if one of them belongs to a path of the key:
\* the verification cannot take another next hop for theirs.
ToldApart(key) ==
  \A p \in Candidates[key] : \A q \in Paths :
    \A i \in DOMAIN RoutesOf[p] : \A j \in DOMAIN RoutesOf[q] :
      Dest[RoutesOf[p][i]] = Dest[RoutesOf[q][j]] => p = q /\ i = j

\* No other table is taken for the table of the path when that is to be added.
TableKnown(p) ==
  TableOf[p] > 0 =>
    \A n \in {0} \cup {TableOf[q] : q \in Paths} : BeginsWith(n, TableOf[p]) => n = TableOf[p]
TablesKnown(key) == \A p \in Candidates[key] : TableKnown(p)

\* Nothing but a failing command or call can stop a transition of the key.
Unhindered(key) == Apart(key) /\ TablesKnown(key) /\ Admitted(key) /\ ToldApart(key)

\* Between transitions the path the controller records is the one VPP forwards
\* over, with its routes, tunnels, interfaces and table, whatever failed before,
\* unless a rollback failed (vpp_install, vpp_remove, rollback).  For keys without
\* anything in common and with tables no other is taken for.
AppliedForwards ==
  call.phase = "idle" =>
    \A key \in Keys \ torn :
      applied[key] # NoPath /\ Apart(key) /\ TablesKnown(key) => Forwards(applied[key])

\* An installation, also one that fails and is undone, takes away no GRE tunnel that
\* it has not created itself, if vppctl reports that a tunnel exists already: the
\* previous path and the other keys go on (the created_count of
\* ensure_vpp_gre_tunnels).
InstallKeepsTunnels ==
  [][reports_refusals /\ call.phase \in {"commit", "restore"} =>
       \A g \in Gres :
         vpp.gre[g] = Works /\ g \notin Elements(call.created) => vpp'.gre[g] = Works]_cvars

\* As long as every rollback completed, VPP has no routes and GRE tunnels but those of
\* the applied paths, however many commands failed, with or without their effect
\* (remove_vpp_gre_tunnels, the undo of ensure_vpp_gre_tunnels).
NothingLeft ==
  call.phase = "idle" /\ ~ littered =>
    /\ vpp.fib \subseteq UNION {Elements(RoutesOf[p]) : p \in {applied[key] : key \in Keys} \cap Paths}
    /\ {g \in Gres : vpp.gre[g] # {}} \subseteq
         UNION {Elements(GresOf[p]) : p \in {applied[key] : key \in Keys} \cap Paths}

\* One failure, wherever it happens, never leaves an unhindered key without forwarding,
\* if vppctl accepts that what a rollback removes or makes is absent or there already
\* (rollback).
OneFailureRestores ==
  call.phase = "idle" /\ faults <= 1 /\ ~ reports_refusals =>
    \A key \in Keys :
      applied[key] # NoPath /\ Unhindered(key) => Forwards(applied[key])

\* Without a failure the switches of an unhindered key complete, even if vppctl
\* reports what is refused: nothing is created twice, used before it is there or
\* removed when it is gone (vpp_install, vpp_remove; docs/yaml-routes.md:390).  A key
\* is hindered, too, where the table of a path may be left out because another one
\* begins with its digits (ensure_vpp_route_tables).
CleanSwitchCompletes ==
  faults = 0 => \A key \in torn : ~ Unhindered(key)
=============================================================================
