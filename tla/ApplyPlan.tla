----------------------------- MODULE ApplyPlan ------------------------------
(***************************************************************************)
(* The plan of a path (src/src/apply_plan.c) and the two ways it is run    *)
(* (src/examples/yaml_demo.c): --apply plans, writes and runs one intent   *)
(* after the other and undoes what a failing plan did; --emit-script       *)
(* leaves a script, and a list of rollback commands for whoever runs it.   *)
(*                                                                         *)
(* `system` is the set of what the commands have put in place: one fact    *)
(* for each SA, GRE tunnel with address and state, policy and route.       *)
(* strongSwan, VPP and the kernel are external.                            *)
(***************************************************************************)
EXTENDS PathIds, CommandLists

CONSTANTS
  Gres,              \* the tunnels of type gre_over_ipsec
  SegmentsOf,        \* of each path: the tunnels of its segments
  RoutesOf,          \* of each path: its routes, the one yaml_normalize adds included
  OwnEgress,         \* the routes that name their next hop and their interface
  SelectorOf,        \* of each tunnel: its traffic selectors, or NoSelector
  NoSelector,
  NoTunnel,
  IntentLists,       \* the intents of a configuration: sequences of [path, block]
  MaxFaults          \* bound on the commands that fail by themselves

Tunnels == UNION {Elements(SegmentsOf[p]) : p \in Paths}

ASSUME PlanAssumption ==
  /\ NoTunnel \notin Tunnels /\ Gres \subseteq Tunnels
  /\ SegmentsOf \in [Paths -> Seq(Tunnels)]
  /\ DOMAIN RoutesOf = Paths /\ \A p \in Paths : RoutesOf[p] \in Seq(Elements(RoutesOf[p]))
  /\ DOMAIN SelectorOf = Tunnels
  /\ \A list \in IntentLists : list \in Seq([path : Paths, block : BOOLEAN]) /\ list # <<>>
  /\ MaxFaults \in Nat

VARIABLES
  intents,           \* the intents to be put in place
  by,                \* what runs the plan: "apply" or "script"
  reports_refusals,  \* vppctl ends with an error when VPP refuses a command
  phase,
  at,                \* the intent under way
  todo,              \* the commands still to run: [op, on] and whether it takes back
  done,              \* the commands of the plan that succeeded
  system,
  before,            \* system when the plan was started
  stray,             \* what commands have put in place that then failed
  undo_failed,       \* an undo command failed
  faults,
  result             \* what the run returns

pvars == <<intents, by, reports_refusals, phase, at, todo, done, system, before, stray,
           undo_failed, faults, result>>
-----------------------------------------------------------------------------
(* The plan.                                                               *)

GreOf(p) ==
  AtPlaces(SegmentsOf[p], {i \in DOMAIN SegmentsOf[p] : SegmentsOf[p][i] \in Gres})

\* en_route_resolve_tunnel_egress with the first GRE tunnel of the path: what the
\* route does not name is that of the tunnel.
Egress(p, r) ==
  <<r, IF r \in OwnEgress \/ GreOf(p) = <<>> THEN NoTunnel ELSE GreOf(p)[1]>>

RouteArguments(p) == [i \in DOMAIN RoutesOf[p] |-> Egress(p, RoutesOf[p][i])]
Selectors(p) == [i \in DOMAIN SegmentsOf[p] |-> SelectorOf[SegmentsOf[p][i]]]

\* append_tunnel_conf: the connections of the file, one for the tunnel of each segment.
Connections(p) == Elements(SegmentsOf[p])

\* A plan is refused for a path without a route, or if traffic is to be blocked
\* between selectors a tunnel does not have.
Refused(intent) ==
  \/ RoutesOf[intent.path] = <<>>
  \/ intent.block /\ NoSelector \in Elements(Selectors(intent.path))

\* Mutant: only the first route is added.
PlanOneRoute(intent) ==
  LET p == intent.path
  IN <<[op |-> "load", on |-> p]>> \o Each(<<"initiate">>, SegmentsOf[p])
     \o Each(<<"create", "address", "up">>, FirstOccurrences(GreOf(p)))
     \o When(intent.block, Each(<<"block_out", "block_in">>, Selectors(p)))
     \o Each(<<"route">>, SubSeq(RouteArguments(p), 1, 1))

\* Mutant: the policies come last.
PlanBlocksLast(intent) ==
  LET p == intent.path
  IN <<[op |-> "load", on |-> p]>> \o Each(<<"initiate">>, SegmentsOf[p])
     \o Each(<<"create", "address", "up">>, FirstOccurrences(GreOf(p)))
     \o Each(<<"route">>, RouteArguments(p))
     \o When(intent.block, Each(<<"block_out", "block_in">>, Selectors(p)))

\* en_apply_plan_from_config_with_file: commands.  Address and MTU are one command
\* here.  A tunnel of several segments has one GRE interface, but is initiated, and
\* its selectors are blocked, once for each.
Plan(intent) ==
  LET p == intent.path
  IN <<[op |-> "load", on |-> p]>> \o Each(<<"initiate">>, SegmentsOf[p])
     \o Each(<<"create", "address", "up">>, FirstOccurrences(GreOf(p)))
     \o When(intent.block, Each(<<"block_out", "block_in">>, Selectors(p)))
     \o Each(<<"route">>, RouteArguments(p))

\* Mutant: the policies stay.
RollbackKeepsPolicies(intent) ==
  LET p == intent.path
  IN Each(<<"route">>, Reversed(RouteArguments(p)))
     \o Each(<<"create">>, FirstOccurrences(Reversed(GreOf(p))))
     \o Each(<<"initiate">>, Reversed(SegmentsOf[p]))

\* rollback_commands: each takes back what the operation of its name does.
RollbackCommands(intent) ==
  LET p == intent.path
  IN Each(<<"route">>, Reversed(RouteArguments(p)))
     \o Each(<<"create">>, FirstOccurrences(Reversed(GreOf(p))))
     \o Each(<<"initiate">>, Reversed(SegmentsOf[p]))
     \o When(intent.block, Each(<<"block_out", "block_in">>, Reversed(Selectors(p))))

\* command_has_rollback
HasRollback(c) == c.op \in {"initiate", "create", "block_out", "block_in", "route"}

TakenBack(commands) ==
  AtPlaces(commands, {i \in DOMAIN commands : HasRollback(commands[i])})

\* Mutant: the command before the failing one is not undone.
UndoMissesOne(commands) == TakenBack(Reversed(SubSeq(commands, 1, Len(commands) - 1)))

\* The commands before the failing one, the last one first.
Undo(commands) == TakenBack(Reversed(commands))
-----------------------------------------------------------------------------
(* What the commands do.                                                   *)

Fact(c) == <<c.op, c.on>>
Loaded == {<<"load", t>> : t \in Tunnels}
ByVppctl(c) == c.op \in {"create", "address", "up", "route"}

Adds(c) ==
  IF c.op = "load" THEN {<<"load", t>> : t \in Connections(c.on)} ELSE {Fact(c)}

\* swanctl --load-conns unloads the connections the file does not have.
After(c) == (IF c.op = "load" THEN system \ Loaded ELSE system) \cup Adds(c)

AfterUndo(c) ==
  system \ (IF c.op = "create" THEN {<<o, c.on>> : o \in {"create", "address", "up"}}
            ELSE {Fact(c)})

Accepts(c) ==
  CASE c.op = "load" -> TRUE
    [] c.op = "initiate" -> <<"load", c.on>> \in system
    [] c.op \in {"create", "block_out", "block_in"} -> Fact(c) \notin system
    [] c.op \in {"address", "up"} -> <<"create", c.on>> \in system
    [] c.op = "route" -> c.on[2] # NoTunnel => <<"create", c.on[2]>> \in system
-----------------------------------------------------------------------------
(* Running it.                                                             *)

Intent == intents[at]
Command == Head(todo)

PlanInit ==
  /\ intents \in IntentLists /\ by \in {"apply", "script"}
  /\ reports_refusals \in BOOLEAN
  /\ phase = "plan" /\ at = 1 /\ todo = <<>> /\ done = <<>>
  /\ system = {} /\ before = {} /\ stray = {}
  /\ undo_failed = FALSE /\ faults = 0 /\ result = "none"

Chosen == <<intents, by, reports_refusals>>

MoreIntents == at < Len(intents)

\* yaml_demo: the next intent is planned, its connections are written and its plan is
\* run; a script is written anew for each intent, and what remains is the last one.
plan ==
  /\ phase = "plan" /\ ~ Refused(Intent)
  /\ IF by = "script" /\ MoreIntents
     THEN phase' = "plan" /\ at' = at + 1 /\ todo' = todo /\ before' = before
     ELSE phase' = "run" /\ at' = at /\ todo' = Plan(Intent) /\ before' = system
  /\ done' = <<>>
  /\ UNCHANGED <<Chosen, system, stray, undo_failed, faults, result>>

\* en_apply_plan_from_config_with_file refuses, or the file cannot be written.
plan_fails ==
  /\ phase = "plan"
  /\ \/ Refused(Intent) /\ faults' = faults
     \/ faults < MaxFaults /\ faults' = faults + 1
  /\ phase' = "ended" /\ result' = "not_planned"
  /\ UNCHANGED <<Chosen, at, todo, done, system, before, stray, undo_failed>>

\* The plan goes on behind a command that ended without an error.
GoOn == todo' = Tail(todo) /\ done' = Append(done, Command)

\* A command that ended with an error: the run undoes, the script stops (set -eu).
Stop ==
  /\ done' = done
  /\ IF by = "apply" THEN phase' = "undo" /\ todo' = Undo(done)
     ELSE phase' = "stopped" /\ todo' = <<>>

\* run_plan_command_without_shell
run_command ==
  /\ phase = "run" /\ todo # <<>>
  /\ \/ Accepts(Command) /\ system' = After(Command) /\ phase' = phase /\ GoOn
     \/ /\ ~ Accepts(Command) /\ system' = system
        /\ IF ByVppctl(Command) /\ ~ reports_refusals THEN phase' = phase /\ GoOn ELSE Stop
  /\ UNCHANGED <<Chosen, at, before, stray, undo_failed, faults, result>>

\* The command cannot be started, is killed, or fails with or without its effect.
run_command_fails ==
  /\ phase = "run" /\ todo # <<>>
  /\ faults < MaxFaults /\ faults' = faults + 1
  /\ \/ system' = system /\ stray' = stray
     \/ /\ Accepts(Command) /\ system' = After(Command)
        /\ stray' = stray \cup (Adds(Command) \ Loaded)
  /\ Stop
  /\ UNCHANGED <<Chosen, at, before, undo_failed, result>>

\* The last command of the plan has succeeded.
run_completes ==
  /\ phase = "run" /\ todo = <<>>
  /\ IF by = "apply" /\ MoreIntents
     THEN phase' = "plan" /\ at' = at + 1
     ELSE phase' = (IF by = "apply" THEN "ended" ELSE "stopped") /\ at' = at
  /\ UNCHANGED <<Chosen, todo, done, system, before, stray, undo_failed, faults, result>>

\* The commands of undo, or those the operator runs after the script.  One that fails
\* does not keep the others from running.
undo_command ==
  /\ phase \in {"undo", "manual"} /\ todo # <<>>
  /\ LET there == Fact(Command) \in system
         failed == ~ there /\ (ByVppctl(Command) => reports_refusals)
     IN /\ system' = IF there THEN AfterUndo(Command) ELSE system
        /\ undo_failed' = (undo_failed \/ (phase = "undo" /\ failed))
        /\ todo' = Tail(todo)
  /\ UNCHANGED <<Chosen, phase, at, done, before, stray, faults, result>>

undo_command_fails ==
  /\ phase \in {"undo", "manual"} /\ todo # <<>>
  /\ faults < MaxFaults /\ faults' = faults + 1
  /\ system' \in {system, AfterUndo(Command)}
  /\ undo_failed' = TRUE
  /\ todo' = Tail(todo)
  /\ UNCHANGED <<Chosen, phase, at, done, before, stray, result>>

\* en_apply_plan_run returns, and with it yaml_demo.
undo_completes ==
  /\ phase = "undo" /\ todo = <<>>
  /\ phase' = "ended"
  /\ result' = IF undo_failed THEN "rollback_failed" ELSE "conflict"
  /\ UNCHANGED <<Chosen, at, todo, done, system, before, stray, undo_failed, faults>>

\* The operator keeps what the script did, or runs the rollback commands it lists.
operator ==
  /\ phase = "stopped"
  /\ \/ phase' = "ended" /\ todo' = todo
     \/ phase' = "manual" /\ todo' = RollbackCommands(Intent)
  /\ UNCHANGED <<Chosen, at, done, system, before, stray, undo_failed, faults, result>>

manual_completes ==
  /\ phase = "manual" /\ todo = <<>>
  /\ phase' = "ended" /\ result' = "rolled_back"
  /\ UNCHANGED <<Chosen, at, todo, done, system, before, stray, undo_failed, faults>>

PlanNext ==
  \/ plan \/ plan_fails \/ run_command \/ run_command_fails \/ run_completes
  \/ undo_command \/ undo_command_fails \/ undo_completes \/ operator \/ manual_completes

PlanSpec == PlanInit /\ [][PlanNext]_pvars
-----------------------------------------------------------------------------
(* Properties.                                                             *)

\* What an intent needs to be in place.
Needs(intent) ==
  LET p == intent.path
  IN {<<"initiate", t>> : t \in Elements(SegmentsOf[p])}
     \cup {<<o, t>> : o \in {"create", "address", "up"}, t \in Elements(GreOf(p))}
     \cup {<<"route", Egress(p, r)>> : r \in Elements(RoutesOf[p])}
     \cup (IF intent.block
           THEN {<<o, s>> : o \in {"block_out", "block_in"}, s \in Elements(Selectors(p))}
           ELSE {})

RoutesIn(facts) == {f \in facts : f[1] = "route"}

\* An intent whose plan completed stays in place while later ones are planned and run:
\* its SAs, GRE tunnels, policies and routes are all there, also those it has in
\* common with another intent or with another of its segments (the commands of
\* en_apply_plan_from_config_with_file).
CompletedInPlace ==
  by = "apply" /\ (phase \in {"plan", "run"} \/ (phase = "ended" /\ result = "none")) =>
    \A i \in 1 .. (IF phase = "ended" THEN at ELSE at - 1) : Needs(intents[i]) \subseteq system

\* What is in place by commands that succeeded.
InPlace == system \ stray

\* The intent under way has nothing in common with what was in place before.
Fresh == before \cap Needs(Intent) = {}

\* A plan that fails and reports that it was undone leaves what was in place before
\* it as it was, and nothing of its own but what the failing command did before it
\* failed (the undo in en_apply_plan_run: that command is not undone).
UndoneLeavesNothing ==
  result = "conflict" /\ Fresh => InPlace \ Loaded = before \ Loaded

\* The rollback commands of the script take back all of it, wherever the script
\* stopped, what a failing command did included (rollback_commands).
ScriptTakenBack ==
  result = "rolled_back" /\ ~ undo_failed => system \subseteq Loaded

\* No other intent has a route of this one.
OwnRoutes(i) ==
  \A j \in DOMAIN intents \ {i} :
    RoutesIn(Needs(intents[i])) \cap RoutesIn(Needs(intents[j])) = {}

\* While a plan is run or taken back, a route of a command that succeeded is there
\* only while all it leads into is: the SAs of its path, the GRE interface with its
\* address, up, and the policies in both directions of an intent that blocks what is not
\* protected (the order of the commands and of their undo).
RouteIsCarried ==
  ~ undo_failed /\ Fresh =>
    \A i \in DOMAIN intents :
      OwnRoutes(i) /\ RoutesIn(Needs(intents[i]) \cap InPlace) # {} =>
        Needs(intents[i]) \ RoutesIn(Needs(intents[i])) \subseteq system
=============================================================================
