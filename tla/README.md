# Ibuki in TLA+

Ibuki is an event-driven controller for multi-path VPNs. Sites are joined by
IPsec tunnels (strongSwan), a path is a chain of tunnels, and VPP forwards the
traffic of an *intent* over one path. The controller observes the health of
the candidate paths, selects one, and moves the traffic to it with a
transition that can be retried and rolled back. This directory holds TLA+
models of that program, the instances TLC checks, and proofs TLAPS checks.

## The system

| Part | Source | State | Operations |
|---|---|---|---|
| Path transition | `src/src/transition.c` | applied path per traffic key, observed tunnels, operational state per path | `en_transition_path`: prepare, ready, commit, confirm, clean-up, rollback |
| Controller | `src/src/controller.c`, `state.c` | the tables above, health table, error log | `en_controller_submit_intent` |
| Path selection | `src/src/path_selection.c` | none | `en_select_path`: exclusion, comparison, hysteresis |
| Health table | `src/src/health_probe.c` | latest health per path | `en_health_probe_mock_set` (merge), `validate_path` (query) |
| Telemetry | `src/src/telemetry.c`, observers | none | one JSON line to one record |
| Command adapters | `src/src/command_adapters.c` | remembered paths, block policies added | ensure and remove tunnels, install and remove forwarding by `swanctl`, `ip xfrm`, `vppctl` |
| VPP API adapter | `src/src/vpp_api_adapter.c`, `vpp_api_transport.c` | created routes | the operations of one path, with undo |
| VICI client | `src/src/strongswan_vici_client.c` | connection, event capture | monitor of child SAs, events on a watcher thread |
| Apply plan | `src/src/apply_plan.c`, `src/examples/yaml_demo.c` | none | build a list of commands, run it, undo it, or write it as a script |
| Daemon | `src/examples/eventnetd.c` | health table, state file, signals | telemetry stream, sockets, reload, persist and restore |
| Agent | `src/examples/eventnet_agent.c` | counters of successes and failures in a row | probe a path, write a record |
| Configuration | `src/src/yaml_config.c` | the arrays of items, the parser's context | read a line, fill in what was left out, validate |
| Planners, scripts | `netns_plan.c`, `scripts/` | none | text in, text out |

How they interact. The agent measures a path and writes telemetry. The daemon
reads it record by record, merges a batch into the health table, and submits
its intent to the controller, once per batch. The controller asks the health
table for each candidate, selects a path and, if it is not the applied one,
calls the two adapters of the transition one after the other. The daemon then
writes the applied path to its state file. All of this is one thread, except
VICI events, which a library thread delivers. Between two runs of the daemon
only the state file and the network itself survive. `yaml_demo` is the other
program: it reads the same configuration, plans the commands of each intent's
path, and runs them at once or leaves them in a script.

What is hard about it is not concurrency in the process but the sequence of
calls into a network that may refuse any of them: which of the two tables, the
controller's and the network's, is right after a partial failure; what a
rollback may assume; what several thresholds, timers and limits do to each
other over time; what two traffic keys do to each other when their paths share
tunnels; and what a restart forgets. `PROJECT.json` lists these hazards with
their lines.

## Modules

| Module | Models | Extends |
|---|---|---|
| `Transition` | `en_controller_submit_intent` from the selection on, and `en_transition_path` | `PathIds` |
| `PathTransaction` | what a transition promises to the traffic (abstract) | |
| `TransitionRefinement` | the mapping of the first to the second | `Transition` |
| `PathSelection` | `en_select_path` as operators | `PathIds` |
| `Controller` | the loop: measurements, submission, selection, transition, time | `Transition`, `PathSelection` |
| `ControllerLoop` | one intent per key, submitted over and over to adapters that work | `Controller` |
| `HealthStore` | agent, observers, the stream, and the merge into the health table | |
| `Eventnetd` | the daemon: streams, batches, state file, signals, crash and restart | `PathSelection` |
| `VppCommand` | the VPP half of the command adapter, command by command, under the calls of a transition | `PathIds`, `CommandLists` |
| `StrongswanCommand` | the strongSwan half: SAs by `swanctl`, block policies by `ip xfrm` | |
| `ApplyPlan` | the plan of an intent, its run with undo, and its script | `PathIds`, `CommandLists` |
| `YamlConfig` | the line parser, the filling in and the validation of the configuration | |
| `PathIds`, `CommandLists` | identifiers and lists of commands they share | |
| `ControllerProofs`, `HealthStoreProofs`, `EventnetdProofs`, `StrongswanProofs`, `VppProofs`, `ApplyPlanProofs`, `YamlProofs` | theorems about the module of that name; the first also about `Transition`, `PathSelection` and the refinement | |
| `ListProofs` | lemmas about lists of commands, for `VppProofs` and `ApplyPlanProofs` | `CommandLists` |
| `MCTransition`, `MCController`, `MCControllerLoop`, `MCHealthStore`, `MCEventnetd`, `MCVppCommand`, `MCStrongswanCommand`, `MCApplyPlan`, `MCYamlConfig` | instances | |

### Transition

The state is the part of `en_controller_state_t` the transition writes
(`applied_paths`, `observed_tunnels`, `operational_state`, `transition_state`,
`errors`), the network behind the adapters (`established` tunnels,
`active_paths` of the forwarding) and the running call (`pc`, its arguments,
`attempt`, `segment`). `last_result` is not in the code: it notes how the last
call for each key ended, so that properties can speak of it.

Each adapter call is an action, and a loop over segments takes one step per
segment, because a failure may come between any two of them. A failed call may
have done its work or not (`ensure_tunnel_fails`, `AfterFailedInstall`,
`remove_tunnel_fails`). Which candidate is selected is left open here. The
interfaces of VPP, the names in the audit log and the texts of errors are left
out; of the error log only ROLLBACK_FAILED is kept, since the clean-up
properties depend on it.

`PathTransaction` says in five actions what the traffic may rely on: a
transition is a transaction on the path of one traffic key. It commits, or
restores the previous path, or reports that it broke the key. The refinement
maps the stable path of the key under transition to `rollback_path_id`,
because `applied_paths` names the target already between commit and clean-up.

### PathSelection and Controller

`PathSelection` has one operator per reason for exclusion and per mode. Its
input is an intent and a *view*: the applied path, the time since it was
applied, the health table, the standby and the enabled paths. Metrics are integers.

`Controller` closes the loop. `measure` is the agent: it keeps two counters
per path, as `eventnet_agent.c` does, saturating at `MaxStreak`. `submit_intent`
copies the reports of the observed candidates into the health table, selects
and starts a transition; `validate` is the ready phase, which asks for the
health of the target again; `apply` is the phases that record a path as
applied and so restart the hold-down timer; `work` is every other phase.
`Tick` lets time pass, up to the longest hold-down time of any intent. It only goes
forward, while `en_now_ms` reads the wall clock: set back, that makes the elapsed time
negative, and the hold-down does not apply (`path_selection.c:146`). A report may change between any two steps, also within a submission:
with the command backend the probe measures when it is asked.

`ControllerLoop` asks where that loop ends up: each key keeps one intent, as
`run_stream` does, adapter calls do not fail, and what is measured is arbitrary.

### HealthStore

The table of the daemon has one entry per path, and several senders write it:
the agent its measurements, the observers of tunnels, routes and interfaces
their events. `sent` keeps every record, and `read` may take any of them at any
time and any number of times: the stream delays, repeats, reorders and loses.
`measure`, `restart_agent` and `observe` are the senders; `read`, `skip` and
`merge` are the loop of `run_stream`, one step per record of a batch, and
`open_stream` is the end of a stream and the beginning of the next, which
forgets the table. `Merged` is `en_health_probe_mock_set`: a record that is
older by time, or by the sequence number of the same source at the same time,
is dropped; an observation updates its half of the entry and derives the state
from both halves; any other record replaces the entry but for the observations.
`validate_path` is what the controller is answered. `applied` and `late` are
histories. A full table is left out, as is everything the parser refuses.

`Controller` does not use this module: there every report of a path is the
latest one, which is what `LatestWins` establishes here for measurements.

### Eventnetd

`at` is where the process is: down, at the top of one of the loops of `main` and
`run_socket`, in a call that blocks, or within `run_stream`, from the restored
state file over the lines of a batch to the submission, the switch and the two
steps of saving. `mode` stands for the options: a file or standard input, a
socket connection by connection, a socket whose connections are gathered first,
reload in intervals, reload on SIGHUP. What survives the process is `outside`:
the YAML file (`yaml`), the state file, a temporary file left behind, and the
path the forwarding follows. `run_stream_returns` is every way a stream ends:
its controller and its table are destroyed, and the connection, the round or
the process ends with it. The selection is that of `PathSelection`, over the
configuration in force (`config`), and the transition, which `Transition`
shows step by step, is one step with the outcomes of `PathTransaction`: it
completes, is undone, or breaks and leaves the forwarding on any path it touched.

`sigterm` has two outcomes where a call blocks, since the flag is checked before
the call: a signal between the two is not noticed until the call returns.
`save_fails` covers a temporary file of the same process id that a killed
process left. `crash` may happen at any step, `edit` replaces or spoils the
YAML file at any time. The model assumes `--state-file`, the command backend,
whose forwarding outlives the process, and one traffic key, as the daemon
submits one intent. `torn` is a history: the daemon was killed, or a rollback or
a save failed, while the state file and the forwarding differed.

### VppCommand

`Transition` takes the installation of a path as one call; here it is the
sequence of `vppctl` commands that `vpp_install` and `vpp_remove` run
(`InstallCommands`, `RemoveCommands`), one command a step (`call.todo`). `vpp` is
what they have made of VPP: tunnels, subinterfaces, tables, routes. A command
that fails by itself (`run_vpp_command_fails`) may have taken effect; one that
VPP refuses (`Accepts`), because what it makes is there or what it needs is not,
has none. Whether `vppctl` then ends with an error is open (`reports_refusals`):
the adapter looks at its exit status only, and nothing in the repository says.
The queries that decide whether a command is needed (`skip_command`) are translated
with what they accept: the table of a path is looked for as a text in `show ip fib`, so
that another one whose number begins with the same digits is taken for it (`TableShown`). They, the
conditions between the commands (`check`) and the verification (`verify`) are
steps of their own. `Failed` is the undo of GRE tunnels within
`ensure_vpp_gre_tunnels`. `switch` to `rollback_completes` are the calls of
`transition.c` that reach this adapter; the tunnels of strongSwan and the probe
only succeed or fail. Deleting a route leaves other next hops of its destination
alone.

The command that sets an ACL for unmatched VLANs is a `check` that fails: its
words are refused by `run_exec_command`, so no path with an edge is ever
installed under `deny_unmatched_vlan` and there is never an ACL to remove. Left
out: the dry run, the templates, paths without explicit routes, the table of
active paths being full, and the platform without `fork`. A path has one table at
all its nodes, address and MTU of a tunnel are one command, and `show interface`
of an interface VPP does not have is taken not to name it.

### StrongswanCommand

`transition.c` calls `ensure_tunnel` and `remove_tunnel`; here a call may be made
of any tunnel whenever none is under way, but only a tunnel the controller has
seen up is removed. `ensure_tunnel` loads the connections once, initiates the SA,
looks for it (`list_sas`), and blocks its selectors outside of IPsec: the two
listings of the kernel's policies, then the two additions. `remove_tunnel`
terminates the SA and deletes the two policies. Each command is a step and may
fail by itself. `policies` outlives the adapter, so it starts with any set of
policies left by operators and earlier runs, and `restart` may come between any
two commands. Whether `swanctl` reports the end of an SA that is not there as an
error is open (`ends_absent`).

The listing is read as the code reads it (`xfrm_policy_exists`): from the selector of the
policy looked for to the next blank line, of which `ip xfrm policy list` prints none. A block policy
that is there is found. One that is not is found too if the selector is in the listing, for
instance as that of the tunnel's own IPsec policy, and some block comes after it. In
which order the kernel lists policies and which IPsec policies strongSwan has
installed is left open, so any listing that shows a block at all may be misread. `seen` is what
the two listings of a call have shown. `added`, `guarded`, `misread` (ensured over
policies that are not there) and `half_removed` are histories.

### ApplyPlan

`Plan` is the list of commands `en_apply_plan_from_config_with_file` makes of an
intent: SAs, GRE tunnels, policies, routes; `Undo` what `en_apply_plan_run` runs
when one of them fails, from the command before it back to the first. `by` is the
program's option: `--apply` plans and runs one intent after the other and undoes a
plan that fails; `--emit-script` writes the plan and the rollback commands of the
last intent for someone to run by hand. A list that leaves some elements of another
out (`GreOf`, `FirstOccurrences`, `TakenBack`) is made of the places that stay,
which is what a loop with `continue` does. A command may fail by
itself, with or without effect (`stray` is what such a command left), or be refused
by what it finds.

### YamlConfig

A line is a record of its indentation, a dash or none, a key and a value; the
parser's state is the section (`top`), the open list or mapping (`context`), the
item begun last in each section (`current`) and the last segment and route, the
static locals of `en_yaml_config_load_file`. The actions from `section_line` to
`intent_line` are the branches that function takes for a line, in the order of the code; an array that is full, a token
that is refused and a number that does not parse end in `refused`.
`yaml_normalize` and `en_yaml_config_validate` are operators on the whole. Beside
them `meant` is read by indentation alone: it is what a file that follows the layout of
`docs/yaml-routes.md` says, and the reference for what the parser made of it. `Enclosing`
are the open blocks that a line does not close, `Meaning` what it says in them. Which lines may stand under which blocks is a
set of each line (`under`); `LayoutAssumption` says in six forms (`SectionLine` to `ListLine`) what
such a set may hold, and thereby what the documented layout is for lines of any
indentation, keys and values.

## Runs

| Run | Question | States |
|---|---|---|
| `transition` | two keys, disjoint tunnels, one retry, every call may fail | 729k |
| `transition_faults` | installations that report success without effect, a full tunnel table; a call ends | 496k |
| `controller_live` | thresholds and hold-down by priority, failover and failback | 25k |
| `controller_quality` | failover and no oscillation by latency, with hysteresis and a limit | 26k |
| `health` | agent and observers, records late, repeated, lost and out of order | 825k |
| `eventnetd` | every mode, killed and restarted at any step, saves and switches that fail | 126k |
| `vpp_command` | three keys, two failures anywhere between the commands of installation, clean-up and rollback | 1.69M |
| `strongswan_command` | four tunnels, any policies found, misread listings, two failures, lost SAs and restarts at any step | 7.0M |
| `apply_plan` | intents with common tunnels, selectors and none, two failures, as run and as script | 23k |
| `yaml_config` | files of any length and order of lines about paths, tunnels, intents, nodes and edges | 1.15M |
| `block_lost_after_removal` | a violation: a tunnel whose block failed to be removed is ensured without it | |
| `block_reused_unseen` | a violation: a tunnel is ensured over the block of another one | |

What they show:

* `AppliedIsActive`: after a completed or rolled back transition the recorded
  path is the one the traffic follows. It needs the confirm phase: with silent
  installations it still holds for completed transitions, and not for rolled
  back ones, since the rollback confirms nothing.
* `AppliedIsCarried`, `MakeBeforeBreak`, `SwitchToReadyPath`,
  `OtherKeysKeepTunnels`: the tunnels of the path in use stay up, the target is
  complete before the traffic is moved, and a key does not take tunnels from
  another. All but the third need traffic keys that share no tunnels
  (`KeysDisjoint`): `remove_unshared_tunnels` compares the two paths of its own key only.
* `NoOrphanTunnels`: nothing that was recorded is left over, as long as every
  rollback did its work. A tunnel that came up in a call that failed is not
  recorded, and does stay up.
* `ImplementsTransaction`: the refinement above, whatever tunnels are shared.
* `HoldsDown`, `ToleratesFailures`: the timer and the threshold hold against any
  timing of reports, by a clock that is not set back. The run has adapters that work
  (`LoopSpec`); the theorems `HoldDownKept` and `FailuresTolerated` are about `ControllerSpec`,
  whose adapters fail as well.
* `FailsOver`, `FailsBack`, `Settles`: the loop converges.
* `LatestWins`, `AsNewAsApplied`: whatever the stream does to the records, and
  though sequence numbers start anew with the agent, the entry of a path is the
  latest measurement that arrived while the agent speaks alone, and as new as
  the newest record in any case.
* `ObservedHealthyNeedsBoth`: on a VLAN a path is healthy only while its route
  and its interface were last heard to be up, provided that the observers are
  alone and none of their events is late. Neither condition can be dropped: a
  late event is taken for stale though it speaks of the other half, and a
  measurement overrides what was observed.
* `FileNamesActive`: at rest the state file names the path the traffic follows,
  except after the failures `torn` notes, and until a later switch completes.
* `NeverForwardsToDisabled`: neither a switch nor a rollback moves traffic to a
  path the configuration in force disables; this rests on the check of
  `restore_state`, since a rollback asks no one.
* `StreamKeepsHealthyPath`: a stream does not forget what a line said when later
  lines speak of other paths. Across streams it does: with the options of the
  service unit each connection has a controller of its own and ends after one
  line, so a line about one path is judged against paths of which nothing is
  known, hold-down and recovery start anew, and the tunnels of the path that is
  left are not known to be up and stay behind.
* `TermStops`: a signal that comes just before a call blocks is noticed later,
  but it is noticed, unless the daemon waits for SIGHUP.
* `AppliedForwards`: between transitions VPP has every route, tunnel, interface
  and table of the applied path, unless a rollback failed. It speaks of keys with tables that
  no other is taken for (`TablesKnown`), and whose
  paths are `Apart` from those of other keys and from each other: the clean-up of
  the previous path deletes whatever it names, so no routes and GRE tunnels may be
  common, no route may lead through a tunnel its path does not have, and two keys
  that meet at an edge must share its table.
* `OneFailureRestores`: a single failure makes no rollback fail, for keys that are
  `Unhindered`: apart, with tables no other is taken for, no condition between the commands that refuses one of
  their paths, and with routes the verification can tell apart. It also needs a
  `vppctl` that does not report refusals, since a rollback deletes routes never
  added and a repeated installation creates tunnels that exist.
* `InstallKeepsTunnels`, `NothingLeft`: the undo of a failed installation removes
  what it created, no less and no more. What a second failure, in the undo itself,
  leaves behind is on a path of the transition, whose removal or
  repeated installation takes it up again; so nothing is left by any number of failures as
  long as every rollback completes.
* `CleanSwitchCompletes`: the order of the commands is one that works, on an empty
  VPP and beside the paths of other keys, again for keys that are unhindered: a path
  that gives one destination two next hops never passes the verification, and a path of table 3
  is refused while there is a table 30 and no table 3, as the third key of the run is.
* `GuardedIsBlocked`: from the end of `ensure_tunnel` to the termination of the
  SA, and also when the SA is lost, the selectors of the tunnel are blocked
  outside of IPsec, for tunnels that share them with no other and were not
  ensured over a misread listing.
* `ForeignPoliciesStay`, `AddedIsRecorded`, `EnsureSucceeds`: the adapter deletes
  only policies it added, finds those again, and copes with what earlier runs
  left. One of two policies left by others is refused, and so is a tunnel of which the
  listings seem to show one.
* `CompletedInPlace`, `RouteIsCarried`: the plan of a later intent takes nothing
  from an earlier one, and at no time, also during an undo, does a route lead
  into a tunnel that is not there or not blocked. The second speaks of intents whose
  routes no other intent has (`OwnRoutes`): of two intents of one path a script puts
  only the last in place, and with it routes of the first without its policies.
* `UndoneLeavesNothing`, `ScriptTakenBack`: after an undo the system is what it was before, but for what the
  failing command itself did, and for what the intent had in common with earlier
  ones, which is undone with it. The rollback commands of a script take back that as well.
* `YamlTypeOK`, `OnlyNewestChanges`: no line is stored beyond an array, into an item
  that was not begun, or into an older item of its section, but for fields
  of `segments` and `routes` before the first element of the list.
* `ParsedAsMeant`: whatever the order of the lines, a file in the documented
  layout is read as indented, but for fields of `path_selection` after its constraints.
* `LoadedIsUsable`: what the other parts take for granted of a configuration.

Two runs are findings. `block_lost_after_removal`: a tunnel on record is taken to be blocked
without a look at the kernel, also when its removal deleted one policy and failed
at the other. `block_reused_unseen`: `docs/security-audit-notes.md:407` has policies reused
only if selector, direction, priority and action are those of one policy, but the search goes
on over the policies behind it (`command_adapters.c:456`), so that a tunnel may be ensured with
one of its policies missing, or both, and nothing having failed.

Where the code departs otherwise from its documentation or from what one would
expect is a premise of a property and is noted with the hazard, at its line:

* the clean-up of one traffic key removes a tunnel another key uses (`transition.c:319`);
* the recovery threshold does not apply to a path once a switch back to it was
  rolled back, as only STANDBY paths are looked at (`transition.c:147`, `docs/yaml-routes.md:407`);
* SIGTERM does not stop a daemon that waits for SIGHUP (`eventnetd.c:1209`,
  `docs/scenario-vs-production.md:15`);
* an intent with `deny_unmatched_vlan` cannot be installed by the command backend, as
  the words of the ACL command are refused (`command_adapters.c:345`, `docs/yaml-routes.md:390`), and a path with
  explicit routes not for an intent without VLAN (`command_adapters.c:741`), which
  the example of `docs/shell-commands.md:91` shows;
* the table of a path is not added, and its routes are refused, while there is another table
  whose number begins with its digits (`command_adapters.c:636`), where
  `docs/yaml-routes.md:221` has every table made that is not there;
* after a first transition that was rolled back the controller reports idle with
  nothing installed (`transition.c:292`);
* a measurement makes a VLAN path healthy whose interface is down (`health_probe.c:101`).

`ToleratesFailures` speaks of paths that meet the constraints of the intent. A packet
loss limit is one of them: a failed probe reports a loss of 100 percent, so under such a
limit the path is left at once, whatever the threshold (`path_selection.c:167`).

### Bounds

Two traffic keys are enough for one to disturb the other; each has two or three
paths of at most two segments, so that a path can share none, some or all of
its tunnels with another and a loop over segments can stop half-way. One retry
shows a phase that is repeated after a partial failure, two are used where the
count matters. Streaks stop at 2, equal to the thresholds, and a hold-down
takes one tick: what matters is whether a threshold is reached. The
`Controller` runs have one key, as selection and its timers are per key. The
health table is checked with one path, since a record reads and writes the entry
of its own path only; three records of four kinds at three times are enough to
have each half of the entry reported and one report out of order, batches of two
have a record merged after a later one was read, and with `MaxAge` 1 a record
can become too old. The daemon has two paths, one of which a
configuration may disable, batches of two lines, so that a stream can end within
one, no limit on the lines of a stream, and a budget of one reconnection. The keys of `VppCommand` have two, three
and one
path: two that meet at an edge but have nothing else in common, and three to one
destination, two of them over a common tunnel and one over an edge closed to the
VLAN, and one that is apart from all others but whose table is 3, where the first path of the first key has
table 30. Two failures are one during an installation and one during its rollback or
undo. The tunnels of `StrongswanCommand` are one with selectors of its own, two that share
theirs, and one without. The plans of `ApplyPlan` are of one to three intents over
six paths, chosen so that two have a tunnel, or selectors, or nothing in common, a path has
a tunnel twice, two routes, or no route, and is that of two intents. The files of `YamlConfig` have no bound on their
length, but arrays hold one or two items, paths and intents three together (`MCBound`), and
each is made of the lines of one vocabulary:
values are one that is valid, one that is taken, and one each that is empty, refused or too long.

### Fairness

`FairSpec` assumes weak fairness of `Continue`, the steps of a running call:
the controller is single-threaded, has no locks and sleeps for bounded times,
so a call goes on as long as the adapter calls return. `LoopSpec` assumes
the same of calls whose adapters do not fail, that intents are submitted over and
over (the daemon submits once per batch of telemetry), that the agent keeps
counting (`recount`: a report of the same state, which is what thresholds wait
for), and that time passes. Nothing is assumed of what is measured.
`ServedSpec` assumes of the daemon that its own steps go on, that agents connect
again and again, and that an open connection brings lines or is closed; nothing
of SIGHUP, which the operator may never send. The other specifications have no fairness.

## Proofs

The theorems hold for every set of keys, paths and
tunnels, every retry count, table size and intent, and any number of records, failures
and restarts, under `TransitionAssumption`, `ControllerAssumption`, `HealthStoreAssumption`,
`EventnetdAssumption`, `StrongswanAssumption`, `VppAssumption`, `PlanAssumption`,
`YamlAssumption` and `LayoutAssumption`, which TLC evaluates in the runs.

* `TypeCorrect`: `Spec => []TypeOK`. `CallOK` is stronger than types: a phase
  that restores a previous path has one.
* `AppliedPathIsActive`: `Spec => []AppliedIsActive`. The property speaks of
  keys at rest only, so it is strengthened by `CallForwardingOK`: from the
  commit on the record names the target, after the confirmation the forwarding
  follows it, and the clean-up cannot change that. `OnlyItsKey` shows that a
  step of a call touches no other key, and carries the property over to all
  other keys.
* `SwitchesToReadyPath` from `ReadyInv`: while a path is prepared the tunnels of the
  segments passed are up, and the clean-up spares those of the target.
* `AppliedPathIsCarried`, `MakesBeforeItBreaks` from `CarriedInv`: where no two
  keys share a tunnel, the paths a key has on record are its candidates, so what
  a call takes down is on no other key's path; and within the key
  `remove_unshared_tunnels` spares what the other path needs. `SwitchKeepsOtherTunnels` is an
  action property of the same kind, from `CandidateInv`.
* `NoTunnelIsLeft` from `OrphanInv`, which says for every phase of a call to which
  of its two paths a recorded tunnel may belong. It needs no disjoint keys.
* `TransitionIsTransaction`: every step of `Transition` is, under the mapping of
  `TransitionRefinement`, a step of `PathTransaction` or none, for tables of
  applied paths that suffice and installations that are not silently without effect.
* `SelectedIsEligible`: the selected path is a candidate and is not excluded,
  for every mode; so hysteresis never brings back an excluded path.
* `ControllerTransits`: `ControllerSpec => Spec`. Everything proved about the
  transition holds for the controller in its loop.
* `ControllerTypeCorrect`, `HoldDownKept`: `ControllerSpec => HoldsDown`, from
  `SelectedIsEligible`.
* `FailuresTolerated`: `ControllerSpec => ToleratesFailures`, and `HealthyPathKept`:
  `EventnetdSpec => StreamKeepsHealthyPath`, from `FirstUsableIsPreferred`, by priority nothing
  behind a candidate that is not excluded is selected; the second also from
  `HeardOK`, what was heard is in the table.

* `HealthTypeCorrect`, `EntryAsNewAsApplied`, `LatestMeasurementWins`, `HealthyNeedsBoth`, from what
  one merge does to the type and the time of an entry (`MergedType`,
  `MergedTime`). The invariants are strengthened by `UnknownAtFirst`, an entry
  without records gives way to any, and `SourceMeasures`, what comes from the
  agent has a sequence number and no observations. For `HealthyNeedsBoth` it is
  `HeardLast`: as no event was late, each half of the entry is a newest event of the route or
  the interface, and the state is healthy only if neither half is failed.
* `EventnetdTypeCorrect`, `StateFileNamesActive`, `NothingMovedToDisabled`, from
  one inductive invariant. `FileNamesActive` speaks of the daemon at rest; in
  `SavedOK` it says what holds during the saving, and `StreamOK` says that what
  a stream takes for applied is what the file names, is enabled, and is
  forgotten when the stream ends. That the target is enabled is
  `SelectedIsEligible`.

* `StrongswanTypeCorrect`, `PoliciesOfOthersStay`, `GuardedStaysBlocked`,
  `AddedStaysRecorded`, `EnsureOfTunnelSucceeds`. `RecordInv`: what is in place of
  the policies of a recorded tunnel was added by this adapter, and only recorded
  tunnels get to the deletions. `BlockInv`: a recorded tunnel is blocked until the
  deletion of its first policy, and by then it counts as terminated; one that was ensured
  without a record is, or is among the misread. `FaultlessInv`:
  a policy the listings did not show is not there at the additions, and there is room
  to record the tunnel.

* `VppTyping`, `VppInstalls`, `VppForwards`, `VppKeepsTunnels`, `VppLeavesNothing`,
  `VppOneFailure`, `VppCleanSwitch`: every property of the run `vpp_command`, for any
  paths, edges, routes and tunnels and any number of failures. They rest on what the
  command lists are: `InstallList` and `RemoveList` say which commands they
  have, `Supplied` that each command finds what it needs among those before it.
  - `BaseInv` is the type and, in `TodoInv`, that the commands left are an end of
    the list of the call under way.
  - `InstallInv`: while nothing has failed, what the commands left do not make is
    made, and each of them will find what it needs (`Progress`), if the path is `Provided` for: its
    routes lead through its own tunnels, and its table is there when it is shown (`ShownIfThere`,
    `ThereIfShown`). At the empty list this is
    `Forwards`. `AppliedInv` carries that over the rest of the transition, where
    `ApartSpares` shows that the commands of other paths touch nothing of it.
  - `RemoveInv` and `LeftInv`: every route and every tunnel in VPP belongs to an
    applied path, or to one the transition under way involves, and behind the
    commands of a removal nothing of its path is left.
  - `OneInv`: a transition that is being taken back has had its one failure;
    `Unstopped` says that nothing else stops the call of an unhindered key.
  - `CleanInv`: without a failure VPP has nothing of a path that is neither applied
    nor involved, and of the target just what the commands run so far have made. As no
    command is twice in its list (`InstallOnce`, `RemoveOnce`), each creates what is
    not there and deletes what is.

  The proof corrected the model and the properties. A removal that failed in a rollback was
  taken for an undo, if a tunnel creation had been undone before. GRE tunnels
  are listed once per path, which is an assumption now. `Apart` looked only at
  the paths of other keys, and not at routes through tunnels of other paths.

* `PlanCompletedInPlace`, `PlanUndoneLeavesNothing`, `PlanScriptTakenBack`,
  `PlanRouteIsCarried`: every property of the run `apply_plan`, for any paths, lists of
  intents and number of failures. First, what the lists are: `PlanList`
  (the commands of a plan, a tunnel created before it has an address, the routes
  last), `UndoList` and `RollbackList` (all that can be taken back, the routes first).
  They rest on `ListProofs`. The elements at some places of a list are found by counting the
  places (`RankCounts`), so none of it needs an induction. One invariant, `PlanInv`, gives all four:
  - `ListInv`: `done` is the beginning of the plan, `todo` the rest of it or
    what is left to take back, the routes first. `CallInv`: which program is in
    which phase and what it may answer.
  - `OriginInv`: what is in place was there before the plan, is of a command that
    succeeded or of the one that failed, and is of an intent up to the one under way. `WholeInv`:
    an address has its tunnel. With these the undo of a `create` that finds nothing leaves nothing.
  - `KeptInv`, `EarlierInv`: what was done, what was there before and what earlier
    intents need stays. A refused `create` is the one command that may be passed over
    (`BeginsSupplies`: the others find what they need), and what it is for is there.
  - `UndoInv`: what is left to take back covers all that is to go, so that nothing
    is left at the end of it. `CarryInv`: while a route of the intent is there, all it
    leads into is; once a command other than a route is taken back there is
    no route left.

  The proof corrected `RouteIsCarried`: two intents may have one path and
  differ in what they block, and then a route does not tell whose it is. Hence `OwnRoutes`.

* `YamlStoresInPlace`, `YamlChangesNewest`, `YamlLoadedUsable`, for lines with any
  indentation, keys and values in any order, and arrays of any size. `ReadInv` says more than
  the type: every item has the lists of its section, an open list or mapping has an
  item to be stored in, and the last segment or route is one of the newest
  path as soon as that has any (`Newest`). `LoadedInv` has what the validation
  checked, and that the default route was made (`HasRoute`), which the validation does
  not look at.
* `YamlParsedAsMeant`: the same, for files whose lines stand where `LayoutAssumption` says. That
  `config` is what the indentation says is not inductive: a line goes where the context,
  the item and the element send it, which the line before has left. `MeaningInv` therefore relates the
  parser to the open blocks, while the file is in the layout. `StackInv`: a section is open, then
  its item, then what is deeper. `IntentStack`: which blocks can
  nest in an intent (`IntentBlock`), and that the innermost list or mapping is the context, with the
  mapping and the indentation of its key if it is a list (`InnerContext`); so a line that closes the list
  returns to the mapping it stands in (`MappingContext`).
  `ListStack`: a list open in another item is the context, and its last element the
  segment or route that deeper lines go to. There is one lemma for each form of line, from
  `SectionMeant` to `IntentListMeant`. In the proof of `MappingContext` constraints that are
  open inside a `path_selection` are the one case in which the context is not the mapping the line stands in:
  the exception `Lost` of the property is needed, and of the lines of the layout it is the only one.
  Outside of it are fields of a path as deep as those of its segments, and intents that begin
  with a list or mapping, which the documentation does not show.

The type invariants of `Controller`, `HealthStore`, `Eventnetd` and
`StrongswanCommand` are proved and no longer among the properties of the runs.

Only model-checked: the liveness properties, as fairness and ENABLED are out of reach of the
prover. Every invariant of the passing runs is the property of a theorem.

## Not modelled

* The VPP API adapter: no program of the repository uses it, only its tests do.
* The VICI client and the event monitor of the daemon: what can go wrong is
  decided by the threads and locks of libvici, which are outside of the repository.
* Topology and audit log: validation of static input and two ring buffers of text.
* The observers: command output to one event, without state. `HealthStore` takes
  their events as inputs.
* The scenario runner, the namespace planner, the scripts: offline tools and test
  drivers without state between two inputs.
* Within what is modelled, the left out parts are named with each module above.

## Plan

1. The composition of `Transition` with `StrongswanCommand` and `VppCommand`: both
   adapters under one call, with tunnels that are up but not recorded.
2. `Eventnetd` over `Transition`: the tunnels a restart forgets.
