----------------------------- MODULE Eventnetd -----------------------------
(***************************************************************************)
(* The daemon around the controller (src/examples/eventnetd.c): it         *)
(* reads telemetry line by line, submits its intent once per batch, writes *)
(* the path to its state file, reads that file again for every stream, and *)
(* is killed, stopped, started and given new configurations at any time.   *)
(*                                                                         *)
(* One stream has a controller of its own.  Its selection is               *)
(* PathSelection; its transition, which Transition shows in detail, is one *)
(* step here with the outcomes PathTransaction allows.  The health table   *)
(* takes the lines as they come; HealthStore shows what else it does.      *)
(***************************************************************************)
EXTENDS PathSelection, FiniteSets

CONSTANTS
  Intent,      \* the intent of the daemon
  Lines,       \* what a line of telemetry may say of its path
  Configs,     \* the sets of paths the operator may enable in the YAML file
  NoConfig,    \* a YAML file that cannot be loaded
  Modes,       \* how the daemon may be started, a subset of AllModes
  Count,       \* --count, 0 for no limit
  BatchSize, RetryBudget   \* --batch-size, --socket-retry-count

VARIABLES
  (* what survives the process *)
  yaml,        \* the paths the YAML file enables, or NoConfig
  state_file,  \* the path the state file names; NoPath if there is no file
  temporary,   \* a temporary state file has the name this process would use
  active,      \* the path the forwarding follows
  (* main and run_socket *)
  mode, at, config, shutdown, reconnect_attempt,
  (* run_stream *)
  applied, standby, elapsed, table, lines, iteration, succeeded, target,
  (* histories *)
  torn,        \* the state file and the forwarding may have parted
  heard        \* the paths whose last line in this stream said healthy

outside == <<yaml, state_file, temporary, active>>
process == <<mode, config, shutdown, reconnect_attempt>>
stream  == <<applied, standby, elapsed, table, lines, iteration, succeeded, target, heard>>
evars   == <<outside, process, at, stream, torn>>

\* A file or standard input; a socket served connection by connection; a socket
\* whose connections are gathered first (--socket-accept-count, also parallel);
\* --reload-config; --reload-on-sighup.
AllModes == {"file", "socket", "gathered", "reload", "sighup"}

PathOrNone == Paths \cup {NoPath}

ASSUME EventnetdAssumption ==
  /\ NoPath \notin Paths /\ NoConfig \notin Configs
  /\ Configs \subseteq SUBSET Paths
  /\ Intent.mode \in {"explicit", "priority", "evaluated"}
  /\ Intent.candidates \in Seq(Paths)
  /\ Intent.mode = "explicit" => Intent.path_id \in Paths
  /\ Intent.hold_down_ms \in Nat
  /\ Modes \subseteq AllModes
  /\ Count \in Nat /\ BatchSize \in Nat \ {0} /\ RetryBudget \in Nat

\* set_unknown_health
Unknown ==
  [state |-> "failed", rtt_ms |-> 0, packet_loss_percent |-> 100,
   failures |-> 0, successes |-> 0]

Places ==
  {"down", "stopped",          \* ended with an error; ended for good
   "waiting", "accepting", "awaiting_signal", "restoring",
   "reading", "blocked",        \* at the top of the loop over lines; in fgets
   "submitting", "switching", "saving", "renaming"}

Running == at \notin {"down", "stopped"}

EventnetdInit ==
  /\ yaml \in Configs /\ state_file = NoPath /\ temporary = FALSE /\ active = NoPath
  /\ mode \in Modes /\ at = "down" /\ config = {} /\ shutdown = FALSE
  /\ reconnect_attempt = 0
  /\ applied = NoPath /\ standby = {} /\ elapsed = 0
  /\ table = [p \in Paths |-> Unknown]
  /\ lines = 0 /\ iteration = 0 /\ succeeded = FALSE /\ target = NoPath
  /\ torn = FALSE /\ heard = {}

-----------------------------------------------------------------------------
(* The ends of a stream and of the process.                                *)

\* en_controller_destroy, and the locals of run_stream.
Destroy ==
  /\ applied' = NoPath /\ standby' = {} /\ elapsed' = 0
  /\ table' = [p \in Paths |-> Unknown]
  /\ lines' = 0 /\ iteration' = 0 /\ succeeded' = FALSE /\ target' = NoPath
  /\ heard' = {}

\* A process that is told to stop is not started again when it fails.
Exit(status) ==
  /\ at' = IF status = 0 \/ shutdown THEN "stopped" ELSE "down"
  /\ reconnect_attempt' = 0

MayReconnect == mode = "socket" /\ reconnect_attempt < RetryBudget

\* The modes that loop over connections or rounds; they may be limited in number.
Looping == mode \in {"socket", "reload", "sighup"}

StreamSucceeds ==
  \/ Exit(0)
  \/ /\ Looping
     /\ at' = "waiting" /\ reconnect_attempt' = 0

StreamFails ==
  \/ /\ MayReconnect
     /\ at' = "waiting" /\ reconnect_attempt' = reconnect_attempt + 1
  \/ ~MayReconnect /\ Exit(1)

run_stream_returns(status) ==
  /\ Destroy
  /\ IF status = 0 THEN StreamSucceeds ELSE StreamFails
  /\ UNCHANGED <<mode, config, shutdown>>

-----------------------------------------------------------------------------
(* main and run_socket.                                                    *)

\* A new process may or may not get the pid of one that left a file behind.
start ==
  /\ ~Running /\ yaml # NoConfig
  /\ config' = yaml
  /\ temporary' \in {temporary, FALSE}
  /\ at' = "waiting" /\ shutdown' = FALSE
  /\ UNCHANGED <<yaml, state_file, active, mode, reconnect_attempt, stream, torn>>

\* A reload that fails keeps the configuration.
reload == config' = IF yaml # NoConfig THEN yaml ELSE config

\* The top of the loop over connections or rounds.
wait ==
  /\ at = "waiting" /\ ~(Looping /\ shutdown)
  /\ at' = CASE mode \in {"socket", "gathered"} -> "accepting"
             [] mode = "sighup" -> "awaiting_signal"
             [] mode \in {"file", "reload"} -> "restoring"
  /\ IF mode = "reload" THEN reload ELSE UNCHANGED config
  /\ UNCHANGED <<outside, mode, shutdown, reconnect_attempt, stream, torn>>

leave_loop ==
  /\ at = "waiting" /\ Looping /\ shutdown
  /\ Exit(0)
  /\ UNCHANGED <<outside, mode, config, shutdown, stream, torn>>

\* A connection comes in; in mode gathered, all have come in and have closed.
accept ==
  /\ at = "accepting"
  /\ at' = "restoring"
  /\ UNCHANGED <<outside, process, stream, torn>>

\* A peer with another uid, too much input, or a timeout.
accept_fails ==
  /\ at = "accepting"
  /\ Exit(1)
  /\ UNCHANGED <<outside, mode, config, shutdown, stream, torn>>

sighup ==
  /\ at = "awaiting_signal"
  /\ reload
  /\ at' = "restoring"
  /\ UNCHANGED <<outside, mode, shutdown, reconnect_attempt, stream, torn>>

\* Where the process is once the handler has set the flag.  A call that blocks is
\* interrupted, unless it had not begun when the signal came; accept leaves the
\* loop then.  The loop that waits for SIGHUP sleeps on.
Interrupted ==
  CASE at = "accepting" -> {"stopped", "accepting"}
    [] at = "blocked"   -> {"reading", "blocked"}
    [] at \notin {"accepting", "blocked"} -> {at}

sigterm ==
  /\ Running /\ ~shutdown
  /\ shutdown' = TRUE
  /\ at' \in Interrupted
  /\ reconnect_attempt' = IF at' = "stopped" THEN 0 ELSE reconnect_attempt
  /\ UNCHANGED <<outside, mode, config, stream, torn>>

-----------------------------------------------------------------------------
(* run_stream.                                                             *)

StreamCount ==
  CASE mode \in {"reload", "sighup"} -> 1
    [] mode = "gathered" -> 0
    [] mode \in {"file", "socket"} -> Count

\* Mutant: the state file is believed.
RestorableAny == TRUE

Restorable ==
  \/ state_file = NoPath
  \/ state_file \in Selectable(Intent) \cap config /\ path_nodes_enabled(state_file)

restore_state ==
  /\ at = "restoring" /\ Restorable
  /\ applied' = state_file
  /\ at' = "reading"
  /\ UNCHANGED <<outside, process, standby, elapsed, table, lines, iteration,
                 succeeded, target, torn, heard>>

\* The file names a path the stream may not follow, or cannot be opened.
restore_fails ==
  /\ at = "restoring"
  /\ run_stream_returns(1)
  /\ UNCHANGED <<outside, torn>>

\* Mutant: the signal is not looked at.
ContinueOnSignal == StreamCount = 0 \/ iteration < StreamCount

Continue == ~shutdown /\ (StreamCount = 0 \/ iteration < StreamCount)

next_line ==
  /\ at = "reading" /\ Continue
  /\ at' = "blocked"
  /\ UNCHANGED <<outside, process, stream, torn>>

\* Mutant: every line starts a new table.
TableOfLine(p, h) == [[q \in Paths |-> Unknown] EXCEPT ![p] = h]

TableWith(p, h) == [table EXCEPT ![p] = h]

\* A line for p; the batch is submitted once it is full.  Without a limit the
\* iterations are not counted.
read_line(p, h) ==
  /\ at = "blocked"
  /\ table' = TableWith(p, h)
  /\ heard' = IF Usable(h) THEN heard \cup {p} ELSE heard \ {p}
  /\ IF lines + 1 >= BatchSize
       THEN /\ lines' = 0 /\ at' = "submitting"
            /\ iteration' = IF StreamCount = 0 THEN 0 ELSE iteration + 1
       ELSE lines' = lines + 1 /\ at' = "reading" /\ UNCHANGED iteration
  /\ UNCHANGED <<outside, process, applied, standby, elapsed, succeeded, target, torn>>

\* A line that is too old.
skip_line ==
  /\ at = "blocked"
  /\ at' = "reading"
  /\ UNCHANGED <<outside, process, stream, torn>>

\* A line that does not parse, or that speaks of what is not in the YAML file.
reject_line ==
  /\ at = "blocked"
  /\ run_stream_returns(1)
  /\ UNCHANGED <<outside, torn>>

\* The input ends, or enough was read, or the process is told to stop.
StreamEnds ==
  /\ run_stream_returns(IF succeeded /\ (StreamCount = 0 \/ iteration >= StreamCount \/ shutdown)
                          THEN 0 ELSE 1)
  /\ UNCHANGED <<outside, torn>>

end_of_input  == at = "blocked" /\ StreamEnds
end_of_stream == at = "reading" /\ ~Continue /\ StreamEnds

Tick ==
  /\ at = "blocked" /\ elapsed < Intent.hold_down_ms
  /\ elapsed' = elapsed + 1
  /\ UNCHANGED <<outside, process, at, applied, standby, table, lines, iteration,
                 succeeded, target, torn, heard>>

View ==
  [active |-> applied, elapsed |-> elapsed, health |-> table, standby |-> standby,
   enabled |-> config]

\* No candidate: the daemon waits for the next batch.
submit ==
  /\ at = "submitting"
  /\ \E p \in {en_select_path(Intent, View)} :
       /\ at' = CASE p = NoPath -> "reading"
                  [] p # NoPath /\ p = applied -> "saving"
                  [] p # NoPath /\ p # applied -> "switching"
       /\ target' = p
  /\ UNCHANGED <<outside, process, applied, standby, elapsed, table, lines,
                 iteration, succeeded, torn, heard>>

-----------------------------------------------------------------------------
(* en_transition_path: PathTransaction's Commit, Restore and Break.        *)

switch_completes ==
  /\ at = "switching"
  /\ active' = target /\ applied' = target /\ elapsed' = 0
  /\ standby' = (standby \cup {applied}) \ {target, NoPath}
  /\ at' = "saving" /\ torn' = FALSE
  /\ UNCHANGED <<yaml, state_file, temporary, process, table, lines, iteration,
                 succeeded, target, heard>>

\* Mutant: the rollback does not bring back the previous path.
WithdrawnOnly == IF active = target \/ active = applied THEN NoPath ELSE active

\* Without a previous path a rollback can only withdraw the target.
Withdrawn ==
  IF applied # NoPath THEN applied
  ELSE IF active = target THEN NoPath ELSE active

switch_undone ==
  /\ at = "switching"
  /\ active' = Withdrawn
  /\ run_stream_returns(1)
  /\ UNCHANGED <<yaml, state_file, temporary, torn>>

Midway == {active, applied, target, NoPath}

switch_breaks ==
  /\ at = "switching"
  /\ active' \in Midway
  /\ torn' = TRUE
  /\ run_stream_returns(1)
  /\ UNCHANGED <<yaml, state_file, temporary>>

-----------------------------------------------------------------------------
(* persist_state: a new file is written under a name of its own and then   *)
(* renamed.                                                                *)

Unsaved == torn \/ state_file # target

save ==
  /\ at = "saving" /\ ~temporary
  /\ temporary' = TRUE /\ at' = "renaming"
  /\ UNCHANGED <<yaml, state_file, active, process, stream, torn>>

\* Also when the file exists; then it is unlinked.
save_fails ==
  /\ at = "saving"
  /\ temporary' = FALSE /\ torn' = Unsaved
  /\ run_stream_returns(1)
  /\ UNCHANGED <<yaml, state_file, active>>

rename ==
  /\ at = "renaming"
  /\ state_file' = target /\ temporary' = FALSE
  /\ succeeded' = TRUE /\ target' = NoPath
  /\ at' = "reading"
  /\ UNCHANGED <<yaml, active, process, applied, standby, elapsed, table, lines,
                 iteration, torn, heard>>

rename_fails ==
  /\ at = "renaming"
  /\ temporary' = FALSE /\ torn' = Unsaved
  /\ run_stream_returns(1)
  /\ UNCHANGED <<yaml, state_file, active>>

-----------------------------------------------------------------------------
(* The operator, and a process that is killed.                             *)

edit ==
  /\ yaml' \in (Configs \cup {NoConfig}) \ {yaml}
  /\ UNCHANGED <<state_file, temporary, active, process, at, stream, torn>>

crash ==
  /\ Running
  /\ active' \in IF at = "switching" THEN Midway ELSE {active}
  /\ torn' = CASE at = "switching" -> TRUE
               [] at \in {"saving", "renaming"} -> Unsaved
               [] at \notin {"switching", "saving", "renaming"} -> torn
  /\ Destroy
  /\ at' = "down" /\ reconnect_attempt' = 0
  /\ UNCHANGED <<yaml, state_file, temporary, mode, config, shutdown>>

\* What the daemon does by itself, and what it waits for.
Proceed ==
  \/ wait \/ leave_loop \/ restore_state \/ restore_fails \/ next_line \/ end_of_stream
  \/ submit \/ switch_completes \/ switch_undone \/ switch_breaks
  \/ save \/ save_fails \/ rename \/ rename_fails

Telemetry ==
  \/ \E p \in Paths, h \in Lines : read_line(p, h)
  \/ skip_line \/ reject_line \/ end_of_input

EventnetdNext ==
  \/ start \/ Proceed \/ Telemetry \/ Tick \/ accept \/ accept_fails \/ sighup
  \/ sigterm \/ edit \/ crash

EventnetdSpec == EventnetdInit /\ [][EventnetdNext]_evars

\* Calls return, agents connect over and over, and an open connection brings
\* lines or is closed.
ServedSpec ==
  EventnetdSpec /\ WF_evars(Proceed) /\ WF_evars(Telemetry) /\ WF_evars(accept)

-----------------------------------------------------------------------------
(* Properties.                                                             *)

EventnetdTypeOK ==
  /\ yaml \in {NoConfig} \cup SUBSET Paths /\ config \subseteq Paths
  /\ {state_file, active, applied, target} \subseteq PathOrNone
  /\ {temporary, shutdown, succeeded, torn} \subseteq BOOLEAN
  /\ mode \in AllModes /\ at \in Places
  /\ reconnect_attempt \in 0..RetryBudget
  /\ standby \subseteq Paths /\ heard \subseteq Paths
  /\ elapsed \in 0..Intent.hold_down_ms
  /\ table \in [Paths -> Lines \cup {Unknown}]
  /\ lines \in 0..(BatchSize - 1) /\ iteration \in Nat
  /\ at \in {"switching", "saving", "renaming"} <=> target # NoPath

(* Whenever nothing is being switched or saved the state file names the    *)
(* path the traffic follows, unless the daemon was killed during a switch  *)
(* or its saving, a save failed, or a rollback did; and the next switch    *)
(* that completes and is saved makes up for that (run_stream,              *)
(* eventnetd.c:690-704; persist_state, 403-446).                           *)
FileNamesActive ==
  at \notin {"switching", "saving", "renaming"} /\ ~torn => state_file = active

(* Traffic is never moved to a path the configuration in force disables,   *)
(* not even by the rollback of a switch (restore_state, eventnetd.c:391).  *)
NeverForwardsToDisabled ==
  [][active' # active /\ active' \in Paths => active' \in config]_evars

(* In one stream the preferred path, if it is enabled and meets the         *)
(* constraints, is not left after a line that says it is healthy, whatever  *)
(* lines about other paths follow in the same or a later batch (run_stream, *)
(* eventnetd.c:685-692).  It is not so across streams: each begins with     *)
(* nothing known of any path.                                               *)
StreamKeepsHealthyPath ==
  [][~(/\ at = "submitting" /\ at' = "switching"
       /\ Intent.mode = "priority" /\ applied = Intent.candidates[1]
       /\ applied \in heard /\ Suits(Intent, applied, View))]_evars

(* A daemon that is told to stop does so, if it does not wait for SIGHUP:  *)
(* also when the signal came just before it blocked (eventnetd.c:653, 930). *)
TermStops == mode # "sighup" /\ shutdown ~> ~Running
=============================================================================
