---------------------------- MODULE HealthStore ----------------------------
(***************************************************************************)
(* The health table of the daemon: telemetry records of an agent and of    *)
(* observers travel over a stream that may delay, repeat and reorder them, *)
(* are parsed (src/src/telemetry.c), filtered by age and gathered in       *)
(* batches (src/examples/eventnetd.c), and merged into one entry per path  *)
(* (src/src/health_probe.c), which the controller then asks for.           *)
(*                                                                         *)
(* A record is modelled as the parser leaves it.  The times of different   *)
(* senders come from one clock.                                            *)
(***************************************************************************)
EXTENDS Integers, Sequences, FiniteSets

CONSTANTS
  Paths,
  Kinds,     \* which senders there are: a subset of AllKinds
  Rtts,      \* round-trip times that are measured
  Vlan,      \* the intent has a VLAN id
  BatchSize, MaxAge,
  MaxTime, MaxStreak, MaxSent   \* bounds: clock, counters, records of a behaviour

VARIABLES
  now,
  agent,     \* the counters of the agent for each path
  sent,      \* every record sent so far; delivery does not remove it
  batch,     \* records read and not yet merged
  phase,     \* "read" or "merge"
  table,     \* overrides of en_health_probe_mock_t
  applied,   \* history: the records merged since the stream was opened
  late       \* history: the paths of which an older record followed a newer one

hvars == <<now, agent, sent, batch, phase, table, applied, late>>

AllKinds == {"measure", "path", "tunnel", "route", "interface"}

ASSUME HealthStoreAssumption ==
  /\ Kinds \subseteq AllKinds /\ Rtts \subseteq Nat \ {0}
  /\ Vlan \in BOOLEAN
  /\ BatchSize \in Nat \ {0} /\ MaxAge \in Nat
  /\ MaxTime \in Nat /\ MaxStreak \in Nat \ {0} /\ MaxSent \in Nat

-----------------------------------------------------------------------------
(* en_telemetry_parse_json_line: the record of each schema.  What a schema *)
(* does not carry is zero.                                                 *)

Observations == {"none", "healthy", "failed"}

Records ==
  [path_id : Paths, state : {"healthy", "failed"}, rtt_ms : Nat,
   packet_loss_percent : {0, 100}, consecutive_failures : Nat, consecutive_successes : Nat,
   source_node : {"unnamed", "source"}, sequence : Nat, last_updated_ms : Nat,
   route_state : Observations, interface_state : Observations]

Blank(p, state, time) ==
  [path_id |-> p, state |-> state, rtt_ms |-> 0,
   packet_loss_percent |-> IF state = "failed" THEN 100 ELSE 0,
   consecutive_failures |-> IF state = "failed" THEN 1 ELSE 0,
   consecutive_successes |-> IF state = "healthy" THEN 1 ELSE 0,
   source_node |-> "unnamed", sequence |-> 0, last_updated_ms |-> time,
   route_state |-> "none", interface_state |-> "none"]

\* A measurement carries its round-trip time, its counters and its origin.
Measurement(p, state, rtt, count) ==
  [Blank(p, state, now) EXCEPT
     !.rtt_ms = rtt,
     !.consecutive_failures = count.failures, !.consecutive_successes = count.successes,
     !.source_node = "source", !.sequence = count.sequence]

\* Events of a path, a tunnel, a route or an interface, up or down.
Event(kind, p, state) ==
  [Blank(p, state, now) EXCEPT
     !.route_state = IF kind = "route" THEN state ELSE "none",
     !.interface_state = IF kind = "interface" THEN state ELSE "none"]

\* set_unknown_health
Unknown(p) == [Blank(p, "failed", 0) EXCEPT !.consecutive_failures = 0]

-----------------------------------------------------------------------------
(* en_health_probe_mock_set.                                               *)

\* Mutants: the time is not looked at; the sequence number is not looked at.
StaleBySequence(old, new) ==
  /\ new.last_updated_ms = old.last_updated_ms
  /\ new.sequence > 0 /\ old.sequence > 0
  /\ new.source_node # "unnamed" /\ new.source_node = old.source_node
  /\ new.sequence < old.sequence
StaleByTime(old, new) == new.last_updated_ms < old.last_updated_ms

Stale(old, new) ==
  \/ new.last_updated_ms < old.last_updated_ms
  \/ /\ new.last_updated_ms = old.last_updated_ms
     /\ new.sequence > 0 /\ old.sequence > 0
     /\ new.source_node # "unnamed" /\ new.source_node = old.source_node
     /\ new.sequence < old.sequence

IsObservation(r) == r.route_state # "none" \/ r.interface_state # "none"

\* Mutant: the state of the event is taken without the other observation.
ObserveAlone(old, new) ==
  [old EXCEPT !.route_state = IF new.route_state # "none" THEN new.route_state ELSE @,
              !.interface_state = IF new.interface_state # "none" THEN new.interface_state ELSE @,
              !.state = new.state, !.packet_loss_percent = new.packet_loss_percent,
              !.last_updated_ms = new.last_updated_ms]

\* An observation updates its half; the state follows from the two halves.
Observe(old, new) ==
  LET route == IF new.route_state # "none" THEN new.route_state ELSE old.route_state
      interface == IF new.interface_state # "none" THEN new.interface_state
                   ELSE old.interface_state
      down == "failed" \in {route, interface}
  IN [old EXCEPT !.route_state = route, !.interface_state = interface,
                 !.state = IF down THEN "failed" ELSE "healthy",
                 !.packet_loss_percent = IF down THEN 100 ELSE 0,
                 !.last_updated_ms = new.last_updated_ms]

\* Any other record replaces the entry but for the observations.
Replace(old, new) ==
  [new EXCEPT !.route_state = old.route_state, !.interface_state = old.interface_state]

Merged(old, new) ==
  IF Stale(old, new) THEN old
  ELSE IF IsObservation(new) THEN Observe(old, new) ELSE Replace(old, new)

en_health_probe_mock_set(r) ==
  table' = [table EXCEPT ![r.path_id] = Merged(@, r)]

\* Both observations are asked for on a VLAN.
require_interface_and_route == Vlan

\* What the controller gets to know of p.
validate_path(p) ==
  IF /\ require_interface_and_route
     /\ "none" \in {table[p].route_state, table[p].interface_state}
  THEN [table[p] EXCEPT !.state = "failed", !.packet_loss_percent = 100]
  ELSE table[p]

-----------------------------------------------------------------------------
(* The senders.                                                            *)

Fresh == [sequence |-> 0, failures |-> 0, successes |-> 0]

NextCount(n) == IF n < MaxStreak THEN n + 1 ELSE n

send(r) ==
  /\ Cardinality(sent) < MaxSent
  /\ sent' = sent \cup {r}

\* One round of the agent for p: it answers in some time, or not.
measure(p) ==
  /\ "measure" \in Kinds
  /\ \E rtt \in Rtts \cup {0} :
       LET lost == rtt = 0
           count == [sequence |-> agent[p].sequence + 1,
                     failures |-> IF lost THEN NextCount(agent[p].failures) ELSE 0,
                     successes |-> IF lost THEN 0 ELSE NextCount(agent[p].successes)]
       IN /\ send(Measurement(p, IF lost THEN "failed" ELSE "healthy", rtt, count))
          /\ agent' = [agent EXCEPT ![p] = count]
  /\ UNCHANGED <<now, batch, phase, table, applied, late>>

\* The agent starts anew, not within the same millisecond.
restart_agent(p) ==
  /\ agent[p] # Fresh /\ now < MaxTime
  /\ agent' = [agent EXCEPT ![p] = Fresh]
  /\ now' = now + 1
  /\ UNCHANGED <<sent, batch, phase, table, applied, late>>

observe(p) ==
  /\ \E k \in Kinds \ {"measure"} : \E s \in {"healthy", "failed"} : send(Event(k, p, s))
  /\ UNCHANGED <<now, agent, batch, phase, table, applied, late>>

Tick ==
  /\ now < MaxTime
  /\ now' = now + 1
  /\ UNCHANGED <<agent, sent, batch, phase, table, applied, late>>

-----------------------------------------------------------------------------
(* run_stream.                                                             *)

TooOld(r) == MaxAge > 0 /\ now - r.last_updated_ms > MaxAge

\* A line is read; the batch is merged once it is full.
read(r) ==
  /\ phase = "read"
  /\ ~TooOld(r)
  /\ batch' = Append(batch, r)
  /\ phase' = IF Len(batch) + 1 >= BatchSize THEN "merge" ELSE "read"
  /\ UNCHANGED <<now, agent, sent, table, applied, late>>

\* A line that is too old is dropped.
skip(r) == phase = "read" /\ TooOld(r) /\ UNCHANGED hvars

Of(p) == {r \in applied : r.path_id = p}

\* The histories of the merge of r.
note(r) ==
  /\ applied' = applied \cup {r}
  /\ late' = late \cup {p \in Paths :
       p = r.path_id /\ \E x \in Of(p) : x.last_updated_ms > r.last_updated_ms}

merge ==
  /\ phase = "merge"
  /\ en_health_probe_mock_set(Head(batch))
  /\ note(Head(batch))
  /\ batch' = Tail(batch)
  /\ phase' = IF Len(batch) = 1 THEN "read" ELSE "merge"
  /\ UNCHANGED <<now, agent, sent>>

\* The stream ends, with what its batch holds, and another one is opened.
open_stream ==
  /\ phase = "read" /\ (applied # {} \/ batch # <<>>)
  /\ table' = [p \in Paths |-> Unknown(p)]
  /\ applied' = {} /\ late' = {}
  /\ batch' = <<>>
  /\ UNCHANGED <<now, agent, sent, phase>>

HealthInit ==
  /\ now = 0
  /\ agent = [p \in Paths |-> Fresh]
  /\ sent = {} /\ batch = <<>> /\ phase = "read" /\ applied = {} /\ late = {}
  /\ table = [p \in Paths |-> Unknown(p)]

HealthNext ==
  \/ \E p \in Paths : measure(p) \/ restart_agent(p) \/ observe(p)
  \/ Tick \/ merge \/ open_stream
  \/ \E r \in sent : read(r) \/ skip(r)

HealthSpec == HealthInit /\ [][HealthNext]_hvars

-----------------------------------------------------------------------------
(* Properties.                                                             *)

HealthTypeOK ==
  /\ now \in Nat
  /\ agent \in [Paths -> [sequence : Nat, failures : Nat, successes : Nat]]
  /\ sent \subseteq Records /\ applied \subseteq sent /\ late \subseteq Paths
  /\ batch \in Seq(sent) /\ phase \in {"read", "merge"}
  /\ phase = "merge" => batch # <<>>
  /\ table \in [Paths -> Records] /\ \A p \in Paths : table[p].path_id = p

NoLater(r, s) ==
  \/ r.last_updated_ms < s.last_updated_ms
  \/ r.last_updated_ms = s.last_updated_ms /\ r.sequence <= s.sequence

MeasuredOnly(p) == Of(p) # {} /\ \A r \in Of(p) : r.source_node = "source"

\* However the measurements of an agent are delayed, repeated and reordered,
\* and even if the agent restarts: while nobody else speaks of a path the table
\* holds the latest that arrived (en_health_probe_mock_set,
\* health_probe.c:54-63).
LatestWins ==
  \A p \in Paths : MeasuredOnly(p) =>
    /\ table[p] \in applied
    /\ \A r \in Of(p) : NoLater(r, table[p])

\* Whatever the senders, an entry is as old as the newest record that arrived,
\* so that no later one is taken for stale (health_probe.c:54-56, 89).
AsNewAsApplied ==
  \A p \in Paths : Of(p) # {} =>
    /\ \A r \in Of(p) : r.last_updated_ms <= table[p].last_updated_ms
    /\ \E r \in Of(p) : r.last_updated_ms = table[p].last_updated_ms

\* The last that was heard of one half of a path is that it is up.
LastHeardUp(p, half) ==
  \E r \in Of(p) :
    /\ half[r] = "healthy"
    /\ \A x \in Of(p) : half[x] # "none" => x.last_updated_ms <= r.last_updated_ms

RouteUp(p) == LastHeardUp(p, [r \in applied |-> r.route_state])
InterfaceUp(p) == LastHeardUp(p, [r \in applied |-> r.interface_state])

HealthyOnVlan(p) ==
  Vlan /\ phase = "read" /\ p \notin late /\ validate_path(p).state = "healthy"

\* On a VLAN, as long as the observers are alone and their events arrive in
\* order, the controller takes a path for healthy only while the last route
\* event and the last interface event of the path are both "up"
\* (health_probe.c:65-90 and 20-24).
ObservedHealthyNeedsBoth ==
  \A p \in Paths : HealthyOnVlan(p) /\ (\A r \in Of(p) : IsObservation(r)) =>
    RouteUp(p) /\ InterfaceUp(p)
=============================================================================
