------------------------- MODULE HealthStoreProofs -------------------------
(***************************************************************************)
(* What HealthStore keeps for any number of paths, records, times and any  *)
(* size of the batch: its type invariant, that the entry of a path is      *)
(* never older than the records it was made from, what it holds while the  *)
(* agent speaks alone, and what while the observers do.                    *)
(***************************************************************************)
EXTENDS HealthStore, SequenceTheorems, TLAPS

\* Merging two records of a path gives a record of the path, whichever way
\* the merge takes (en_health_probe_mock_set).
LEMMA ObserveType ==
  ASSUME NEW old \in Records, NEW new \in Records
  PROVE  /\ Observe(old, new) \in Records
         /\ Observe(old, new).path_id = old.path_id
         /\ Observe(old, new).last_updated_ms = new.last_updated_ms
<1> DEFINE route == IF new.route_state # "none" THEN new.route_state ELSE old.route_state
           interface == IF new.interface_state # "none" THEN new.interface_state
                        ELSE old.interface_state
           down == "failed" \in {route, interface}
           state == IF down THEN "failed" ELSE "healthy"
           loss == IF down THEN 100 ELSE 0
           e == [old EXCEPT !.route_state = route, !.interface_state = interface,
                            !.state = state, !.packet_loss_percent = loss,
                            !.last_updated_ms = new.last_updated_ms]
<1>1. /\ route \in Observations /\ interface \in Observations
      /\ state \in {"healthy", "failed"} /\ loss \in {0, 100}
      /\ new.last_updated_ms \in Nat
  BY DEF Records
<1>2. Observe(old, new) = e
  BY DEF Observe
<1> HIDE DEF route, interface, state, loss
<1>3. e \in Records /\ e.path_id = old.path_id /\ e.last_updated_ms = new.last_updated_ms
  BY <1>1 DEF Records
<1> QED
  BY <1>2, <1>3

LEMMA ReplaceType ==
  ASSUME NEW old \in Records, NEW new \in Records
  PROVE  /\ Replace(old, new) \in Records
         /\ Replace(old, new).path_id = new.path_id
         /\ Replace(old, new).last_updated_ms = new.last_updated_ms
BY DEF Replace, Records

\* Merging two records of a path gives a record of the path, whichever way
\* the merge takes, with the time of the newer one (en_health_probe_mock_set).
LEMMA MergedType ==
  ASSUME NEW old \in Records, NEW new \in Records, old.path_id = new.path_id
  PROVE  /\ Merged(old, new) \in Records
         /\ Merged(old, new).path_id = old.path_id
BY ObserveType, ReplaceType DEF Merged

LEMMA MergedTime ==
  ASSUME NEW old \in Records, NEW new \in Records
  PROVE  /\ old.last_updated_ms <= Merged(old, new).last_updated_ms
         /\ new.last_updated_ms <= Merged(old, new).last_updated_ms
         /\ Merged(old, new).last_updated_ms \in {old.last_updated_ms, new.last_updated_ms}
<1>1. old.last_updated_ms \in Nat /\ new.last_updated_ms \in Nat
  BY DEF Records
<1>2. CASE Stale(old, new)
  <2>1. new.last_updated_ms <= old.last_updated_ms
    BY <1>1, <1>2 DEF Stale, Records
  <2> QED
    BY <1>1, <1>2, <2>1 DEF Merged
<1>3. CASE ~Stale(old, new)
  <2>1. old.last_updated_ms <= new.last_updated_ms
    BY <1>1, <1>3 DEF Stale, Records
  <2>2. Merged(old, new).last_updated_ms = new.last_updated_ms
    BY <1>3, ObserveType, ReplaceType DEF Merged
  <2> QED
    BY <1>1, <2>1, <2>2
<1> QED
  BY <1>2, <1>3

LEMMA BlankType ==
  ASSUME NEW p \in Paths, NEW s \in {"healthy", "failed"}, NEW t \in Nat
  PROVE  Blank(p, s, t) \in Records
BY DEF Blank, Records, Observations

LEMMA UnknownType ==
  ASSUME NEW p \in Paths
  PROVE  /\ Unknown(p) \in Records /\ Unknown(p).path_id = p
         /\ Unknown(p).last_updated_ms = 0 /\ Unknown(p).sequence = 0
BY DEF Blank, Unknown, Records, Observations

\* An entry nothing is known of gives way to any record.
LEMMA UnknownGivesWay ==
  ASSUME NEW p \in Paths, NEW new \in Records
  PROVE  Merged(Unknown(p), new).last_updated_ms = new.last_updated_ms
<1>1. new.last_updated_ms \in Nat
  BY DEF Records
<1>2. ~Stale(Unknown(p), new)
  BY <1>1, UnknownType DEF Stale, Records
<1> QED
  BY <1>2, UnknownType, ObserveType, ReplaceType DEF Merged

LEMMA EventType ==
  ASSUME now \in Nat, NEW k, NEW p \in Paths, NEW s \in {"healthy", "failed"}
  PROVE  Event(k, p, s) \in Records
<1>1. Blank(p, s, now) \in Records /\ s \in Observations /\ "none" \in Observations
  BY BlankType DEF Observations
<1> QED
  BY <1>1 DEF Event, Records

LEMMA MeasurementType ==
  ASSUME now \in Nat, NEW p \in Paths, NEW s \in {"healthy", "failed"}, NEW rtt \in Nat,
         NEW c \in [sequence : Nat, failures : Nat, successes : Nat]
  PROVE  Measurement(p, s, rtt, c) \in Records
<1>1. Blank(p, s, now) \in Records
  BY BlankType
<1> QED
  BY <1>1 DEF Measurement, Records

-----------------------------------------------------------------------------
LEMMA TypeInit == HealthInit => HealthTypeOK
<1> SUFFICES ASSUME HealthInit PROVE HealthTypeOK
  OBVIOUS
<1>1. \A p \in Paths : Unknown(p) \in Records /\ Unknown(p).path_id = p
  BY UnknownType
<1> QED
  BY <1>1 DEF HealthInit, HealthTypeOK, Fresh

LEMMA TypeStep == HealthTypeOK /\ [HealthNext]_hvars => HealthTypeOK'
<1> SUFFICES ASSUME HealthTypeOK, [HealthNext]_hvars PROVE HealthTypeOK'
  OBVIOUS
<1> USE HealthStoreAssumption
<1>1. ASSUME NEW p \in Paths, measure(p) PROVE HealthTypeOK'
  <2>0. agent[p] \in [sequence : Nat, failures : Nat, successes : Nat]
    BY DEF HealthTypeOK
  <2>01. \A n \in Nat : NextCount(n) \in Nat
    BY DEF NextCount
  <2>1. PICK rtt \in Rtts \cup {0} :
          LET c == [sequence |-> agent[p].sequence + 1,
                    failures |-> IF rtt = 0 THEN NextCount(agent[p].failures) ELSE 0,
                    successes |-> IF rtt = 0 THEN 0 ELSE NextCount(agent[p].successes)]
          IN /\ sent' = sent \cup {Measurement(p, IF rtt = 0 THEN "failed" ELSE "healthy", rtt, c)}
             /\ agent' = [agent EXCEPT ![p] = c]
    BY <1>1 DEF measure, send
  <2> DEFINE c == [sequence |-> agent[p].sequence + 1,
                   failures |-> IF rtt = 0 THEN NextCount(agent[p].failures) ELSE 0,
                   successes |-> IF rtt = 0 THEN 0 ELSE NextCount(agent[p].successes)]
             s == IF rtt = 0 THEN "failed" ELSE "healthy"
  <2>10. /\ agent[p].sequence + 1 \in Nat
         /\ NextCount(agent[p].failures) \in Nat /\ NextCount(agent[p].successes) \in Nat
    BY <2>0, <2>01
  <2>11. c \in [sequence : Nat, failures : Nat, successes : Nat] /\ rtt \in Nat
    <3>1. \A x, y, z \in Nat :
            [sequence |-> x, failures |-> y, successes |-> z]
              \in [sequence : Nat, failures : Nat, successes : Nat]
      OBVIOUS
    <3>2. /\ (IF rtt = 0 THEN NextCount(agent[p].failures) ELSE 0) \in Nat
          /\ (IF rtt = 0 THEN 0 ELSE NextCount(agent[p].successes)) \in Nat
      BY <2>10
    <3> QED
      BY <2>10, <3>1, <3>2
  <2>12. sent' = sent \cup {Measurement(p, s, rtt, c)} /\ agent' = [agent EXCEPT ![p] = c]
    BY <2>1
  <2>13. s \in {"healthy", "failed"}
    OBVIOUS
  <2> HIDE DEF c, s
  <2>2. Measurement(p, s, rtt, c) \in Records
    BY <2>11, <2>13, MeasurementType DEF HealthTypeOK
  <2> QED
    BY <1>1, <2>11, <2>12, <2>2 DEF measure, HealthTypeOK
<1>2. ASSUME NEW p \in Paths, restart_agent(p) PROVE HealthTypeOK'
  BY <1>2 DEF restart_agent, HealthTypeOK, Fresh
<1>3. ASSUME NEW p \in Paths, observe(p) PROVE HealthTypeOK'
  <2>1. PICK k \in Kinds, s \in {"healthy", "failed"} : sent' = sent \cup {Event(k, p, s)}
    BY <1>3 DEF observe, send
  <2>2. Event(k, p, s) \in Records
    BY EventType DEF HealthTypeOK
  <2> QED
    BY <1>3, <2>1, <2>2 DEF observe, HealthTypeOK
<1>4. CASE Tick
  BY <1>4 DEF Tick, HealthTypeOK
<1>5. CASE merge
  <2> DEFINE r == Head(batch)
  <2>1. r \in sent /\ r \in Records /\ Tail(batch) \in Seq(sent)
    BY <1>5 DEF merge, HealthTypeOK
  <2>2. Len(batch) # 1 => Tail(batch) # <<>>
    <3>1. batch \in Seq(sent) /\ batch # <<>>
      BY <1>5 DEF merge, HealthTypeOK
    <3>2. Len(Tail(batch)) = Len(batch) - 1 /\ Len(batch) \in Nat
      BY <3>1
    <3>3. Tail(batch) = <<>> => Len(Tail(batch)) = 0
      BY <2>1, EmptySeq
    <3> QED
      BY <3>2, <3>3
  <2>3. r.path_id \in Paths
    BY <2>1 DEF Records
  <2>4. Merged(table[r.path_id], r) \in Records /\ Merged(table[r.path_id], r).path_id = r.path_id
    BY <2>1, <2>3, MergedType DEF HealthTypeOK
  <2>5. table' \in [Paths -> Records] /\ \A p \in Paths : table'[p].path_id = p
    BY <1>5, <2>3, <2>4 DEF merge, en_health_probe_mock_set, HealthTypeOK
  <2>6. applied' \subseteq sent /\ late' \subseteq Paths
    BY <1>5, <2>1 DEF merge, note, HealthTypeOK
  <2> QED
    BY <1>5, <2>1, <2>2, <2>5, <2>6 DEF merge, HealthTypeOK
<1>6. CASE open_stream
  <2>1. \A p \in Paths : Unknown(p) \in Records /\ Unknown(p).path_id = p
    BY UnknownType
  <2> QED
    BY <1>6, <2>1 DEF open_stream, HealthTypeOK
<1>7. ASSUME NEW r \in sent, read(r) PROVE HealthTypeOK'
  <2>1. Append(batch, r) \in Seq(sent) /\ Append(batch, r) # <<>>
    BY <1>7 DEF HealthTypeOK
  <2> QED
    BY <1>7, <2>1 DEF read, HealthTypeOK
<1>8. ASSUME NEW r \in sent, skip(r) PROVE HealthTypeOK'
  BY <1>8 DEF skip, hvars, HealthTypeOK
<1>9. CASE UNCHANGED hvars
  BY <1>9 DEF hvars, HealthTypeOK
<1> QED
  BY <1>1, <1>2, <1>3, <1>4, <1>5, <1>6, <1>7, <1>8, <1>9 DEF HealthNext

\* Every state of the daemon's table is a table of well-formed records
\* (health_probe.c, run_stream in eventnetd.c).
THEOREM HealthTypeCorrect == HealthSpec => []HealthTypeOK
BY TypeInit, TypeStep, PTL DEF HealthSpec

-----------------------------------------------------------------------------
\* Before the first record of a stream the entry says that nothing is known.
UnknownAtFirst == \A p \in Paths : Of(p) = {} => table[p] = Unknown(p)

AgeInv == UnknownAtFirst /\ AsNewAsApplied

LEMMA AgeStep == HealthTypeOK /\ AgeInv /\ [HealthNext]_hvars => AgeInv'
<1> SUFFICES ASSUME HealthTypeOK, AgeInv, [HealthNext]_hvars PROVE AgeInv'
  OBVIOUS
<1>0. \A p : Unknown(p)' = Unknown(p)
  BY DEF Unknown, Blank
<1>1. CASE UNCHANGED <<table, applied>>
  BY <1>0, <1>1 DEF AgeInv, UnknownAtFirst, AsNewAsApplied, Of
<1>2. CASE merge
  <2> DEFINE r == Head(batch)
  <2>0. r \in Records
    BY <1>2 DEF merge, HealthTypeOK
  <2>1. r \in Records /\ r.path_id \in Paths
    BY <2>0 DEF Records
  <2>2. /\ table' = [table EXCEPT ![r.path_id] = Merged(table[r.path_id], r)]
        /\ applied' = applied \cup {r}
    BY <1>2 DEF merge, note, en_health_probe_mock_set
  <2> HIDE DEF r
  <2> SUFFICES ASSUME NEW p \in Paths
               PROVE  /\ Of(p)' = {} => table'[p] = Unknown(p)'
                      /\ Of(p)' # {} =>
                           /\ \A x \in Of(p)' : x.last_updated_ms <= table'[p].last_updated_ms
                           /\ \E x \in Of(p)' : x.last_updated_ms = table'[p].last_updated_ms
    BY DEF AgeInv, UnknownAtFirst, AsNewAsApplied
  <2>3. CASE p # r.path_id
    <3>1. Of(p)' = Of(p) /\ table'[p] = table[p]
      BY <2>1, <2>2, <2>3 DEF Of, HealthTypeOK
    <3> QED
      BY <1>0, <3>1 DEF AgeInv, UnknownAtFirst, AsNewAsApplied
  <2>4. CASE p = r.path_id
    <3>1. Of(p)' = Of(p) \cup {r} /\ table'[p] = Merged(table[p], r)
      BY <2>1, <2>2, <2>4 DEF Of, HealthTypeOK
    <3>2. table[p] \in Records /\ \A x \in Of(p) : x \in Records
      BY DEF HealthTypeOK, Of
    <3>3. /\ table[p].last_updated_ms <= table'[p].last_updated_ms
          /\ r.last_updated_ms <= table'[p].last_updated_ms
          /\ table'[p].last_updated_ms \in {table[p].last_updated_ms, r.last_updated_ms}
      BY <2>1, <3>1, <3>2, MergedTime
    <3>4. CASE Of(p) = {}
      <4>1. table[p] = Unknown(p)
        BY <3>4 DEF AgeInv, UnknownAtFirst
      <4>2. table'[p].last_updated_ms = r.last_updated_ms
        BY <2>1, <3>1, <4>1, UnknownGivesWay
      <4> QED
        BY <2>1, <3>1, <3>4, <4>2 DEF Records
    <3>5. CASE Of(p) # {}
      <4>1. /\ \A x \in Of(p) : x.last_updated_ms <= table[p].last_updated_ms
            /\ \E x \in Of(p) : x.last_updated_ms = table[p].last_updated_ms
        BY <3>5 DEF AgeInv, AsNewAsApplied
      <4>2. \A x \in Of(p) \cup {r} : x.last_updated_ms \in Nat
        BY <2>1, <3>2 DEF Records
      <4>3. table[p].last_updated_ms \in Nat /\ table'[p].last_updated_ms \in Nat
        BY <2>1, <3>2, <3>3 DEF Records
      <4> QED
        BY <3>1, <3>3, <4>1, <4>2, <4>3
    <3> QED
      BY <3>4, <3>5
  <2> QED
    BY <2>3, <2>4
<1>3. CASE open_stream
  BY <1>0, <1>3 DEF open_stream, AgeInv, UnknownAtFirst, AsNewAsApplied, Of
<1> QED
  BY <1>1, <1>2, <1>3 DEF HealthNext, hvars, measure, restart_agent, observe, Tick, read, skip

\* The entry of a path has the time of the newest record merged into it, of
\* whatever kind and in whatever order the records came
\* (en_health_probe_mock_set, health_probe.c:47-118).
THEOREM EntryAsNewAsApplied == HealthSpec => []AsNewAsApplied
<1>1. HealthInit => AgeInv
  BY DEF HealthInit, AgeInv, UnknownAtFirst, AsNewAsApplied, Of
<1>2. AgeInv => AsNewAsApplied
  BY DEF AgeInv
<1> QED
  BY <1>1, <1>2, AgeStep, HealthTypeCorrect, PTL DEF HealthSpec

-----------------------------------------------------------------------------
(* What the agent says of a path, while nobody else speaks of it.          *)

IsMeasurement(r) ==
  /\ r.sequence \in Nat \ {0} /\ r.source_node = "source"
  /\ r.route_state = "none" /\ r.interface_state = "none"

SourceMeasures == \A r \in sent : r.source_node = "source" => IsMeasurement(r)

MeasureInv == SourceMeasures /\ UnknownAtFirst /\ LatestWins

\* A measurement replaces an entry without observations as it is.
LEMMA ReplaceWhole ==
  ASSUME NEW old \in Records, NEW new \in Records, IsMeasurement(new),
         old.route_state = "none", old.interface_state = "none"
  PROVE  Replace(old, new) = new
BY DEF Replace, IsMeasurement, Records

LEMMA MeasurementFields ==
  ASSUME NEW p \in Paths, NEW s \in {"healthy", "failed"}, NEW rtt \in Nat,
         NEW n \in Nat, NEW f, NEW g
  PROVE  IsMeasurement(Measurement(p, s, rtt, [sequence |-> n + 1, failures |-> f, successes |-> g]))
BY DEF Measurement, Blank, IsMeasurement

LEMMA SourceMeasuresStep ==
  ASSUME HealthTypeOK, SourceMeasures, [HealthNext]_hvars
  PROVE  SourceMeasures'
<1>1. CASE UNCHANGED sent
  BY <1>1 DEF SourceMeasures
<1>2. ASSUME NEW p \in Paths, measure(p) PROVE SourceMeasures'
  <2>1. PICK rtt \in Rtts \cup {0} :
          sent' = sent \cup {Measurement(p, IF rtt = 0 THEN "failed" ELSE "healthy", rtt,
                     [sequence |-> agent[p].sequence + 1,
                      failures |-> IF rtt = 0 THEN NextCount(agent[p].failures) ELSE 0,
                      successes |-> IF rtt = 0 THEN 0 ELSE NextCount(agent[p].successes)])}
    BY <1>2 DEF measure, send
  <2>2. rtt \in Nat /\ agent[p].sequence \in Nat
    BY HealthStoreAssumption DEF HealthTypeOK
  <2>3. (IF rtt = 0 THEN "failed" ELSE "healthy") \in {"healthy", "failed"}
    OBVIOUS
  <2> QED
    BY <2>1, <2>2, <2>3, MeasurementFields DEF SourceMeasures
<1>3. ASSUME NEW p \in Paths, observe(p) PROVE SourceMeasures'
  <2>1. PICK k \in Kinds, s \in {"healthy", "failed"} : sent' = sent \cup {Event(k, p, s)}
    BY <1>3 DEF observe, send
  <2>2. Event(k, p, s).source_node = "unnamed"
    BY DEF Event, Blank
  <2> QED
    BY <2>1, <2>2 DEF SourceMeasures
<1> QED
  BY <1>1, <1>2, <1>3 DEF HealthNext, hvars, restart_agent, Tick, merge, open_stream, read, skip

LEMMA LatestStep ==
  ASSUME HealthTypeOK, MeasureInv, [HealthNext]_hvars
  PROVE  UnknownAtFirst' /\ LatestWins'
<1>0. \A p : Unknown(p)' = Unknown(p)
  BY DEF Unknown, Blank
<1>1. CASE UNCHANGED <<table, applied>>
  BY <1>0, <1>1 DEF MeasureInv, UnknownAtFirst, LatestWins, MeasuredOnly, NoLater, Of
<1>2. CASE merge
  <2> DEFINE r == Head(batch)
  <2>0. r \in Records /\ r \in sent
    BY <1>2 DEF merge, HealthTypeOK
  <2>1. r.path_id \in Paths
    BY <2>0 DEF Records
  <2>2. /\ table' = [table EXCEPT ![r.path_id] = Merged(table[r.path_id], r)]
        /\ applied' = applied \cup {r}
    BY <1>2 DEF merge, note, en_health_probe_mock_set
  <2> HIDE DEF r
  <2> SUFFICES ASSUME NEW p \in Paths
               PROVE  /\ Of(p)' = {} => table'[p] = Unknown(p)'
                      /\ MeasuredOnly(p)' => /\ table'[p] \in applied'
                                             /\ \A x \in Of(p)' : NoLater(x, table'[p])
    BY DEF UnknownAtFirst, LatestWins, NoLater
  <2>3. CASE p # r.path_id
    <3>1. Of(p)' = Of(p) /\ table'[p] = table[p]
      BY <2>1, <2>2, <2>3 DEF Of, HealthTypeOK
    <3> QED
      BY <1>0, <2>2, <3>1 DEF MeasureInv, UnknownAtFirst, LatestWins, MeasuredOnly
  <2>4. CASE p = r.path_id
    <3>1. Of(p)' = Of(p) \cup {r} /\ table'[p] = Merged(table[p], r)
      BY <2>1, <2>2, <2>4 DEF Of, HealthTypeOK
    <3> SUFFICES ASSUME MeasuredOnly(p)'
                 PROVE  table'[p] \in applied' /\ \A x \in Of(p)' : NoLater(x, table'[p])
      BY <3>1
    <3>10. IsMeasurement(r) /\ \A x \in Of(p) : x.source_node = "source"
      BY <2>0, <3>1 DEF MeasuredOnly, MeasureInv, SourceMeasures
    <3>2. ~IsObservation(r)
      BY <3>10 DEF IsMeasurement, IsObservation
    <3>3. NoLater(r, r)
      BY <2>0 DEF NoLater, Records
    <3>4. CASE Of(p) = {}
      <4>1. table[p] = Unknown(p)
        BY <3>4 DEF MeasureInv, UnknownAtFirst
      <4>2. ~Stale(Unknown(p), r)
        BY <2>0, UnknownType DEF Stale, Records
      <4>3. /\ Unknown(p) \in Records
            /\ Unknown(p).route_state = "none" /\ Unknown(p).interface_state = "none"
        BY UnknownType DEF Unknown, Blank
      <4>4. table'[p] = r
        BY <2>0, <3>10, <3>1, <3>2, <4>1, <4>2, <4>3, ReplaceWhole DEF Merged
      <4> QED
        BY <2>2, <3>1, <3>3, <3>4, <4>4
    <3>5. CASE Of(p) # {}
      <4>1. table[p] \in applied /\ \A x \in Of(p) : NoLater(x, table[p])
        BY <3>5, <3>10 DEF MeasureInv, LatestWins, MeasuredOnly
      <4>2. /\ table[p] \in Records /\ IsMeasurement(table[p])
            /\ \A x \in Of(p) : x \in Records
        <5>1. table[p] \in Of(p)
          BY <4>1 DEF Of, HealthTypeOK
        <5>2. \A x \in Of(p) : x \in Records /\ IsMeasurement(x)
          BY <3>10 DEF HealthTypeOK, MeasureInv, SourceMeasures, Of
        <5> QED
          BY <5>1, <5>2
      <4>3. CASE Stale(table[p], r)
        <5>1. table'[p] = table[p]
          BY <3>1, <4>3 DEF Merged
        <5>2. NoLater(r, table[p])
          BY <2>0, <4>2, <4>3 DEF Stale, NoLater, Records
        <5> QED
          BY <2>2, <3>1, <4>1, <5>1, <5>2
      <4>4. CASE ~Stale(table[p], r)
        <5>1. table'[p] = r
          BY <2>0, <3>10, <3>1, <3>2, <4>2, <4>4, ReplaceWhole DEF Merged, IsMeasurement
        <5>2. NoLater(table[p], r)
          BY <2>0, <3>10, <4>2, <4>4 DEF Stale, NoLater, Records, IsMeasurement
        <5>3. \A x \in Of(p) : NoLater(x, r)
          BY <2>0, <4>1, <4>2, <5>2 DEF NoLater, Records
        <5> QED
          BY <2>2, <3>1, <3>3, <5>1, <5>3
      <4> QED
        BY <4>3, <4>4
    <3> QED
      BY <3>4, <3>5
  <2> QED
    BY <2>3, <2>4
<1>3. CASE open_stream
  BY <1>0, <1>3 DEF open_stream, UnknownAtFirst, LatestWins, MeasuredOnly, Of
<1> QED
  BY <1>1, <1>2, <1>3 DEF HealthNext, hvars, measure, restart_agent, observe, Tick, read, skip

\* Measurements may be delayed, repeated and reordered and the agent restarted:
\* the table holds the latest that arrived of every path
\* (en_health_probe_mock_set, health_probe.c:47-118).
THEOREM LatestMeasurementWins == HealthSpec => []LatestWins
<1>1. HealthInit => MeasureInv
  BY DEF HealthInit, MeasureInv, SourceMeasures, UnknownAtFirst, LatestWins, MeasuredOnly, Of
<1>2. HealthTypeOK /\ MeasureInv /\ [HealthNext]_hvars => MeasureInv'
  BY LatestStep, SourceMeasuresStep DEF MeasureInv
<1>3. MeasureInv => LatestWins
  BY DEF MeasureInv
<1> QED
  BY <1>1, <1>2, <1>3, HealthTypeCorrect, PTL DEF HealthSpec

-----------------------------------------------------------------------------
\* The halves of an entry that only observers speak of are the last that were heard,
\* and its state follows from them.
RouteHeard(p) ==
  table[p].route_state # "none" =>
    \E r \in Of(p) :
      /\ r.route_state = table[p].route_state
      /\ \A x \in Of(p) : x.route_state # "none" => x.last_updated_ms <= r.last_updated_ms

InterfaceHeard(p) ==
  table[p].interface_state # "none" =>
    \E r \in Of(p) :
      /\ r.interface_state = table[p].interface_state
      /\ \A x \in Of(p) : x.interface_state # "none" => x.last_updated_ms <= r.last_updated_ms

HeardLast(p) ==
  /\ table[p].state = "healthy" =>
       table[p].route_state # "failed" /\ table[p].interface_state # "failed"
  /\ RouteHeard(p) /\ InterfaceHeard(p)

ObserversAlone(p) == p \notin late /\ \A r \in Of(p) : IsObservation(r)

ObserverInv == \A p \in Paths : ObserversAlone(p) => HeardLast(p)

\* The halves of the entry after an observation, and the state they make.
LEMMA ObserveHalves ==
  ASSUME NEW old \in Records, NEW new \in Records
  PROVE  LET e == Observe(old, new) IN
         /\ e.route_state = IF new.route_state # "none" THEN new.route_state ELSE old.route_state
         /\ e.interface_state = IF new.interface_state # "none" THEN new.interface_state
                                ELSE old.interface_state
         /\ e.state = "healthy" => e.route_state # "failed" /\ e.interface_state # "failed"
BY DEF Observe, Records

LEMMA ObserverStep ==
  ASSUME HealthTypeOK, AgeInv, SourceMeasures, ObserverInv, [HealthNext]_hvars
  PROVE  ObserverInv'
<1>0. \A p : Unknown(p)' = Unknown(p)
  BY DEF Unknown, Blank
<1>1. CASE UNCHANGED <<table, applied, late>>
  BY <1>1 DEF ObserverInv, ObserversAlone, HeardLast, RouteHeard, InterfaceHeard, Of
<1>2. CASE merge
  <2> DEFINE r == Head(batch)
  <2>0. r \in Records /\ r \in sent
    BY <1>2 DEF merge, HealthTypeOK
  <2>1. r.path_id \in Paths
    BY <2>0 DEF Records
  <2>2. /\ table' = [table EXCEPT ![r.path_id] = Merged(table[r.path_id], r)]
        /\ applied' = applied \cup {r}
        /\ late' = late \cup {q \in Paths :
             q = r.path_id /\ \E x \in Of(q) : x.last_updated_ms > r.last_updated_ms}
    BY <1>2 DEF merge, note, en_health_probe_mock_set
  <2> HIDE DEF r
  <2> SUFFICES ASSUME NEW p \in Paths, ObserversAlone(p)'
               PROVE  HeardLast(p)'
    BY DEF ObserverInv
  <2>3. HeardLast(p)
    BY <2>2 DEF ObserverInv, ObserversAlone, Of
  <2>4. CASE p # r.path_id
    <3>1. Of(p)' = Of(p) /\ table'[p] = table[p]
      BY <2>1, <2>2, <2>4 DEF Of, HealthTypeOK
    <3> QED BY <2>3, <3>1 DEF HeardLast, RouteHeard, InterfaceHeard
  <2>5. CASE p = r.path_id
    <3>1. Of(p)' = Of(p) \cup {r} /\ table'[p] = Merged(table[p], r)
      BY <2>1, <2>2, <2>5 DEF Of, HealthTypeOK
    <3>2. IsObservation(r) /\ \A x \in Of(p) : ~ (x.last_updated_ms > r.last_updated_ms)
      BY <2>2, <2>5, <3>1 DEF ObserversAlone
    <3>3. r.source_node # "source"
      BY <2>0, <3>2 DEF SourceMeasures, IsMeasurement, IsObservation
    <3>4. /\ table[p] \in Records /\ r.last_updated_ms \in Nat
          /\ \A x \in Of(p) : x.last_updated_ms \in Nat /\ x.last_updated_ms <= r.last_updated_ms
      <4>1. \A x \in Of(p) : x \in Records
        BY DEF Of, HealthTypeOK
      <4>2. \A x \in Records : x.last_updated_ms \in Nat
        BY DEF Records
      <4> QED BY <2>0, <3>2, <4>1, <4>2 DEF HealthTypeOK
    <3>5. table[p].last_updated_ms <= r.last_updated_ms /\ table[p].last_updated_ms \in Nat
      <4>1. CASE Of(p) = {}
        BY <3>4, <4>1, UnknownType DEF AgeInv, UnknownAtFirst
      <4>2. CASE Of(p) # {}
        BY <3>4, <4>2 DEF AgeInv, AsNewAsApplied
      <4> QED BY <4>1, <4>2
    <3>6. ~ Stale(table[p], r)
      BY <2>0, <3>3, <3>4, <3>5 DEF Stale, Records
    <3>7. table'[p] = Observe(table[p], r)
      BY <3>1, <3>2, <3>6 DEF Merged
    <3>8. /\ table'[p].route_state = IF r.route_state # "none" THEN r.route_state
                                     ELSE table[p].route_state
          /\ table'[p].interface_state = IF r.interface_state # "none" THEN r.interface_state
                                         ELSE table[p].interface_state
          /\ table'[p].state = "healthy" =>
               table'[p].route_state # "failed" /\ table'[p].interface_state # "failed"
      BY <2>0, <3>4, <3>7, ObserveHalves
    <3>9. \A x \in Of(p)' : x.last_updated_ms <= r.last_updated_ms
      BY <3>1, <3>4
    <3>10. /\ r.route_state # "none" => RouteHeard(p)'
           /\ r.interface_state # "none" => InterfaceHeard(p)'
      BY <3>1, <3>8, <3>9 DEF RouteHeard, InterfaceHeard
    <3>11. /\ r.route_state = "none" => RouteHeard(p)'
           /\ r.interface_state = "none" => InterfaceHeard(p)'
      BY <2>3, <3>1, <3>8 DEF HeardLast, RouteHeard, InterfaceHeard
    <3> QED BY <3>8, <3>10, <3>11 DEF HeardLast
  <2> QED BY <2>4, <2>5
<1>3. CASE open_stream
  <2>1. \A p \in Paths : table'[p] = Unknown(p)
    BY <1>0, <1>3 DEF open_stream
  <2>2. \A p \in Paths : /\ Unknown(p).state = "failed" /\ Unknown(p).route_state = "none"
                        /\ Unknown(p).interface_state = "none"
    BY DEF Unknown, Blank
  <2> QED BY <2>1, <2>2 DEF ObserverInv, HeardLast, RouteHeard, InterfaceHeard
<1> QED
  BY <1>1, <1>2, <1>3 DEF HealthNext, hvars, measure, restart_agent, observe, Tick, read, skip

LEMMA BothHalvesUp ==
  ASSUME HealthTypeOK, ObserverInv
  PROVE  ObservedHealthyNeedsBoth
<1> SUFFICES ASSUME NEW p \in Paths, HealthyOnVlan(p), \A r \in Of(p) : IsObservation(r)
             PROVE  RouteUp(p) /\ InterfaceUp(p)
  BY DEF ObservedHealthyNeedsBoth
<1>1. HeardLast(p)
  BY DEF ObserverInv, ObserversAlone, HealthyOnVlan
<1>2. table[p] \in Records
  BY DEF HealthTypeOK
<1>3. /\ table[p].state = "healthy"
      /\ table[p].route_state # "none" /\ table[p].interface_state # "none"
  BY <1>2 DEF HealthyOnVlan, validate_path, require_interface_and_route, Records
<1>4. table[p].route_state = "healthy" /\ table[p].interface_state = "healthy"
  BY <1>1, <1>2, <1>3 DEF HeardLast, Records, Observations
<1>5. Of(p) \subseteq applied
  BY DEF Of
<1> QED BY <1>1, <1>3, <1>4, <1>5 DEF HeardLast, RouteHeard, InterfaceHeard, RouteUp, InterfaceUp,
                                          LastHeardUp

\* On a VLAN, while only observers speak of a path and their events arrive in order, the
\* controller takes it for healthy only if the last event of its route and the last of its
\* interface were both "up" (health_probe.c:20-24, 65-90).
THEOREM HealthyNeedsBoth == HealthSpec => []ObservedHealthyNeedsBoth
<1>1. HealthInit => AgeInv /\ SourceMeasures /\ ObserverInv
  <2>1. HealthInit => AgeInv /\ SourceMeasures
    BY DEF HealthInit, AgeInv, UnknownAtFirst, AsNewAsApplied, Of, SourceMeasures
  <2>2. ASSUME HealthInit, NEW p \in Paths
        PROVE  /\ table[p].state = "failed" /\ table[p].route_state = "none"
               /\ table[p].interface_state = "none"
    BY <2>2 DEF HealthInit, Unknown, Blank
  <2> QED BY <2>1, <2>2 DEF ObserverInv, HeardLast, RouteHeard, InterfaceHeard
<1>2. HealthTypeOK /\ AgeInv /\ SourceMeasures /\ ObserverInv /\ [HealthNext]_hvars
      => (AgeInv /\ SourceMeasures /\ ObserverInv)'
  BY AgeStep, SourceMeasuresStep, ObserverStep
<1> QED
  BY <1>1, <1>2, BothHalvesUp, HealthTypeCorrect, PTL DEF HealthSpec
=============================================================================
