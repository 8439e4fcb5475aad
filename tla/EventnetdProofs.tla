-------------------------- MODULE EventnetdProofs --------------------------
(***************************************************************************)
(* Proofs about the daemon, for any paths, intent, telemetry, batch size   *)
(* and number of reconnections, in every mode.                             *)
(***************************************************************************)
EXTENDS Eventnetd, WellFoundedInduction, TLAPS

-----------------------------------------------------------------------------
(* Path selection, for any intent, paths, nodes and health.                *)

LEMMA LeastIndex ==
  ASSUME NEW T, T \subseteq Nat, T # {}
  PROVE  \E n \in T : \A m \in T : ~(m < n)
<1> DEFINE R == OpToRel(<, Nat)
<1>1. IsWellFoundedOn(R, Nat)
  BY NatLessThanWellFounded
<1> HIDE DEF R
<1>2. PICK n \in T : \A m \in T : <<m, n>> \notin R
  BY <1>1, WFMin
<1>3. \A m \in T : <<m, n>> \notin R => ~(m < n)
  BY DEF R, OpToRel
<1> QED BY <1>2, <1>3

LEMMA FirstUsableIsEligible ==
  ASSUME NEW i, NEW v, Len(i.candidates) \in Nat, FirstUsable(i, v) # NoPath
  PROVE  FirstUsable(i, v) \in Eligible(i, v)
<1> DEFINE usable(n) == ~exclusion_reason(i, i.candidates[n], v)
           first(n)  == usable(n) /\ \A m \in 1..(n - 1) : ~usable(m)
           U         == {n \in 1..Len(i.candidates) : usable(n)}
<1> HIDE DEF usable
<1>1. U # {}
  BY DEF FirstUsable, usable
<1>2. PICK n \in U : \A m \in U : ~(m < n)
  <2>1. U \subseteq Nat
    OBVIOUS
  <2> HIDE DEF U
  <2> QED BY <1>1, <2>1, LeastIndex
<1>3. n \in 1..Len(i.candidates) /\ first(n)
  BY <1>2
<1>4. \E m \in 1..Len(i.candidates) : usable(m)
  BY <1>3
<1>5. FirstUsable(i, v) = i.candidates[CHOOSE m \in 1..Len(i.candidates) : first(m)]
  BY <1>4 DEF FirstUsable, usable
<1>6. PICK m \in 1..Len(i.candidates) : first(m) /\ FirstUsable(i, v) = i.candidates[m]
  BY <1>3, <1>5
<1> QED BY <1>6 DEF Eligible, Candidates, usable

\* No candidate behind one that is not excluded is selected.
LEMMA FirstUsableIsPreferred ==
  ASSUME NEW i, NEW v, Len(i.candidates) \in Nat,
         NEW n \in 1..Len(i.candidates), ~exclusion_reason(i, i.candidates[n], v)
  PROVE  \E m \in 1..n : FirstUsable(i, v) = i.candidates[m]
<1> DEFINE usable(j) == ~exclusion_reason(i, i.candidates[j], v)
           first(j)  == usable(j) /\ \A m \in 1..(j - 1) : ~usable(m)
           U         == {j \in 1..Len(i.candidates) : usable(j)}
<1>0. usable(n)
  OBVIOUS
<1> HIDE DEF usable
<1>1. PICK l \in U : \A m \in U : ~(m < l)
  <2>1. U \subseteq Nat /\ U # {}
    BY <1>0
  <2> HIDE DEF U
  <2> QED BY <2>1, LeastIndex
<1>2. l \in 1..Len(i.candidates) /\ first(l)
  BY <1>1
<1>3. FirstUsable(i, v) = i.candidates[CHOOSE m \in 1..Len(i.candidates) : first(m)]
  BY <1>0 DEF FirstUsable, usable
<1>4. PICK m \in 1..Len(i.candidates) : first(m) /\ FirstUsable(i, v) = i.candidates[m]
  BY <1>2, <1>3
<1>5. m \in 1..n
  BY <1>0, <1>4
<1> QED BY <1>4, <1>5

LEMMA EvaluatedIsEligible ==
  ASSUME NEW i, NEW v, evaluated(i, v) # NoPath
  PROVE  evaluated(i, v) \in Eligible(i, v)
<1> DEFINE best == CHOOSE p \in Best(i, v) : TRUE
<1>1. Best(i, v) # {}
  BY DEF evaluated
<1>2. best \in Eligible(i, v)
  BY <1>1 DEF Best
<1>3. Retained(i, best, v) => v.active \in Eligible(i, v)
  BY DEF Retained, Eligible
<1>4. evaluated(i, v) = IF Retained(i, best, v) THEN v.active ELSE best
  BY <1>1 DEF evaluated
<1> QED BY <1>2, <1>3, <1>4

LEMMA SelectedIsEnabled ==
  ASSUME NEW p, p = en_select_path(Intent, View), p # NoPath
  PROVE  p \in Paths \cap config
<1>1. /\ Len(Intent.candidates) \in Nat
      /\ Intent.mode \in {"explicit", "priority", "evaluated"}
  BY EventnetdAssumption
<1>2. p \in Selectable(Intent) /\ ~exclusion_reason(Intent, p, View)
  <2>1. CASE Intent.mode = "explicit"
    BY <2>1 DEF en_select_path, explicit, Selectable
  <2>2. CASE Intent.mode = "priority"
    BY <1>1, <2>2, FirstUsableIsEligible DEF en_select_path, Selectable, Eligible
  <2>3. CASE Intent.mode = "evaluated"
    BY <2>3, EvaluatedIsEligible DEF en_select_path, Selectable, Eligible
  <2> QED BY <1>1, <2>1, <2>2, <2>3
<1>3. Selectable(Intent) \subseteq Paths
  BY EventnetdAssumption DEF Selectable, Candidates
<1>4. p \in View.enabled
  BY <1>2 DEF exclusion_reason, Suits
<1> QED BY <1>2, <1>3, <1>4 DEF View

-----------------------------------------------------------------------------
(* Types.                                                                  *)

LEMMA StreamReturns ==
  ASSUME NEW status, run_stream_returns(status), reconnect_attempt \in 0..RetryBudget
  PROVE  /\ Destroy /\ UNCHANGED <<mode, config, shutdown>>
         /\ at' \in {"waiting", "stopped", "down"}
         /\ reconnect_attempt' \in 0..RetryBudget
BY EventnetdAssumption
DEF run_stream_returns, StreamSucceeds, StreamFails, MayReconnect, Looping, Exit

LEMMA DestroyType ==
  ASSUME Destroy
  PROVE  /\ applied' = NoPath /\ target' = NoPath /\ standby' = {} /\ heard' = {}
         /\ elapsed' \in 0..Intent.hold_down_ms
         /\ table' \in [Paths -> Lines \cup {Unknown}]
         /\ lines' \in 0..(BatchSize - 1) /\ iteration' \in Nat
         /\ succeeded' \in BOOLEAN
<1>1. 0 \in 0..Intent.hold_down_ms /\ 0 \in 0..(BatchSize - 1)
  BY EventnetdAssumption
<1>2. [p \in Paths |-> Unknown] \in [Paths -> Lines \cup {Unknown}]
  OBVIOUS
<1> QED BY <1>1, <1>2 DEF Destroy

LEMMA UnsavedType == Unsaved \in BOOLEAN
BY DEF Unsaved

LEMMA TypeKept ==
  ASSUME EventnetdTypeOK, [EventnetdNext]_evars
  PROVE  EventnetdTypeOK'
<1> USE EventnetdAssumption DEF EventnetdTypeOK, PathOrNone, Places, AllModes
<1>1. CASE start
  BY <1>1 DEF start, Running, outside, process, stream
<1>2. CASE wait
  BY <1>2 DEF wait, reload, AllModes, outside, process, stream
<1>3. CASE leave_loop
  BY <1>3 DEF leave_loop, Exit, Looping, outside, process, stream
<1>4. CASE restore_state
  BY <1>4 DEF restore_state, Restorable, outside, process, stream
<1>5. CASE restore_fails
  BY <1>5, StreamReturns, DestroyType DEF restore_fails, outside, process, stream
<1>6. CASE next_line
  BY <1>6 DEF next_line, outside, process, stream
<1>7. CASE end_of_stream
  BY <1>7, StreamReturns, DestroyType DEF end_of_stream, StreamEnds, outside, process, stream
<1>8. CASE submit
  BY <1>8, SelectedIsEnabled DEF submit, outside, process, stream
<1>9. CASE switch_completes
  <2>1. standby' \subseteq Paths
    BY <1>9 DEF switch_completes
  <2>2. {state_file', active', applied', target'} \subseteq PathOrNone
    BY <1>9 DEF switch_completes
  <2>3. target' # NoPath /\ elapsed' \in 0..Intent.hold_down_ms
    BY <1>9 DEF switch_completes
  <2> QED BY <1>9, <2>1, <2>2, <2>3 DEF switch_completes, process
<1>10. CASE switch_undone
  BY <1>10, StreamReturns, DestroyType DEF switch_undone, Withdrawn, outside, process, stream
<1>11. CASE switch_breaks
  BY <1>11, StreamReturns, DestroyType DEF switch_breaks, Midway, outside, process, stream
<1>12. CASE save
  BY <1>12 DEF save, outside, process, stream
<1>13. CASE save_fails
  <2>1. torn' \in BOOLEAN
    BY <1>13, UnsavedType DEF save_fails
  <2>2. {temporary', shutdown', succeeded', torn'} \subseteq BOOLEAN
    BY <1>13, <2>1, StreamReturns, DestroyType DEF save_fails
  <2> QED BY <1>13, <2>2, StreamReturns, DestroyType DEF save_fails
<1>14. CASE rename
  <2>1. {state_file', active', applied', target'} \subseteq PathOrNone
    BY <1>14 DEF rename
  <2>2. {temporary', shutdown', succeeded', torn'} \subseteq BOOLEAN
    BY <1>14 DEF rename, process
  <2> QED BY <1>14, <2>1, <2>2 DEF rename, process
<1>15. CASE rename_fails
  <2>1. torn' \in BOOLEAN
    BY <1>15, UnsavedType DEF rename_fails
  <2>2. {temporary', shutdown', succeeded', torn'} \subseteq BOOLEAN
    BY <1>15, <2>1, StreamReturns, DestroyType DEF rename_fails
  <2> QED BY <1>15, <2>2, StreamReturns, DestroyType DEF rename_fails
<1>16. CASE \E p \in Paths, h \in Lines : read_line(p, h)
  BY <1>16 DEF read_line, TableWith, outside, process, stream
<1>17. CASE skip_line
  BY <1>17 DEF skip_line, outside, process, stream
<1>18. CASE reject_line
  BY <1>18, StreamReturns, DestroyType DEF reject_line, outside, process, stream
<1>19. CASE end_of_input
  BY <1>19, StreamReturns, DestroyType DEF end_of_input, StreamEnds, outside, process, stream
<1>20. CASE Tick
  BY <1>20 DEF Tick, outside, process, stream
<1>21. CASE accept
  BY <1>21 DEF accept, outside, process, stream
<1>22. CASE accept_fails
  BY <1>22 DEF accept_fails, Exit, outside, process, stream
<1>23. CASE sighup
  BY <1>23 DEF sighup, reload, outside, process, stream
<1>24. CASE sigterm
  BY <1>24 DEF sigterm, Interrupted, Running, outside, process, stream
<1>25. CASE edit
  BY <1>25 DEF edit, outside, process, stream
<1>26. CASE crash
  <2>1. torn' \in BOOLEAN
    BY <1>26, UnsavedType DEF crash
  <2>2. active' \in PathOrNone
    BY <1>26 DEF crash, Midway
  <2>3. {temporary', shutdown', succeeded', torn'} \subseteq BOOLEAN
    BY <1>26, <2>1, DestroyType DEF crash
  <2>4. /\ Destroy /\ at' = "down" /\ reconnect_attempt' = 0
        /\ UNCHANGED <<yaml, state_file, mode, config>>
    BY <1>26 DEF crash
  <2> QED BY <2>2, <2>3, <2>4, DestroyType
<1>27. CASE UNCHANGED evars
  BY <1>27 DEF evars, outside, process, stream
<1> QED
  BY <1>1, <1>2, <1>3, <1>4, <1>5, <1>6, <1>7, <1>8, <1>9, <1>10, <1>11,
     <1>12, <1>13, <1>14, <1>15, <1>16, <1>17, <1>18, <1>19, <1>20, <1>21,
     <1>22, <1>23, <1>24, <1>25, <1>26, <1>27
  DEF EventnetdNext, Proceed, Telemetry

-----------------------------------------------------------------------------
(* The state file and the forwarding.                                      *)

InStream == {"reading", "blocked", "submitting", "switching", "saving", "renaming"}

\* What a stream knows of the path that is applied is what the file says, until
\* the switch that is about to be saved; and it is a path that is enabled.
StreamOK ==
  /\ at \notin InStream => applied = NoPath
  /\ {applied, target} \subseteq config \cup {NoPath}
  /\ at \in {"reading", "blocked", "submitting", "switching"} => applied = state_file
  /\ at \in {"saving", "renaming"} => applied = target

\* FileNamesActive, with what is so before and during the saving.
SavedOK ==
  ~torn => active = IF at \in {"saving", "renaming"} THEN target ELSE state_file

LEMMA StreamKept ==
  ASSUME EventnetdTypeOK, StreamOK, [EventnetdNext]_evars
  PROVE  StreamOK'
<1> USE DEF EventnetdTypeOK, StreamOK, InStream
<1>1. CASE start
  BY <1>1 DEF start, Running, outside, process, stream
<1>2. CASE wait
  BY <1>2 DEF wait, reload, AllModes, outside, process, stream
<1>3. CASE leave_loop
  BY <1>3 DEF leave_loop, Exit, Looping, outside, process, stream
<1>4. CASE restore_state
  BY <1>4 DEF restore_state, Restorable, outside, process, stream
<1>5. CASE restore_fails
  BY <1>5, StreamReturns, DestroyType DEF restore_fails, outside, process, stream
<1>6. CASE next_line
  BY <1>6 DEF next_line, outside, process, stream
<1>7. CASE end_of_stream
  BY <1>7, StreamReturns, DestroyType DEF end_of_stream, StreamEnds, outside, process, stream
<1>8. CASE submit
  BY <1>8, SelectedIsEnabled DEF submit, outside, process, stream
<1>9. CASE switch_completes
  BY <1>9 DEF switch_completes, outside, process, stream
<1>10. CASE switch_undone
  BY <1>10, StreamReturns, DestroyType DEF switch_undone, outside, process, stream
<1>11. CASE switch_breaks
  BY <1>11, StreamReturns, DestroyType DEF switch_breaks, outside, process, stream
<1>12. CASE save
  BY <1>12 DEF save, outside, process, stream
<1>13. CASE save_fails
  BY <1>13, StreamReturns, DestroyType DEF save_fails, outside, process, stream
<1>14. CASE rename
  BY <1>14 DEF rename, outside, process, stream
<1>15. CASE rename_fails
  BY <1>15, StreamReturns, DestroyType DEF rename_fails, outside, process, stream
<1>16. CASE \E p \in Paths, h \in Lines : read_line(p, h)
  BY <1>16 DEF read_line, TableWith, outside, process, stream
<1>17. CASE skip_line
  BY <1>17 DEF skip_line, outside, process, stream
<1>18. CASE reject_line
  BY <1>18, StreamReturns, DestroyType DEF reject_line, outside, process, stream
<1>19. CASE end_of_input
  BY <1>19, StreamReturns, DestroyType DEF end_of_input, StreamEnds, outside, process, stream
<1>20. CASE Tick
  BY <1>20 DEF Tick, outside, process, stream
<1>21. CASE accept
  BY <1>21 DEF accept, outside, process, stream
<1>22. CASE accept_fails
  BY <1>22 DEF accept_fails, Exit, outside, process, stream
<1>23. CASE sighup
  BY <1>23 DEF sighup, reload, outside, process, stream
<1>24. CASE sigterm
  BY <1>24 DEF sigterm, Interrupted, Running, outside, process, stream
<1>25. CASE edit
  BY <1>25 DEF edit, outside, process, stream
<1>26. CASE crash
  BY <1>26, DestroyType DEF crash, Running, outside, process, stream
<1>27. CASE UNCHANGED evars
  BY <1>27 DEF evars, outside, process, stream
<1> QED
  BY <1>1, <1>2, <1>3, <1>4, <1>5, <1>6, <1>7, <1>8, <1>9, <1>10, <1>11,
     <1>12, <1>13, <1>14, <1>15, <1>16, <1>17, <1>18, <1>19, <1>20, <1>21,
     <1>22, <1>23, <1>24, <1>25, <1>26, <1>27
  DEF EventnetdNext, Proceed, Telemetry

LEMMA SavedKept ==
  ASSUME EventnetdTypeOK, StreamOK, SavedOK, [EventnetdNext]_evars
  PROVE  SavedOK'
<1> USE DEF EventnetdTypeOK, StreamOK, SavedOK, InStream
<1>1. CASE start
  BY <1>1 DEF start, Running, outside, process, stream
<1>2. CASE wait
  BY <1>2 DEF wait, reload, AllModes, outside, process, stream
<1>3. CASE leave_loop
  BY <1>3 DEF leave_loop, Exit, Looping, outside, process, stream
<1>4. CASE restore_state
  BY <1>4 DEF restore_state, Restorable, outside, process, stream
<1>5. CASE restore_fails
  BY <1>5, StreamReturns, DestroyType DEF restore_fails, outside, process, stream
<1>6. CASE next_line
  BY <1>6 DEF next_line, outside, process, stream
<1>7. CASE end_of_stream
  BY <1>7, StreamReturns, DestroyType DEF end_of_stream, StreamEnds, outside, process, stream
<1>8. CASE submit
  BY <1>8 DEF submit, outside, process, stream
<1>9. CASE switch_completes
  BY <1>9 DEF switch_completes, outside, process, stream
<1>10. CASE switch_undone
  BY <1>10, StreamReturns, DestroyType DEF switch_undone, Withdrawn, outside, process, stream
<1>11. CASE switch_breaks
  BY <1>11, StreamReturns, DestroyType DEF switch_breaks, Midway, outside, process, stream
<1>12. CASE save
  BY <1>12 DEF save, outside, process, stream
<1>13. CASE save_fails
  BY <1>13, StreamReturns, DestroyType DEF save_fails, Unsaved, outside, process, stream
<1>14. CASE rename
  BY <1>14 DEF rename, outside, process, stream
<1>15. CASE rename_fails
  BY <1>15, StreamReturns, DestroyType DEF rename_fails, Unsaved, outside, process, stream
<1>16. CASE \E p \in Paths, h \in Lines : read_line(p, h)
  BY <1>16 DEF read_line, TableWith, outside, process, stream
<1>17. CASE skip_line
  BY <1>17 DEF skip_line, outside, process, stream
<1>18. CASE reject_line
  BY <1>18, StreamReturns, DestroyType DEF reject_line, outside, process, stream
<1>19. CASE end_of_input
  BY <1>19, StreamReturns, DestroyType DEF end_of_input, StreamEnds, outside, process, stream
<1>20. CASE Tick
  BY <1>20 DEF Tick, outside, process, stream
<1>21. CASE accept
  BY <1>21 DEF accept, outside, process, stream
<1>22. CASE accept_fails
  BY <1>22 DEF accept_fails, Exit, outside, process, stream
<1>23. CASE sighup
  BY <1>23 DEF sighup, reload, outside, process, stream
<1>24. CASE sigterm
  BY <1>24 DEF sigterm, Interrupted, Running, outside, process, stream
<1>25. CASE edit
  BY <1>25 DEF edit, outside, process, stream
<1>26. CASE crash
  BY <1>26, DestroyType DEF crash, Midway, Unsaved, Running, outside, process, stream
<1>27. CASE UNCHANGED evars
  BY <1>27 DEF evars, outside, process, stream
<1> QED
  BY <1>1, <1>2, <1>3, <1>4, <1>5, <1>6, <1>7, <1>8, <1>9, <1>10, <1>11,
     <1>12, <1>13, <1>14, <1>15, <1>16, <1>17, <1>18, <1>19, <1>20, <1>21,
     <1>22, <1>23, <1>24, <1>25, <1>26, <1>27
  DEF EventnetdNext, Proceed, Telemetry

EventnetdInv == EventnetdTypeOK /\ StreamOK /\ SavedOK

LEMMA InvAtFirst ==
  ASSUME EventnetdInit
  PROVE  EventnetdInv
<1>1. EventnetdTypeOK
  <2>1. mode \in AllModes /\ yaml \in SUBSET Paths
    BY EventnetdAssumption DEF EventnetdInit
  <2>2. /\ reconnect_attempt \in 0..RetryBudget
        /\ elapsed \in 0..Intent.hold_down_ms
        /\ lines \in 0..(BatchSize - 1) /\ iteration \in Nat
    BY EventnetdAssumption DEF EventnetdInit
  <2>3. table \in [Paths -> Lines \cup {Unknown}]
    BY DEF EventnetdInit
  <2> QED BY <2>1, <2>2, <2>3 DEF EventnetdInit, EventnetdTypeOK, PathOrNone, Places
<1>2. StreamOK /\ SavedOK
  BY DEF EventnetdInit, StreamOK, SavedOK, InStream
<1> QED BY <1>1, <1>2 DEF EventnetdInv

LEMMA InvHolds == EventnetdSpec => []EventnetdInv
<1>1. EventnetdInv /\ [EventnetdNext]_evars => EventnetdInv'
  BY TypeKept, StreamKept, SavedKept DEF EventnetdInv
<1> QED BY <1>1, InvAtFirst, PTL DEF EventnetdSpec

(* The table, the counters and the place of the daemon stay in their types, *)
(* the budget for reconnections included (run_socket, eventnetd.c:978-989). *)
THEOREM EventnetdTypeCorrect == EventnetdSpec => []EventnetdTypeOK
<1>1. EventnetdInv => EventnetdTypeOK
  BY DEF EventnetdInv
<1> QED BY <1>1, InvHolds, PTL

(* Between two submissions the state file names the path the traffic        *)
(* follows, unless a stop or a failed rollback or save parted them          *)
(* (persist_state, eventnetd.c:403-446).                                    *)
THEOREM StateFileNamesActive == EventnetdSpec => []FileNamesActive
<1>1. EventnetdInv => FileNamesActive
  BY DEF EventnetdInv, SavedOK, FileNamesActive
<1> QED BY <1>1, InvHolds, PTL

(* No switch, no rollback and no stop in the middle of one moves traffic to *)
(* a path that the configuration in force disables (restore_state,          *)
(* eventnetd.c:390-393).                                                    *)
THEOREM NothingMovedToDisabled == EventnetdSpec => NeverForwardsToDisabled
<1> DEFINE Enabling == active' # active /\ active' \in Paths => active' \in config
<1>1. EventnetdInv /\ [EventnetdNext]_evars => [Enabling]_evars
  <2> SUFFICES ASSUME EventnetdInv, EventnetdNext, active' # active, active' \in Paths
               PROVE  active' \in config
    OBVIOUS
  <2>1. {applied, target} \subseteq config \cup {NoPath} /\ NoPath \notin Paths
    BY EventnetdAssumption DEF EventnetdInv, StreamOK
  <2>2. active' \in {applied, target, NoPath}
    <3>1. CASE switch_completes
      BY <3>1 DEF switch_completes
    <3>2. CASE switch_undone
      BY <3>2 DEF switch_undone, Withdrawn
    <3>3. CASE switch_breaks
      BY <3>3 DEF switch_breaks, Midway
    <3>4. CASE crash
      BY <3>4 DEF crash, Midway
    <3>5. CASE Telemetry
      BY <3>5 DEF Telemetry, read_line, skip_line, reject_line, end_of_input,
                  StreamEnds, outside
    <3>6. CASE \/ start \/ wait \/ leave_loop \/ accept \/ accept_fails
               \/ sighup \/ sigterm \/ edit \/ Tick \/ submit
      BY <3>6 DEF start, wait, leave_loop, accept, accept_fails, sighup, sigterm,
                  edit, Tick, submit, outside
    <3>7. CASE \/ restore_state \/ restore_fails \/ next_line \/ end_of_stream
               \/ save \/ save_fails \/ rename \/ rename_fails
      BY <3>7 DEF restore_state, restore_fails, next_line, end_of_stream,
                  StreamEnds, save, save_fails, rename, rename_fails, outside
    <3> QED
      BY <3>1, <3>2, <3>3, <3>4, <3>5, <3>6, <3>7 DEF EventnetdNext, Proceed
  <2> QED BY <2>1, <2>2
<1> QED BY <1>1, InvHolds, PTL DEF EventnetdSpec, NeverForwardsToDisabled

-----------------------------------------------------------------------------
(* What a stream has heard.                                                *)

\* The paths whose last line said healthy are so in the table.
HeardOK == \A p \in heard : Usable(table[p])

LEMMA HeardKept ==
  ASSUME EventnetdTypeOK, HeardOK, [EventnetdNext]_evars
  PROVE  HeardOK'
<1>1. CASE UNCHANGED <<table, heard>>
  BY <1>1 DEF HeardOK, Usable
<1>2. CASE heard' = {}
  BY <1>2 DEF HeardOK
<1>3. ASSUME NEW p \in Paths, NEW h \in Lines, read_line(p, h)
      PROVE  HeardOK'
  BY <1>3 DEF read_line, TableWith, HeardOK, EventnetdTypeOK, Usable
<1>4. ASSUME \/ restore_fails \/ end_of_stream \/ switch_undone \/ switch_breaks
             \/ save_fails \/ rename_fails \/ reject_line \/ end_of_input \/ crash
      PROVE  heard' = {}
  BY <1>4 DEF restore_fails, end_of_stream, StreamEnds, switch_undone, switch_breaks,
    save_fails, rename_fails, reject_line, end_of_input, crash, run_stream_returns, Destroy
<1>5. ASSUME \/ start \/ wait \/ leave_loop \/ restore_state \/ next_line \/ submit
             \/ switch_completes \/ save \/ rename \/ skip_line \/ Tick \/ accept
             \/ accept_fails \/ sighup \/ sigterm \/ edit \/ UNCHANGED evars
      PROVE  UNCHANGED <<table, heard>>
  BY <1>5 DEF start, wait, leave_loop, restore_state, next_line, submit, switch_completes,
    save, rename, skip_line, Tick, accept, accept_fails, sighup, sigterm, edit, evars, stream
<1> QED BY <1>1, <1>2, <1>3, <1>4, <1>5 DEF EventnetdNext, Proceed, Telemetry

(* While the last line about the preferred path said healthy, a submission  *)
(* of the same stream does not leave it, for any constraints it meets, any  *)
(* order and grouping of the lines, and in every mode (eventnetd.c:685).    *)
THEOREM HealthyPathKept == EventnetdSpec => StreamKeepsHealthyPath
<1> DEFINE Leaves == /\ at = "submitting" /\ at' = "switching"
                     /\ Intent.mode = "priority" /\ applied = Intent.candidates[1]
                     /\ applied \in heard /\ Suits(Intent, applied, View)
<1>1. EventnetdTypeOK /\ HeardOK /\ [EventnetdNext]_evars => [~Leaves]_evars
  <2> SUFFICES ASSUME EventnetdTypeOK, HeardOK, EventnetdNext, Leaves PROVE FALSE
    OBVIOUS
  <2>1. submit
    <3>1. ASSUME \/ restore_fails \/ end_of_stream \/ end_of_input \/ reject_line
                 \/ switch_undone \/ switch_breaks \/ save_fails \/ rename_fails
          PROVE  FALSE
      BY <3>1, StreamReturns DEF EventnetdTypeOK, restore_fails, end_of_stream, end_of_input,
        reject_line, StreamEnds, switch_undone, switch_breaks, save_fails, rename_fails
    <3>2. ASSUME \/ start \/ wait \/ leave_loop \/ restore_state \/ next_line
                 \/ switch_completes \/ save \/ rename \/ skip_line \/ Tick \/ accept
                 \/ accept_fails \/ sighup \/ sigterm \/ edit \/ crash
                 \/ \E p \in Paths, h \in Lines : read_line(p, h)
          PROVE  FALSE
      BY <3>2 DEF start, wait, leave_loop, restore_state, next_line, switch_completes, save,
        rename, skip_line, Tick, accept, accept_fails, sighup, sigterm, Interrupted, edit,
        crash, read_line, Exit, Running
    <3> QED BY <3>1, <3>2 DEF EventnetdNext, Proceed, Telemetry
  <2>2. en_select_path(Intent, View) # applied
    BY <2>1 DEF submit
  <2>3. Intent.candidates \in Seq(Paths) /\ applied \in Paths
    BY EventnetdAssumption DEF EventnetdTypeOK
  <2>4. ~exclusion_reason(Intent, applied, View)
    <3>1. View.active = applied /\ Usable(View.health[applied])
      BY DEF View, HeardOK
    <3>2. ~OutOfOrder(Intent, applied, View)
      BY <3>1 DEF OutOfOrder, Usable
    <3> QED BY <3>1, <3>2 DEF exclusion_reason, HeldDown, NotRecovered
  <2>5. CASE Intent.candidates = <<>>
    <3>1. 1..Len(Intent.candidates) = {}
      BY <2>5
    <3>2. en_select_path(Intent, View) = NoPath
      BY <3>1 DEF en_select_path, FirstUsable
    <3> QED BY <2>1, <3>2 DEF submit
  <2>6. CASE Intent.candidates # <<>>
    <3>1. Len(Intent.candidates) \in Nat /\ 1 \in 1..Len(Intent.candidates)
      BY <2>3, <2>6
    <3>2. \E m \in 1..1 : FirstUsable(Intent, View) = Intent.candidates[m]
      BY <2>4, <3>1, FirstUsableIsPreferred
    <3> QED BY <2>2, <3>2 DEF en_select_path
  <2> QED BY <2>5, <2>6
<1>2. EventnetdInit => HeardOK
  BY DEF EventnetdInit, HeardOK
<1> QED BY <1>1, <1>2, HeardKept, EventnetdTypeCorrect, PTL DEF EventnetdSpec, StreamKeepsHealthyPath
=============================================================================
