---------------------------- MODULE DaemonProofs ----------------------------
(***************************************************************************)
(* Theorems about Daemon for any number of sources, of requests answered   *)
(* at a time and any limits on cycles.                                     *)
(***************************************************************************)
EXTENDS Daemon, TLAPS

Ending == {"stopping", "closed", "stopped"}

(* As long as the daemon goes on, the limit is not reached. *)
BelowLimit ==
  settings.max_cycles > 0 /\ pc \notin Ending => state.cycles_completed < settings.max_cycles

(* The sources have their turn in order, and last_failed_sync remembers     *)
(* whenever one had none; before the servers are up nobody reads.           *)
Turns ==
  /\ pc = "sync" => synced = 1..(source - 1)
  /\ pc = "end" => synced = Sources \/ state.last_failed_sync
  /\ ~whole => state.last_failed_sync
  /\ pc \in {"start", "touch", "servers"} => ~serving /\ \A r \in Readers : reader[r] = IdleReader

(* What a request has seen so far, and that what speaks against "ok" still  *)
(* does when it gets there.                                                 *)
Reading(r) ==
  /\ reader[r].pc # "idle" => reader[r].answer = "none"
  /\ ~reader[r].whole => state.last_failed_sync
  /\ reader[r].pc = "errors" => /\ reader[r].depth # "unread"
                                /\ reader[r].depth = "unreadable" => ~state.state_db_writable
  /\ reader[r].pc = "verdict" => reader[r].depth \in {"empty", "pending"}
  /\ reader[r].answer = "ok" => reader[r].depth = "empty" /\ reader[r].whole

(* A cycle is under way only while none has ended since the signal. *)
Obeys ==
  /\ ~stop_event => late = 0
  /\ pc \in {"refresh", "sync", "end"} => late = 0
  /\ late <= 1

-----------------------------------------------------------------------------
(* Types *)

LEMMA IdleReaderType == IdleReader \in ReaderStates
BY DEF IdleReader, ReaderStates

LEMMA RefreshKeeps ==
  ASSUME TypeOK, Refresh
  PROVE  /\ state' \in States
         /\ state'.cycles_completed = state.cycles_completed
         /\ state'.last_failed_sync = state.last_failed_sync
         /\ state'.state_db_writable = state.state_db_writable
BY DEF Refresh, TypeOK, States

(* What the threads that answer requests leave alone. *)
LEMMA HealthKeeps ==
  ASSUME TypeOK, NEW r \in Readers, Health(r)
  PROVE  /\ UNCHANGED Others
         /\ state' \in States
         /\ state'.cycles_completed = state.cycles_completed
         /\ state'.last_failed_sync = state.last_failed_sync
         /\ state'.state_db_writable => state.state_db_writable
<1>1. ASSUME state' = state
      PROVE  /\ state' \in States
             /\ state'.cycles_completed = state.cycles_completed
             /\ state'.last_failed_sync = state.last_failed_sync
             /\ state'.state_db_writable => state.state_db_writable
  BY <1>1 DEF TypeOK
<1>2. CASE Request(r)
  BY <1>1, <1>2 DEF Request
<1>3. CASE ReadDepth(r)
  BY <1>3 DEF ReadDepth, TypeOK, States
<1>4. CASE ReadErrors(r)
  BY <1>1, <1>4 DEF ReadErrors
<1>5. CASE Verdict(r)
  BY <1>1, <1>5 DEF Verdict
<1> QED BY <1>2, <1>3, <1>4, <1>5 DEF Health

LEMMA HealthReaders ==
  ASSUME TypeOK, NEW r \in Readers, Health(r)
  PROVE  reader' \in [Readers -> ReaderStates]
<1>1. reader[r] \in ReaderStates /\ reader \in [Readers -> ReaderStates]
  BY DEF TypeOK
<1>2. CASE Request(r)
  <2>1. [IdleReader EXCEPT !.pc = "depth", !.whole = whole] \in ReaderStates
    BY DEF TypeOK, IdleReader, ReaderStates
  <2> QED BY <1>1, <1>2, <2>1 DEF Request
<1>3. CASE ReadDepth(r)
  <2>1. PICK depth \in {"empty", "pending", "unreadable"} :
          reader' = [reader EXCEPT ![r].pc = "errors", ![r].depth = depth]
    BY <1>3 DEF ReadDepth
  <2>2. [reader[r] EXCEPT !.pc = "errors", !.depth = depth] \in ReaderStates
    BY <1>1 DEF ReaderStates
  <2> QED BY <1>1, <2>1, <2>2
<1>4. CASE ReadErrors(r)
  BY <1>1, <1>4 DEF ReadErrors, Answer, ReaderStates
<1>5. CASE Verdict(r)
  BY <1>1, <1>5 DEF Verdict, Answer, ReaderStates
<1> QED BY <1>2, <1>3, <1>4, <1>5 DEF Health

LEMMA TypeStep == TypeOK /\ BelowLimit /\ [Next]_vars => TypeOK' /\ BelowLimit'
<1> SUFFICES ASSUME TypeOK, BelowLimit, [Next]_vars
             PROVE  TypeOK' /\ BelowLimit'
  OBVIOUS
<1> USE SourcesAssumption, CyclesAssumption
<1>1. CASE StartUp
  <2>1. Refresh
    BY <1>1 DEF StartUp
  <2> QED BY <1>1, <2>1, RefreshKeeps
          DEF StartUp, Goto, History, TypeOK, BelowLimit, Settings, Places, Ending
<1>2. CASE TouchStateDb
  BY <1>2 DEF TouchStateDb, Goto, History, TypeOK, BelowLimit, Settings, States, Places, Ending
<1>3. CASE StartHttpServers
  BY <1>3 DEF StartHttpServers, Goto, History, TypeOK, BelowLimit, Settings, States, Places, Ending
<1>4. CASE Loop
  BY <1>4 DEF Loop, Goto, History, TypeOK, BelowLimit, Places, Ending
<1>5. CASE BeginCycle
  <2>1. Refresh
    BY <1>5 DEF BeginCycle
  <2> QED BY <1>5, <2>1, RefreshKeeps
          DEF BeginCycle, Goto, TypeOK, BelowLimit, Settings, Places, Ending
<1>6. CASE SyncSource
  BY <1>6 DEF SyncSource, Goto, TypeOK, BelowLimit, Places, Ending, Sources
<1>7. CASE FailCycle
  BY <1>7 DEF FailCycle, Goto, History, TypeOK, BelowLimit, States, Places, Ending
<1>8. CASE LogCycle
  BY <1>8 DEF LogCycle, Goto, History, TypeOK, BelowLimit, States, Places, Ending
<1>9. CASE EndCycle
  BY <1>9 DEF EndCycle, Goto, TypeOK, BelowLimit, Settings, States, Places, Ending
<1>10. CASE Wait
  BY <1>10 DEF Wait, Goto, History, TypeOK, BelowLimit, Places, Ending
<1>11. CASE StopHttpServers
  BY <1>11 DEF StopHttpServers, Goto, History, TypeOK, BelowLimit, Places, Ending
<1>12. CASE Return
  BY <1>12 DEF Return, Goto, History, TypeOK, BelowLimit, States, Places, Ending
<1>13. ASSUME NEW r \in Readers, Health(r)
       PROVE  TypeOK' /\ BelowLimit'
  BY <1>13, HealthKeeps, HealthReaders DEF Others, TypeOK, BelowLimit
<1>14. CASE Metrics
  BY <1>14 DEF Metrics, Others, TypeOK, BelowLimit, States
<1>15. CASE Signal
  BY <1>15 DEF Signal, main, TypeOK, BelowLimit
<1>16. CASE Disturb
  BY <1>16 DEF Disturb, main, TypeOK, BelowLimit
<1>17. CASE UNCHANGED vars
  BY <1>17 DEF vars, main, TypeOK, BelowLimit
<1> QED BY <1>1, <1>2, <1>3, <1>4, <1>5, <1>6, <1>7, <1>8, <1>9, <1>10, <1>11, <1>12, <1>13,
           <1>14, <1>15, <1>16, <1>17 DEF Next, Main

(* The daemon's state keeps its types, and never completes more cycles than *)
(* max_cycles.                                                              *)
THEOREM DaemonTypeCorrect == Spec => []TypeOK
<1>1. Init => TypeOK /\ BelowLimit
  <2> SUFFICES ASSUME Init
               PROVE  TypeOK /\ BelowLimit
    OBVIOUS
  <2>1. state \in States /\ state.cycles_completed = 0
    BY DEF Init, States
  <2>2. settings \in Settings /\ settings.max_cycles \in Nat
    BY CyclesAssumption DEF Init, Settings
  <2>3. reader \in [Readers -> ReaderStates]
    BY IdleReaderType DEF Init
  <2>4. /\ settings.max_cycles > 0 => state.cycles_completed <= settings.max_cycles
        /\ BelowLimit
    BY <2>1, <2>2 DEF BelowLimit
  <2>5. pc \in Places /\ source \in 1..(NSources + 1) /\ late \in 0..2
    BY SourcesAssumption DEF Init, Places
  <2> QED BY <2>1, <2>2, <2>3, <2>4, <2>5 DEF Init, TypeOK
<1> QED BY <1>1, TypeStep, PTL DEF Spec

-----------------------------------------------------------------------------
(* A signal is obeyed *)

(* Besides the cycle it falls into, no cycle ends after a signal, whatever  *)
(* fails.                                                                   *)
THEOREM StopsSoon == Spec => []NoCycleAfterStop
<1>1. Init => Obeys
  BY DEF Init, Obeys
<1>2. TypeOK /\ Obeys /\ [Next]_vars => Obeys'
  <2> SUFFICES ASSUME TypeOK, Obeys, [Next]_vars
               PROVE  Obeys'
    OBVIOUS
  <2>1. CASE StartUp \/ TouchStateDb \/ StartHttpServers
    BY <2>1 DEF StartUp, TouchStateDb, StartHttpServers, Goto, History, Obeys
  <2>2. CASE Loop \/ Wait
    BY <2>2 DEF Loop, Wait, Goto, History, Obeys
  <2>3. CASE BeginCycle \/ SyncSource \/ FailCycle \/ LogCycle
    BY <2>3 DEF BeginCycle, SyncSource, FailCycle, LogCycle, Goto, History, Obeys
  <2>4. CASE EndCycle
    BY <2>4 DEF EndCycle, Goto, Obeys, TypeOK
  <2>5. CASE StopHttpServers \/ Return
    BY <2>5 DEF StopHttpServers, Return, Goto, History, Obeys
  <2>6. ASSUME NEW r \in Readers, Health(r)
        PROVE  Obeys'
    BY <2>6, HealthKeeps DEF Others, Obeys
  <2>7. CASE Metrics \/ Signal \/ Disturb \/ UNCHANGED vars
    BY <2>7 DEF Metrics, Others, Signal, Disturb, vars, main, Obeys
  <2> QED BY <2>1, <2>2, <2>3, <2>4, <2>5, <2>6, <2>7 DEF Next, Main
<1>3. Obeys => NoCycleAfterStop
  BY DEF Obeys, NoCycleAfterStop
<1> QED BY <1>1, <1>2, <1>3, DaemonTypeCorrect, PTL DEF Spec

-----------------------------------------------------------------------------
(* "ok" is the truth *)

Truth == Turns /\ \A r \in Readers : Reading(r)

LEMMA TurnsStep == TypeOK /\ Turns /\ [Next]_vars => Turns'
<1> SUFFICES ASSUME TypeOK, Turns, [Next]_vars
             PROVE  Turns'
  OBVIOUS
<1> USE SourcesAssumption
<1>1. CASE StartUp
  <2>1. Refresh
    BY <1>1 DEF StartUp
  <2> QED BY <1>1, <2>1, RefreshKeeps DEF StartUp, Goto, History, Turns
<1>2. CASE TouchStateDb
  BY <1>2 DEF TouchStateDb, Goto, History, Turns, TypeOK, States
<1>3. CASE StartHttpServers
  BY <1>3 DEF StartHttpServers, Goto, History, Turns, TypeOK, States
<1>4. CASE Loop \/ Wait
  BY <1>4 DEF Loop, Wait, Goto, History, Turns
<1>5. CASE BeginCycle
  <2>1. Refresh
    BY <1>5 DEF BeginCycle
  <2>2. 1..(1 - 1) = {}
    OBVIOUS
  <2> QED BY <1>5, <2>1, <2>2, RefreshKeeps DEF BeginCycle, Goto, Turns
<1>6. CASE SyncSource
  <2>1. (1..(source - 1)) \cup {source} = 1..source
    BY <1>6 DEF SyncSource, Sources
  <2> QED BY <1>6, <2>1 DEF SyncSource, Goto, Turns, Sources
<1>7. CASE FailCycle
  BY <1>7 DEF FailCycle, Goto, History, Turns, TypeOK, States
<1>8. CASE LogCycle
  <2>1. source = NSources + 1
    BY <1>8 DEF LogCycle, TypeOK
  <2>2. synced = Sources
    BY <1>8, <2>1 DEF LogCycle, Turns, Sources
  <2> QED BY <1>8, <2>2 DEF LogCycle, Goto, History, Turns, TypeOK, States
<1>9. CASE EndCycle
  BY <1>9 DEF EndCycle, Goto, Turns, TypeOK, States
<1>10. CASE StopHttpServers \/ Return
  BY <1>10 DEF StopHttpServers, Return, Goto, History, Turns, TypeOK, States
<1>11. ASSUME NEW r \in Readers, Health(r)
       PROVE  Turns'
  <2>1. pc \notin {"start", "touch", "servers"}
    BY <1>11 DEF Turns, IdleReader, Health, Request, ReadDepth, ReadErrors, Verdict
  <2> QED BY <1>11, <2>1, HealthKeeps DEF Others, Turns
<1>12. CASE Metrics
  BY <1>12 DEF Metrics, Others, Turns, TypeOK, States
<1>13. CASE Signal \/ Disturb \/ UNCHANGED vars
  BY <1>13 DEF Signal, Disturb, vars, main, Turns
<1> QED BY <1>1, <1>2, <1>3, <1>4, <1>5, <1>6, <1>7, <1>8, <1>9, <1>10, <1>11, <1>12, <1>13
        DEF Next, Main

(* What speaks against "ok" stays while the main thread goes on. *)
LEMMA ReadingKept ==
  ASSUME NEW r \in Readers, Reading(r), reader'[r] = reader[r],
         state.last_failed_sync => state'.last_failed_sync,
         state'.state_db_writable => state.state_db_writable
  PROVE  Reading(r)'
BY DEF Reading

LEMMA MainKeeps ==
  ASSUME TypeOK, Main, pc # "touch"
  PROVE  /\ reader' = reader
         /\ state.last_failed_sync => state'.last_failed_sync
         /\ state'.state_db_writable => state.state_db_writable
<1>1. CASE StartUp \/ BeginCycle
  <2>1. Refresh
    BY <1>1 DEF StartUp, BeginCycle
  <2> QED BY <1>1, <2>1, RefreshKeeps DEF StartUp, BeginCycle, Goto
<1>2. CASE TouchStateDb
  BY <1>2 DEF TouchStateDb
<1>3. CASE StartHttpServers \/ FailCycle \/ LogCycle \/ EndCycle \/ Return
  BY <1>3 DEF StartHttpServers, FailCycle, LogCycle, EndCycle, Return, Goto, TypeOK, States
<1>4. CASE Loop \/ SyncSource \/ Wait \/ StopHttpServers
  BY <1>4 DEF Loop, SyncSource, Wait, StopHttpServers, Goto
<1> QED BY <1>1, <1>2, <1>3, <1>4 DEF Main

LEMMA HealthReads ==
  ASSUME TypeOK, Truth, NEW r \in Readers, Health(r)
  PROVE  Reading(r)'
<1>0. Reading(r) /\ reader[r] \in ReaderStates /\ (~whole => state.last_failed_sync)
  BY DEF Truth, Turns, TypeOK
<1>1. CASE Request(r)
  <2>1. /\ reader'[r].pc = "depth"
        /\ reader'[r].answer = "none"
        /\ reader'[r].whole = whole
        /\ state' = state
    BY <1>1 DEF Request, IdleReader, TypeOK
  <2> QED BY <1>0, <2>1 DEF Reading
<1>2. CASE ReadDepth(r)
  <2>1. PICK depth \in {"empty", "pending", "unreadable"} :
          /\ reader' = [reader EXCEPT ![r].pc = "errors", ![r].depth = depth]
          /\ state' = IF depth = "unreadable" THEN [state EXCEPT !.state_db_writable = FALSE]
                                              ELSE state
    BY <1>2 DEF ReadDepth
  <2>2. /\ reader'[r].pc = "errors"
        /\ reader'[r].depth = depth
        /\ reader'[r].answer = reader[r].answer
        /\ reader'[r].whole = reader[r].whole
    BY <1>0, <2>1 DEF TypeOK, ReaderStates
  <2>3. /\ state'.last_failed_sync = state.last_failed_sync
        /\ depth = "unreadable" => ~state'.state_db_writable
    BY <2>1 DEF TypeOK, States
  <2>4. reader[r].answer = "none"
    BY <1>0, <1>2 DEF ReadDepth, Reading
  <2> QED BY <1>0, <2>2, <2>3, <2>4 DEF Reading
<1>3. CASE ReadErrors(r)
  <2>1. CASE state.permanent_error \/ ~state.state_db_writable
    <3>1. /\ reader'[r].pc = "idle"
          /\ reader'[r].answer = "error"
          /\ reader'[r].whole = reader[r].whole
          /\ state' = state
      BY <1>0, <1>3, <2>1 DEF ReadErrors, Answer, TypeOK, ReaderStates
    <3> QED BY <1>0, <3>1 DEF Reading
  <2>2. CASE ~(state.permanent_error \/ ~state.state_db_writable)
    <3>1. /\ reader'[r].pc = "verdict"
          /\ reader'[r].answer = reader[r].answer
          /\ reader'[r].depth = reader[r].depth
          /\ reader'[r].whole = reader[r].whole
          /\ state' = state
      BY <1>0, <1>3, <2>2 DEF ReadErrors, TypeOK, ReaderStates
    <3>2. reader[r].depth \in {"empty", "pending"} /\ reader[r].answer = "none"
      BY <1>0, <1>3, <2>2 DEF ReadErrors, Reading, ReaderStates
    <3> QED BY <1>0, <3>1, <3>2 DEF Reading
  <2> QED BY <2>1, <2>2
<1>4. CASE Verdict(r)
  <2>1. /\ reader'[r].pc = "idle"
        /\ reader'[r].depth = reader[r].depth
        /\ reader'[r].whole = reader[r].whole
        /\ state' = state
        /\ reader'[r].answer = "ok" => reader[r].depth # "pending" /\ ~state.last_failed_sync
    BY <1>0, <1>4 DEF Verdict, Answer, TypeOK, ReaderStates
  <2> QED BY <1>0, <1>4, <2>1 DEF Verdict, Reading
<1> QED BY <1>1, <1>2, <1>3, <1>4 DEF Health

(* A request that answers "ok" has read an empty queue, and came in after a *)
(* cycle that synced every source, or before the first.                     *)
THEOREM OkIsTheTruth == Spec => []OkIsTrue
<1>1. Init => Truth
  BY DEF Init, Truth, Turns, Reading, IdleReader
<1>2. TypeOK /\ Truth /\ [Next]_vars => Truth'
  <2> SUFFICES ASSUME TypeOK, Truth, [Next]_vars
               PROVE  Truth'
    OBVIOUS
  <2>1. Turns'
    BY TurnsStep DEF Truth
  <2>2. ASSUME NEW r \in Readers
        PROVE  Reading(r)'
    <3>0. Reading(r)
      BY DEF Truth
    <3>1. CASE Main /\ pc # "touch"
      BY <3>0, <3>1, MainKeeps, ReadingKept
    <3>2. CASE Main /\ pc = "touch"
      <4>1. TouchStateDb
        BY <3>2 DEF Main, StartUp, StartHttpServers, Loop, BeginCycle, SyncSource, FailCycle,
                    LogCycle, EndCycle, Wait, StopHttpServers, Return
      <4>2. reader'[r] = IdleReader
        BY <3>2, <4>1 DEF TouchStateDb, Goto, Truth, Turns
      <4> QED BY <4>2 DEF Reading, IdleReader
    <3>3. ASSUME NEW q \in Readers, Health(q)
          PROVE  Reading(r)'
      <4>1. CASE q = r
        BY <3>3, <4>1, HealthReads
      <4>2. CASE q # r
        <5>1. reader'[r] = reader[r]
          BY <3>3, <4>2 DEF Health, Request, ReadDepth, ReadErrors, Verdict, Answer, TypeOK
        <5> QED BY <3>0, <3>3, <5>1, HealthKeeps, ReadingKept
      <4> QED BY <4>1, <4>2
    <3>4. CASE Metrics
      BY <3>0, <3>4, ReadingKept DEF Metrics, TypeOK, States
    <3>5. CASE Signal \/ Disturb \/ UNCHANGED vars
      BY <3>0, <3>5, ReadingKept DEF Signal, Disturb, vars, main
    <3> QED BY <3>1, <3>2, <3>3, <3>4, <3>5 DEF Next
  <2> QED BY <2>1, <2>2 DEF Truth
<1>3. Truth => OkIsTrue
  BY DEF Truth, Reading, OkIsTrue
<1> QED BY <1>1, <1>2, <1>3, DaemonTypeCorrect, PTL DEF Spec

=============================================================================
