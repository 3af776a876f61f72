------------------------------- MODULE Daemon -------------------------------
(***************************************************************************)
(* The daemon: DaemonService (daemon/service.py), its main thread and the  *)
(* threads that answer /health and /metrics (daemon/health.py,             *)
(* daemon/metrics.py), which share its runtime state without a lock.       *)
(*                                                                         *)
(* A step is a call, or the accesses to the shared state between two       *)
(* calls; health_payload is split where another thread can change what it  *)
(* has read.  run_sync is module CollectorSync: here it returns or raises. *)
(*                                                                         *)
(* Abstracted: what is only reported (timestamps, totals, summaries,       *)
(* last_error, last_sync_status); validate_startup, which refuses a        *)
(* configuration before anything is started.                               *)
(***************************************************************************)
EXTENDS Integers, FiniteSets

CONSTANTS
  NSources,    \* settings.sources, in order: 1..NSources
  Readers,     \* requests to /health answered at a time
  MaxCycles    \* the values max_cycles is tried with, 0 for None
               \* (less than 1 acts as 1)

ASSUME SourcesAssumption == NSources \in Nat \ {0}
ASSUME CyclesAssumption == MaxCycles \subseteq Nat

Sources == 1..NSources

VARIABLES
  settings,    \* what the daemon is started with
  pc,          \* where the main thread is
  source,      \* the source whose turn it is in _run_cycle
  state,       \* DaemonRuntimeState
  stop_event,
  serving,     \* the health server takes requests
  reader,      \* the locals of health_payload in each request
  broken,      \* the sources that run_sync raises for
  synced,      \* history: the sources synced since the cycle began
  whole,       \* history: whether the last cycle, if any, synced them all
  late         \* history: cycles that ended since stop_event was set (2: or more)

main == <<pc, source, state, serving, synced, whole, late>>
vars == <<settings, stop_event, reader, broken, main>>

-----------------------------------------------------------------------------
(* Data *)

Settings == [max_cycles : MaxCycles, run_once : BOOLEAN, api : BOOLEAN]

(* last_failed_sync: whether it is set.  cycles_completed counts up to      *)
(* max_cycles: without a limit nothing compares it.                         *)
States == [permanent_error : BOOLEAN, last_failed_sync : BOOLEAN,
           core_reachable : {"None", "True", "False"},
           state_db_writable : BOOLEAN, cycles_completed : Nat]

(* depth is what _failed_upload_depth saw; whole was true when the request  *)
(* came in.                                                                 *)
IdleReader == [pc |-> "idle", depth |-> "unread", answer |-> "none", whole |-> TRUE]

ReaderStates == [pc : {"idle", "depth", "errors", "verdict"},
                 depth : {"unread", "empty", "pending", "unreadable"},
                 answer : {"none", "ok", "degraded", "error"},
                 whole : BOOLEAN]

Places == {"start", "touch", "servers", "loop", "refresh", "sync", "end", "wait",
           "stopping", "closed", "stopped"}

TypeOK ==
  /\ settings \in Settings
  /\ pc \in Places
  /\ source \in 1..(NSources + 1)
  /\ state \in States
  /\ settings.max_cycles > 0 => state.cycles_completed <= settings.max_cycles
  /\ stop_event \in BOOLEAN
  /\ serving \in BOOLEAN
  /\ reader \in [Readers -> ReaderStates]
  /\ broken \subseteq Sources
  /\ synced \subseteq Sources
  /\ whole \in BOOLEAN
  /\ late \in 0..2

Init ==
  /\ settings \in Settings
  /\ pc = "start"
  /\ source = 1
  /\ state = [permanent_error |-> FALSE, last_failed_sync |-> FALSE, core_reachable |-> "None",
              state_db_writable |-> TRUE, cycles_completed |-> 0]
  /\ stop_event = FALSE
  /\ serving = FALSE
  /\ reader = [r \in Readers |-> IdleReader]
  /\ broken = {}
  /\ synced = {}
  /\ whole = TRUE
  /\ late = 0

-----------------------------------------------------------------------------
(* The main thread: run *)

Goto(place) == pc' = place /\ UNCHANGED <<settings, stop_event, reader, broken>>

History == <<synced, whole, late>>

(* _refresh_core_reachable *)
Refresh ==
  \E reachable \in IF settings.api THEN {"True", "False"} ELSE {"None"} :
    state' = [state EXCEPT !.core_reachable = reachable]

(* run, up to _touch_state_db *)
StartUp ==
  /\ pc = "start"
  /\ Refresh
  /\ Goto("touch")
  /\ UNCHANGED <<source, serving, History>>

(* _touch_state_db, which may raise: then the daemon does not start *)
TouchStateDb ==
  /\ pc = "touch"
  /\ \E writable \in BOOLEAN :
       /\ state' = [state EXCEPT !.state_db_writable = writable]
       /\ Goto(IF writable THEN "servers" ELSE "stopped")
  /\ UNCHANGED <<source, serving, History>>

(* _start_http_servers: either server may be disabled, and a port may be    *)
(* taken, for the metrics server when the health server serves already; run *)
(* raises then                                                              *)
StartHttpServers ==
  /\ pc = "servers"
  /\ \E ports \in BOOLEAN :
       /\ serving' \in BOOLEAN
       /\ state' = [state EXCEPT !.permanent_error = ~ports]
       /\ Goto(IF ports THEN "loop" ELSE "stopping")
  /\ UNCHANGED <<source, History>>

Loop ==
  /\ pc = "loop"
  /\ Goto(IF stop_event THEN "stopping" ELSE "refresh")
  /\ UNCHANGED <<source, state, serving, History>>

(* Mutant: the sources are not started over. *)
BeginCycleGoesOn ==
  /\ pc = "refresh"
  /\ Refresh
  /\ synced' = {}
  /\ Goto("sync")
  /\ UNCHANGED <<source, serving, whole, late>>

(* _run_cycle, up to its loop *)
BeginCycle ==
  /\ pc = "refresh"
  /\ Refresh
  /\ source' = 1
  /\ synced' = {}
  /\ Goto("sync")
  /\ UNCHANGED <<serving, whole, late>>

(* _sync_source returns *)
SyncSource ==
  /\ pc = "sync"
  /\ source \in Sources \ broken
  /\ source' = source + 1
  /\ synced' = synced \cup {source}
  /\ Goto("sync")
  /\ UNCHANGED <<state, serving, whole, late>>

(* _sync_source raises: the sources after it have no turn in this cycle *)
FailCycle ==
  /\ pc = "sync"
  /\ source \in broken
  /\ state' = [state EXCEPT !.last_failed_sync = TRUE]
  /\ Goto("end")
  /\ UNCHANGED <<source, serving, History>>

(* the log entry that ends a successful cycle asks for the queue depth *)
LogCycle ==
  /\ pc = "sync"
  /\ source > NSources
  /\ \/ UNCHANGED state
     \/ state' = [state EXCEPT !.state_db_writable = FALSE]
  /\ Goto("end")
  /\ UNCHANGED <<source, serving, History>>

(* Mutant: max_cycles is not looked at. *)
EndCycleUnlimited ==
  /\ pc = "end"
  /\ state' = [state EXCEPT !.cycles_completed = @ + 1]
  /\ whole' = (synced = Sources)
  /\ late' = IF stop_event /\ late < 2 THEN late + 1 ELSE late
  /\ Goto("wait")
  /\ UNCHANGED <<source, serving, synced>>

(* the finally clause of _run_cycle, and whether run goes on *)
EndCycle ==
  /\ pc = "end"
  /\ LET limit == settings.max_cycles
         cycles == IF limit = 0 THEN 0 ELSE state.cycles_completed + 1
     IN  /\ state' = [state EXCEPT !.cycles_completed = cycles]
         /\ Goto(IF (limit > 0 /\ cycles >= limit) \/ settings.run_once THEN "stopping"
                                                                      ELSE "wait")
  /\ whole' = (synced = Sources)
  /\ late' = IF stop_event /\ late < 2 THEN late + 1 ELSE late
  /\ UNCHANGED <<source, serving, synced>>

(* Mutant: the daemon sleeps and does not look at stop_event. *)
WaitSleeps ==
  /\ pc = "wait"
  /\ Goto("refresh")
  /\ UNCHANGED <<source, state, serving, History>>

(* stop_event.wait returns once the event is set or the time is over *)
Wait ==
  /\ pc = "wait"
  /\ Goto(IF stop_event THEN "stopping" ELSE "loop")
  /\ UNCHANGED <<source, state, serving, History>>

(* _stop_http_servers, in run's finally clause *)
StopHttpServers ==
  /\ pc = "stopping"
  /\ serving' = FALSE
  /\ Goto("closed")
  /\ UNCHANGED <<source, state, History>>

(* run raises, or returns a last health_payload *)
Return ==
  /\ pc = "closed"
  /\ \/ UNCHANGED state
     \/ /\ ~state.permanent_error
        /\ state' = [state EXCEPT !.state_db_writable = FALSE]
  /\ Goto("stopped")
  /\ UNCHANGED <<source, serving, History>>

Main ==
  \/ StartUp
  \/ TouchStateDb
  \/ StartHttpServers
  \/ Loop
  \/ BeginCycle
  \/ SyncSource
  \/ FailCycle
  \/ LogCycle
  \/ EndCycle
  \/ Wait
  \/ StopHttpServers
  \/ Return

-----------------------------------------------------------------------------
(* The other threads *)

Others == <<settings, stop_event, broken, pc, source, serving, synced, whole, late>>

(* /health: a thread of its own calls health_payload *)
Request(r) ==
  /\ serving
  /\ reader[r].pc = "idle"
  /\ reader' = [reader EXCEPT ![r] = [IdleReader EXCEPT !.pc = "depth", !.whole = whole]]
  /\ UNCHANGED <<Others, state>>

(* Mutant: a queue that cannot be read counts as empty. *)
ReadDepthAsEmpty(r) ==
  /\ reader[r].pc = "depth"
  /\ \E depth \in {"empty", "pending", "unreadable"} :
       reader' = [reader EXCEPT ![r].pc = "errors", ![r].depth = depth]
  /\ UNCHANGED <<Others, state>>

(* _failed_upload_depth *)
ReadDepth(r) ==
  /\ reader[r].pc = "depth"
  /\ \E depth \in {"empty", "pending", "unreadable"} :
       /\ reader' = [reader EXCEPT ![r].pc = "errors", ![r].depth = depth]
       /\ state' = IF depth = "unreadable" THEN [state EXCEPT !.state_db_writable = FALSE]
                                           ELSE state
  /\ UNCHANGED Others

Answer(r, answer) ==
  reader' = [reader EXCEPT ![r].pc = "idle", ![r].answer = answer]

(* the first condition on the status ... *)
ReadErrors(r) ==
  /\ reader[r].pc = "errors"
  /\ IF state.permanent_error \/ ~state.state_db_writable
       THEN Answer(r, "error")
       ELSE reader' = [reader EXCEPT ![r].pc = "verdict"]
  /\ UNCHANGED <<Others, state>>

(* ... and the second *)
Verdict(r) ==
  /\ reader[r].pc = "verdict"
  /\ Answer(r, IF \/ reader[r].depth = "pending"
                  \/ state.last_failed_sync
                  \/ state.core_reachable = "False"
                 THEN "degraded"
                 ELSE "ok")
  /\ UNCHANGED <<Others, state>>

(* /metrics asks for the queue depth too *)
Metrics ==
  /\ pc \notin {"start", "touch", "servers"}
  /\ state.state_db_writable
  /\ state' = [state EXCEPT !.state_db_writable = FALSE]
  /\ UNCHANGED <<Others, reader>>

(* SIGINT or SIGTERM, once the handlers are there *)
Signal ==
  /\ pc \notin {"start", "touch", "stopped"}
  /\ stop_event' = TRUE
  /\ UNCHANGED <<settings, reader, broken, main>>

(* a source, or Core for its sync, breaks or works again *)
Disturb ==
  /\ broken' \in SUBSET Sources
  /\ UNCHANGED <<settings, stop_event, reader, main>>

Health(r) == Request(r) \/ ReadDepth(r) \/ ReadErrors(r) \/ Verdict(r)

Next ==
  \/ Main
  \/ \E r \in Readers : Health(r)
  \/ Metrics
  \/ Signal
  \/ Disturb

Spec == Init /\ [][Next]_vars

(* The main thread goes on: HTTP calls and waits have timeouts, and a sync  *)
(* ends (RunsEnd of CollectorSync).                                         *)
FairSpec == Spec /\ WF_vars(Main)

-----------------------------------------------------------------------------
(* Properties *)

(* "ok" is the truth: the queue was read and found empty during the         *)
(* request, and the last cycle before it synced every source, whatever the  *)
(* main thread changes meanwhile (health_payload, daemon/service.py:145-152; *)
(* _failed_upload_depth returns 0 when it cannot read, 315-324).            *)
OkIsTrue ==
  \A r \in Readers :
    reader[r].answer = "ok" => reader[r].depth = "empty" /\ reader[r].whole

(* A signal is obeyed soon: besides the cycle it falls into, no cycle ends  *)
(* after it (DaemonService.run, daemon/service.py:92-103).                  *)
NoCycleAfterStop == late <= 1

(* Graceful shutdown: after a signal the daemon stops, whatever breaks      *)
(* (cli/commands/daemon.py:14-17).                                          *)
ShutsDown == stop_event ~> pc = "stopped"

(* Periodic sync: a source is synced again and again if, from some time on, *)
(* neither it nor a source before it fails, and the daemon is not to stop.  *)
(* A source that fails takes their turn from those after it                 *)
(* (daemon/service.py:92-103, 234-237).                                     *)
SourcesAreSynced ==
  \A s \in Sources :
    <>[](1..s \cap broken = {})
      => []<><<SyncSource /\ source = s>>_vars \/ <>(pc = "stopped")

=============================================================================
