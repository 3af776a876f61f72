------------------------------ MODULE GraphRun ------------------------------
(***************************************************************************)
(* One graph run and its approvals: run_graph and approve_action           *)
(* (langgraph_agent/runner.py) over the run's row in graph_runs and its    *)
(* rows in graph_approvals                                                 *)
(* (langgraph_agent/checkpoints/sqlite_checkpointer.py), for the two       *)
(* graphs that may upload, source_onboarding and investigation_bridge, as  *)
(* the `agent` commands drive them (cli/commands/agent.py).  Every         *)
(* statement names a run or an approval: runs do not affect each other.    *)
(*                                                                         *)
(* A process is one `agent` command.  Every statement is committed on its  *)
(* own.  A node whose only effect is on the state of its graph is one step *)
(* with the save that follows it; the approval gate, the sync and the      *)
(* decisions are split where a crash or another command can fall between.  *)
(*                                                                         *)
(* Abstracted: the reports in the state; graph_events, which nothing reads *)
(* back; the sync itself, which is module CollectorSync: here it uploads,  *)
(* or raises before or after it did.                                       *)
(***************************************************************************)
EXTENDS Integers, FiniteSets

CONSTANTS
  Procs,         \* `agent` commands under way at a time
  Graphs,        \* the graphs run, a subset of GraphNames
  MayCrash,      \* a process may be killed
  MaxApprovals   \* bound: approvals the table may hold

GraphNames == {"source_onboarding", "investigation_bridge"}

ASSUME GraphsAssumption == Graphs \subseteq GraphNames
ASSUME BoundAssumption == MaxApprovals \in Nat /\ MayCrash \in BOOLEAN

VARIABLES
  graph_run,        \* the run's row in table graph_runs
  graph_approvals,  \* table graph_approvals: the status of each approval
  exec,             \* the local variables of each process
  consent           \* history: what the operator last said of the run

vars == <<graph_run, graph_approvals, exec, consent>>

-----------------------------------------------------------------------------
(* Data *)

(* What a run is asked to do: path, export_target and dry_run together.     *)
(* "api", "file" and "dry" have a path; "none" has not, and then the target *)
(* is the default, since nothing is synced anyway.                          *)
Inputs == {"api", "file", "dry", "none"}

Statuses == {"running", "pending_approval", "approved", "rejected", "failed",
             "completed", "core_unavailable", "core_investigation_complete"}

ApprovalIds == 1..MaxApprovals

(* approved is the key the graph reads, approved or sync_approved; request  *)
(* is approval_request["approval_id"], 0 when there is none.  When lost,    *)
(* the state has none of the keys a command gives, and input only recalls   *)
(* what they said.                                                          *)
States == [status : Statuses, approved : BOOLEAN, input : Inputs,
           lost : BOOLEAN, request : 0..MaxApprovals]

FreshState == [status |-> "running", approved |-> FALSE, input |-> "none",
               lost |-> FALSE, request |-> 0]

(* status is both the column and the key of state_json: run_graph sets the  *)
(* column to "running" before load_config does the same to the key, and     *)
(* nothing reads the key in between.                                        *)
Rows == [graph : GraphNames \cup {"none"}, state : States]

ApprovalStatuses == {"none", "pending", "approved", "rejected"}

Steps == {"idle", "begin", "load", "validate", "health", "local", "decide",
          "gate", "ask", "pending", "sync", "synced", "verify", "investigate",
          "report", "decided", "decision", "reload"}

Execs == [pc : Steps,
          state : States,           \* the runner's state
          call : {"start", "resume", "approve", "reject"},
          required : BOOLEAN,       \* sync_required
          sent : BOOLEAN,           \* this execution uploaded
          found : 0..MaxApprovals]  \* the approval ensure_approval found

IdleExec == [pc |-> "idle", state |-> FreshState, call |-> "start",
             required |-> TRUE, sent |-> FALSE, found |-> 0]

TypeOK ==
  /\ graph_run \in Rows
  /\ graph_approvals \in [ApprovalIds -> ApprovalStatuses]
  /\ exec \in [Procs -> Execs]
  /\ consent \in BOOLEAN

Init ==
  /\ graph_run = [graph |-> "none", state |-> FreshState]
  /\ graph_approvals = [a \in ApprovalIds |-> "none"]
  /\ exec = [p \in Procs |-> IdleExec]
  /\ consent = FALSE

-----------------------------------------------------------------------------
(* Helpers *)

At(p, step) == exec[p].pc = step

Exists == graph_run.graph # "none"

Onboards == graph_run.graph = "source_onboarding"

HasPath(state) == ~state.lost /\ state.input # "none"

(* export_target, "api" by default, and not dry_run *)
TargetsCore(state) == state.lost \/ state.input \in {"api", "none"}

(* investigate always exports to Core *)
InputsOf(graph) ==
  IF graph = "source_onboarding" THEN Inputs ELSE Inputs \ {"file"}

Used == {a \in ApprovalIds : graph_approvals[a] # "none"}

Pending == {a \in ApprovalIds : graph_approvals[a] = "pending"}

(* Bound: a command begins only while the table can take n more approvals   *)
(* than the commands under way may add.                                     *)
Room(n) == Cardinality(Used) + Cardinality({p \in Procs : ~At(p, "idle")}) + n <= MaxApprovals

(* update_run_state *)
Save(state) == graph_run' = [graph_run EXCEPT !.state = state]

(* a node that leaves the graph in this state, saved, goes on to step *)
NodeEnds(p, state, step) ==
  /\ exec' = [exec EXCEPT ![p].state = state, ![p].pc = step]
  /\ Save(state)
  /\ UNCHANGED <<graph_approvals, consent>>

(* a node that returns {} *)
NodeSkips(p, step) ==
  /\ exec' = [exec EXCEPT ![p].pc = step]
  /\ UNCHANGED <<graph_run, graph_approvals, consent>>

WithStatus(p, status) == [exec[p].state EXCEPT !.status = status]

-----------------------------------------------------------------------------
(* The commands *)

(* what `onboard-source --path` and `investigate` may give a new run *)
NewRuns ==
  {r \in [graph : Graphs, yes : BOOLEAN, input : Inputs] :
     /\ r.input \in InputsOf(r.graph)
     /\ r.graph = "source_onboarding" => r.input # "none"}

(* create_run under a new id *)
Start(p) ==
  /\ At(p, "idle")
  /\ ~Exists
  /\ Room(2)
  /\ \E r \in NewRuns :
       LET state == [FreshState EXCEPT !.approved = r.yes, !.input = r.input]
       IN  /\ graph_run' = [graph |-> r.graph, state |-> state]
           /\ exec' = [exec EXCEPT ![p] = [IdleExec EXCEPT !.pc = "load", !.state = state]]
           /\ consent' = r.yes
  /\ UNCHANGED graph_approvals

(* The same of a command whose first execution raised: the except clause    *)
(* takes another new id (runner.py:95), so that the run begins as failed.   *)
StartAsFailed(p) ==
  /\ At(p, "idle")
  /\ ~Exists
  /\ Room(2)
  /\ \E r \in NewRuns :
       /\ graph_run' = [graph |-> r.graph, state |->
            [FreshState EXCEPT !.status = "failed", !.approved = r.yes, !.input = r.input]]
       /\ consent' = r.yes
  /\ UNCHANGED <<graph_approvals, exec>>

(* Mutant: the stored approval wins over the command's. *)
ResumeKeepsApproval(p) ==
  /\ At(p, "idle")
  /\ Exists
  /\ Room(2)
  /\ \E yes \in BOOLEAN, input \in InputsOf(graph_run.graph) :
       /\ exec' = [exec EXCEPT ![p] =
            [IdleExec EXCEPT !.pc = "begin", !.call = "resume",
                             !.state = [graph_run.state EXCEPT
                                          !.input = input, !.lost = FALSE]]]
       /\ consent' = (consent \/ yes)
  /\ UNCHANGED <<graph_run, graph_approvals>>

(* `--resume --run-id`: the stored state, overwritten by what the command   *)
(* gives or leaves at its default.  Leaving out --yes takes nothing back.   *)
Resume(p) ==
  /\ At(p, "idle")
  /\ Exists
  /\ Room(2)
  /\ \E yes \in BOOLEAN, input \in InputsOf(graph_run.graph) :
       /\ exec' = [exec EXCEPT ![p] =
            [IdleExec EXCEPT !.pc = "begin", !.call = "resume",
                             !.state = [graph_run.state EXCEPT
                                          !.approved = yes, !.input = input, !.lost = FALSE]]]
       /\ consent' = (consent \/ yes)
  /\ UNCHANGED <<graph_run, graph_approvals>>

(* `--approve`, `--reject`: decide_approval, whatever the approval's status *)
Decide(p, a) ==
  /\ At(p, "idle")
  /\ Room(1)
  /\ a \in Used
  /\ \E call \in {"approve", "reject"} :
       /\ graph_approvals' = [graph_approvals EXCEPT
            ![a] = IF call = "approve" THEN "approved" ELSE "rejected"]
       /\ exec' = [exec EXCEPT ![p] = [IdleExec EXCEPT !.pc = "decided", !.call = call]]
       /\ consent' = (call = "approve")
  /\ UNCHANGED graph_run

(* approve_action: read the run and change its state ... *)
ReadDecided(p) ==
  /\ At(p, "decided")
  /\ exec' = [exec EXCEPT
       ![p].pc = "decision",
       ![p].state = IF exec[p].call = "approve"
                      THEN [graph_run.state EXCEPT !.approved = TRUE, !.status = "running"]
                      ELSE [graph_run.state EXCEPT !.status = "rejected"]]
  /\ UNCHANGED <<graph_run, graph_approvals, consent>>

(* ... and save it; after --approve the command goes on to resume the run *)
SaveDecision(p) ==
  /\ At(p, "decision")
  /\ Save(exec[p].state)
  /\ exec' = IF exec[p].call = "approve" THEN [exec EXCEPT ![p].pc = "reload"]
                                         ELSE [exec EXCEPT ![p] = IdleExec]
  /\ UNCHANGED <<graph_approvals, consent>>

(* run_graph({}, resume_run_id) *)
Reload(p) ==
  /\ At(p, "reload")
  /\ exec' = [exec EXCEPT ![p].pc = "begin", ![p].state = graph_run.state]
  /\ UNCHANGED <<graph_run, graph_approvals, consent>>

-----------------------------------------------------------------------------
(* The nodes, in the order of the graphs *)

(* update_run_state(status="running") before the stream *)
Begin(p) ==
  /\ At(p, "begin")
  /\ NodeEnds(p, WithStatus(p, "running"), "load")

(* load_config *)
LoadConfig(p) ==
  /\ At(p, "load")
  /\ NodeEnds(p, WithStatus(p, "running"), IF Onboards THEN "validate" ELSE "health")

(* validate_path_policy *)
ValidatePathPolicy(p) ==
  /\ At(p, "validate")
  /\ \E allowed \in BOOLEAN :
       /\ HasPath(exec[p].state) \/ allowed
       /\ NodeEnds(p, IF allowed THEN exec[p].state ELSE WithStatus(p, "failed"), "local")

(* check_core_health and get_core_capabilities *)
CheckCoreHealth(p) ==
  /\ At(p, "health")
  /\ \E status \in {"running", "core_unavailable"} : NodeEnds(p, WithStatus(p, status), "local")

(* inspection, redaction preview, coverage and readiness: reports on the     *)
(* path; plan_sync, which onboarding adds, reports without one too          *)
InspectLocally(p) ==
  /\ At(p, "local")
  /\ \/ Onboards /\ NodeEnds(p, exec[p].state, "gate")
     \/ ~Onboards /\ HasPath(exec[p].state) /\ NodeEnds(p, exec[p].state, "decide")
     \/ ~Onboards /\ ~HasPath(exec[p].state) /\ NodeSkips(p, "decide")

(* decide_if_sync_needed, by what the reports say *)
DecideIfSyncNeeded(p) ==
  /\ At(p, "decide")
  /\ \E required \in BOOLEAN :
       /\ required => HasPath(exec[p].state)
       /\ exec' = [exec EXCEPT ![p].required = required, ![p].pc = "gate"]
  /\ Save(exec[p].state)
  /\ UNCHANGED <<graph_approvals, consent>>

Blocked(p) == exec[p].state.status \in {"failed", "core_unavailable"}

Requires(p) == exec[p].required /\ TargetsCore(exec[p].state)

(* Mutant: the request of an earlier execution is kept. *)
GateKeepsRequest(p) ==
  /\ At(p, "gate")
  /\ \/ Blocked(p) /\ NodeSkips(p, "sync")
     \/ /\ ~Blocked(p)
        /\ Requires(p) /\ ~exec[p].state.approved
        /\ exec' = [exec EXCEPT ![p].state.status = "pending_approval", ![p].pc = "ask"]
        /\ UNCHANGED <<graph_run, graph_approvals, consent>>
     \/ /\ ~Blocked(p)
        /\ ~Requires(p) \/ exec[p].state.approved
        /\ NodeEnds(p, IF Requires(p) THEN WithStatus(p, "approved") ELSE exec[p].state, "sync")

(* approval_gate *)
ApprovalGate(p) ==
  /\ At(p, "gate")
  /\ \/ Blocked(p) /\ NodeSkips(p, "sync")
     \/ /\ ~Blocked(p)
        /\ Requires(p) /\ ~exec[p].state.approved
        /\ exec' = [exec EXCEPT ![p].state.status = "pending_approval",
                                ![p].state.request = 0,
                                ![p].pc = "ask"]
        /\ UNCHANGED <<graph_run, graph_approvals, consent>>
     \/ /\ ~Blocked(p)
        /\ ~Requires(p) \/ exec[p].state.approved
        /\ NodeEnds(p, IF Requires(p) THEN WithStatus(p, "approved") ELSE exec[p].state, "sync")

(* Mutant: a pending approval of the run is not looked for. *)
AskAnew(p) ==
  /\ At(p, "ask")
  /\ exec' = [exec EXCEPT ![p].pc = "pending", ![p].found = 0]
  /\ UNCHANGED <<graph_run, graph_approvals, consent>>

(* ensure_approval: SELECT the latest pending approval ... *)
Ask(p) ==
  /\ At(p, "ask")
  /\ \E a \in Pending \cup {0} :
       /\ \A b \in Pending : b <= a
       /\ exec' = [exec EXCEPT ![p].pc = "pending", ![p].found = a]
  /\ UNCHANGED <<graph_run, graph_approvals, consent>>

(* ... INSERT one if there is none ... *)
InsertApproval(p) ==
  /\ At(p, "pending")
  /\ exec[p].state.request = 0
  /\ \/ /\ exec[p].found # 0
        /\ exec' = [exec EXCEPT ![p].state.request = exec[p].found, ![p].found = 0]
        /\ UNCHANGED graph_approvals
     \/ /\ exec[p].found = 0
        /\ \E a \in ApprovalIds \ Used :
             /\ \A b \in ApprovalIds \ Used : a <= b
             /\ exec' = [exec EXCEPT ![p].state.request = a]
             /\ graph_approvals' = [graph_approvals EXCEPT ![a] = "pending"]
  /\ UNCHANGED <<graph_run, consent>>

(* Mutant: the run is saved before its approval is inserted. *)
SavePendingFirst(p) ==
  /\ At(p, "pending")
  /\ Save(exec[p].state)
  /\ exec' = [exec EXCEPT ![p].pc = IF exec[p].state.request = 0 THEN "pending" ELSE "sync"]
  /\ UNCHANGED <<graph_approvals, consent>>

(* ... and save the run as waiting for it *)
SavePending(p) ==
  /\ At(p, "pending")
  /\ exec[p].state.request # 0
  /\ NodeEnds(p, exec[p].state, "sync")

AfterSync(p) == IF Onboards THEN "verify" ELSE "investigate"

Syncs(p) ==
  /\ exec[p].state.status \notin {"failed", "pending_approval", "rejected", "core_unavailable"}
  /\ exec[p].required
  /\ HasPath(exec[p].state)

(* sync_source, sync_source_if_needed: run_sync *)
SyncSource(p) ==
  /\ At(p, "sync")
  /\ \/ /\ ~Syncs(p)
        /\ NodeSkips(p, AfterSync(p))
     \/ /\ Syncs(p)
        /\ exec' = [exec EXCEPT ![p].pc = "synced", ![p].sent = exec[p].state.input = "api"]
        /\ UNCHANGED <<graph_run, graph_approvals, consent>>

(* its summary is saved *)
SaveSync(p) ==
  /\ At(p, "synced")
  /\ NodeEnds(p, exec[p].state, AfterSync(p))

(* verify_sync, which reports the last sync of anyone if this was skipped *)
VerifySync(p) ==
  /\ At(p, "verify")
  /\ NodeEnds(p, exec[p].state, "report")

(* Mutant: a run that waits for approval is investigated all the same. *)
CallCoreInvestigateAnyway(p) ==
  /\ At(p, "investigate")
  /\ \/ Blocked(p) /\ NodeSkips(p, "report")
     \/ /\ ~Blocked(p) /\ ~exec[p].state.lost
        /\ \E status \in {"core_investigation_complete", "core_unavailable"} :
             NodeEnds(p, WithStatus(p, status), "report")

(* call_core_investigate; without query it raises, which is Fail *)
CallCoreInvestigate(p) ==
  /\ At(p, "investigate")
  /\ LET blocked == Blocked(p) \/ exec[p].state.status \in {"pending_approval", "rejected"}
     IN  \/ blocked /\ NodeSkips(p, "report")
         \/ /\ ~blocked /\ ~exec[p].state.lost
            /\ \E status \in {"core_investigation_complete", "core_unavailable"} :
                 NodeEnds(p, WithStatus(p, status), "report")

(* Mutant: the report's approval_status is taken for the run's status. *)
ReportApprovalStatus(p) ==
  IF exec[p].state.status = "pending_approval" THEN "pending_approval" ELSE "not_pending"

(* the status the report of the graph leaves *)
ReportStatus(p) ==
  LET status == exec[p].state.status
      stays == IF Onboards THEN {"failed", "pending_approval", "rejected"}
                              ELSE Statuses \ {"running"}
  IN  IF status \in stays THEN status ELSE "completed"

(* final_report, the last save; run_graph returns *)
Report(p) ==
  /\ At(p, "report")
  /\ Save(WithStatus(p, ReportStatus(p)))
  /\ exec' = [exec EXCEPT ![p] = IdleExec]
  /\ UNCHANGED <<graph_approvals, consent>>

(* A node raises.  The except clause of a resumption saves input_state      *)
(* alone: what a --resume gave, nothing for an --approve.  That of a Start  *)
(* writes to another run (StartAsFailed) and leaves this one "running".     *)
Fail(p) ==
  /\ exec[p].pc \in {"load", "validate", "health", "local", "sync", "synced", "verify",
                     "investigate", "report"}
  /\ At(p, "sync") => Syncs(p)
  /\ LET state == exec[p].state
         bare == exec[p].call = "approve"
     IN  IF exec[p].call = "start"
           THEN UNCHANGED graph_run
           ELSE Save([status |-> "failed", approved |-> state.approved /\ ~bare,
                      input |-> state.input, lost |-> bare, request |-> 0])
  /\ exec' = [exec EXCEPT ![p] = IdleExec]
  /\ UNCHANGED <<graph_approvals, consent>>

(* The process is killed. *)
Crash(p) ==
  /\ MayCrash
  /\ ~At(p, "idle")
  /\ exec' = [exec EXCEPT ![p] = IdleExec]
  /\ UNCHANGED <<graph_run, graph_approvals, consent>>

-----------------------------------------------------------------------------
(* The specification *)

Command(p) ==
  \/ Start(p)
  \/ StartAsFailed(p)
  \/ Resume(p)
  \/ \E a \in ApprovalIds : Decide(p, a)

Advance(p) ==
  \/ ReadDecided(p)
  \/ SaveDecision(p)
  \/ Reload(p)
  \/ Begin(p)
  \/ LoadConfig(p)
  \/ ValidatePathPolicy(p)
  \/ CheckCoreHealth(p)
  \/ InspectLocally(p)
  \/ DecideIfSyncNeeded(p)
  \/ ApprovalGate(p)
  \/ Ask(p)
  \/ InsertApproval(p)
  \/ SavePending(p)
  \/ SyncSource(p)
  \/ SaveSync(p)
  \/ VerifySync(p)
  \/ CallCoreInvestigate(p)
  \/ Report(p)
  \/ Fail(p)

Next == \E p \in Procs : Command(p) \/ Advance(p) \/ Crash(p)

Spec == Init /\ [][Next]_vars

-----------------------------------------------------------------------------
(* Safety *)

(* Nothing is uploaded against the operator: when a sync uploads, the last  *)
(* word on its run was --yes or an approval, through rejections, second     *)
(* decisions, failures, crashes and resumptions (approval_gate_node,        *)
(* langgraph_agent/nodes/common.py:168-197; docs/production-usage.md:128:   *)
(* "Data export actions must be approved unless explicitly dry-run or       *)
(* configured for unattended daemon operation.").  One command at a time.   *)
UploadsAreApproved ==
  [][\A p \in Procs : exec'[p].sent /\ ~exec[p].sent => consent]_vars

(* A run that waits for approval can be given one: the approval it names is *)
(* in the table, whatever was killed on the way                             *)
(* (_persist_approval_if_needed, langgraph_agent/runner.py:186-212).        *)
PendingRunsCanBeDecided ==
  graph_run.state.status = "pending_approval" => graph_run.state.request \in Used

(* A run has one pending approval: rejecting it leaves no other one that    *)
(* would let it go on (checkpoints/sqlite_checkpointer.py:143-152).  One    *)
(* command at a time.                                                       *)
OnePendingApproval == \A a, b \in Pending : a = b

(* Core investigates on the evidence it was to get: if a sync was required, *)
(* this execution uploaded or is a dry run                                  *)
(* (langgraph_agent/nodes/common.py:313-331).                               *)
InvestigatesAfterSync ==
  \A p \in Procs :
    At(p, "report") /\ exec[p].state.status = "core_investigation_complete" /\ exec[p].required
      => exec[p].sent \/ exec[p].state.input = "dry"

(* tests/integration/test_langgraph_agent.py:136-137: an approved run ends  *)
(* as completed with documents synced.  When an onboarding run that was     *)
(* asked to upload ends as completed, it has uploaded.                      *)
CompletedRunsUploaded ==
  [][\A p \in Procs :
       At(p, "report") /\ exec'[p].pc # "report" /\ Onboards
         /\ graph_run'.state.status = "completed" /\ exec[p].state.input = "api"
         => exec[p].sent]_vars

=============================================================================
