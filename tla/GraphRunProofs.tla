--------------------------- MODULE GraphRunProofs ---------------------------
(***************************************************************************)
(* Theorems about GraphRun for any number of commands under way (unless    *)
(* said otherwise) and of approvals, with or without crashes.              *)
(***************************************************************************)
EXTENDS GraphApprovals, TLAPS

(* A state that waits for approval names an approval of the table. *)
Named(state) == state.status = "pending_approval" => state.request \in Used

(* The row does, and so does every state that a command may still save; at  *)
(* "ask" and "pending" the approval is being looked for or inserted.        *)
AllNamed ==
  /\ Named(graph_run.state)
  /\ \A p \in Procs :
       /\ exec[p].pc \notin {"idle", "begin", "ask", "pending"} => Named(exec[p].state)
       /\ exec[p].pc \in {"ask", "pending"} => exec[p].state.request \in Used \cup {0}
       /\ exec[p].pc = "pending" => exec[p].found \in Used \cup {0}

(* What a command relies on to upload was the operator's last word: its     *)
(* approval, or the approval in the state it executes with; and past the    *)
(* gate an upload has one.                                                  *)
Consented ==
  \A p \in Procs :
    /\ exec[p].pc \in {"decided", "decision", "reload"} /\ exec[p].call = "approve" => consent
    /\ exec[p].pc = "reload" => exec[p].call = "approve"
    /\ exec[p].pc \notin {"idle", "decided", "decision", "reload"} /\ exec[p].state.approved
         => consent
    /\ exec[p].pc \in {"ask", "pending"} => exec[p].state.status = "pending_approval"
    /\ At(p, "sync") /\ Syncs(p) /\ Requires(p) => exec[p].state.approved

-----------------------------------------------------------------------------
(* Types *)

LEMMA FreshTypes == FreshState \in States /\ IdleExec \in Execs
BY BoundAssumption DEF FreshState, States, IdleExec, Execs, Statuses, Inputs, Steps

LEMMA StatusType ==
  ASSUME TypeOK, NEW p \in Procs, NEW status \in Statuses
  PROVE  WithStatus(p, status) \in States
<1>1. exec[p].state \in States
  BY DEF TypeOK, Execs
<1> QED BY <1>1 DEF WithStatus, States

LEMMA NodeEndsType ==
  ASSUME TypeOK, NEW p \in Procs, NEW state \in States, NEW step \in Steps,
         NodeEnds(p, state, step)
  PROVE  TypeOK'
<1>1. exec[p] \in Execs
  BY DEF TypeOK
<1>2. exec' \in [Procs -> Execs]
  BY <1>1 DEF TypeOK, NodeEnds, Execs
<1>3. graph_run' \in Rows
  BY DEF TypeOK, NodeEnds, Save, Rows
<1> QED BY <1>2, <1>3 DEF TypeOK, NodeEnds

LEMMA NodeSkipsType ==
  ASSUME TypeOK, NEW p \in Procs, NEW step \in Steps, NodeSkips(p, step)
  PROVE  TypeOK'
<1>1. exec' \in [Procs -> Execs]
  BY DEF TypeOK, NodeSkips, Execs
<1> QED BY <1>1 DEF TypeOK, NodeSkips

LEMMA CommandType ==
  ASSUME TypeOK, NEW p \in Procs, Command(p)
  PROVE  TypeOK'
<1> USE FreshTypes
<1>1. CASE Start(p)
  <2>1. PICK r \in NewRuns :
          LET state == [FreshState EXCEPT !.approved = r.yes, !.input = r.input]
          IN  /\ graph_run' = [graph |-> r.graph, state |-> state]
              /\ exec' = [exec EXCEPT ![p] = [IdleExec EXCEPT !.pc = "load", !.state = state]]
              /\ consent' = r.yes
    BY <1>1 DEF Start
  <2> DEFINE state == [FreshState EXCEPT !.approved = r.yes, !.input = r.input]
  <2>2. state \in States /\ r.graph \in GraphNames /\ r.yes \in BOOLEAN
    BY GraphsAssumption DEF States, NewRuns
  <2>3. [IdleExec EXCEPT !.pc = "load", !.state = state] \in Execs
    BY <2>2 DEF Execs, Steps
  <2> HIDE DEF state
  <2>4. /\ graph_run' = [graph |-> r.graph, state |-> state]
        /\ exec' = [exec EXCEPT ![p] = [IdleExec EXCEPT !.pc = "load", !.state = state]]
        /\ consent' = r.yes
        /\ UNCHANGED graph_approvals
    BY <1>1, <2>1 DEF state, Start
  <2> QED BY <2>2, <2>3, <2>4 DEF TypeOK, Rows
<1>2. CASE StartAsFailed(p)
  <2>1. PICK r \in NewRuns :
          /\ graph_run' = [graph |-> r.graph, state |->
               [FreshState EXCEPT !.status = "failed", !.approved = r.yes, !.input = r.input]]
          /\ consent' = r.yes
    BY <1>2 DEF StartAsFailed
  <2> DEFINE state == [FreshState EXCEPT !.status = "failed", !.approved = r.yes,
                                         !.input = r.input]
  <2>2. state \in States /\ r.graph \in GraphNames /\ r.yes \in BOOLEAN
    BY GraphsAssumption DEF States, NewRuns, Statuses
  <2> HIDE DEF state
  <2>3. /\ graph_run' = [graph |-> r.graph, state |-> state]
        /\ UNCHANGED <<graph_approvals, exec>>
    BY <1>2, <2>1 DEF state, StartAsFailed
  <2> QED BY <2>1, <2>2, <2>3 DEF TypeOK, Rows
<1>3. CASE Resume(p)
  <2>1. PICK yes \in BOOLEAN, input \in InputsOf(graph_run.graph) :
          /\ exec' = [exec EXCEPT ![p] =
               [IdleExec EXCEPT !.pc = "begin", !.call = "resume",
                                !.state = [graph_run.state EXCEPT
                                             !.approved = yes, !.input = input, !.lost = FALSE]]]
          /\ consent' = (consent \/ yes)
    BY <1>3 DEF Resume
  <2> DEFINE state == [graph_run.state EXCEPT !.approved = yes, !.input = input, !.lost = FALSE]
  <2>2. state \in States
    BY DEF TypeOK, Rows, States, InputsOf, Inputs
  <2> HIDE DEF state
  <2>3. [IdleExec EXCEPT !.pc = "begin", !.call = "resume", !.state = state] \in Execs
    BY <2>2 DEF Execs, Steps
  <2>4. /\ exec' = [exec EXCEPT ![p] = [IdleExec EXCEPT !.pc = "begin", !.call = "resume",
                                                        !.state = state]]
        /\ UNCHANGED <<graph_run, graph_approvals>>
    BY <1>3, <2>1 DEF state, Resume
  <2> QED BY <2>1, <2>3, <2>4 DEF TypeOK
<1>4. CASE \E a \in ApprovalIds : Decide(p, a)
  <2>1. PICK a \in ApprovalIds : Decide(p, a)
    BY <1>4
  <2>2. PICK call \in {"approve", "reject"} :
          /\ graph_approvals' = [graph_approvals EXCEPT
               ![a] = IF call = "approve" THEN "approved" ELSE "rejected"]
          /\ exec' = [exec EXCEPT ![p] = [IdleExec EXCEPT !.pc = "decided", !.call = call]]
          /\ consent' = (call = "approve")
    BY <2>1 DEF Decide
  <2>3. [IdleExec EXCEPT !.pc = "decided", !.call = call] \in Execs
    BY DEF Execs, Steps
  <2> QED BY <2>1, <2>2, <2>3 DEF Decide, TypeOK, ApprovalStatuses
<1> QED BY <1>1, <1>2, <1>3, <1>4 DEF Command

LEMMA AdvanceType ==
  ASSUME TypeOK, NEW p \in Procs, Advance(p)
  PROVE  TypeOK'
<1> USE FreshTypes
<1>exec. exec[p] \in Execs /\ exec[p].state \in States /\ graph_run.state \in States
  BY DEF TypeOK, Execs, Rows
<1>steps. {"load", "validate", "health", "local", "decide", "gate", "sync", "verify",
           "investigate", "report"} \subseteq Steps
  BY DEF Steps
<1>bound. 0 \in 0..MaxApprovals /\ ApprovalIds \subseteq 0..MaxApprovals
  BY BoundAssumption DEF ApprovalIds
<1>1. CASE ReadDecided(p)
  <2>1. /\ [graph_run.state EXCEPT !.approved = TRUE, !.status = "running"] \in States
        /\ [graph_run.state EXCEPT !.status = "rejected"] \in States
    BY <1>exec DEF States, Statuses
  <2>2. exec' \in [Procs -> Execs]
    BY <1>1, <1>exec, <2>1 DEF ReadDecided, TypeOK, Execs, Steps
  <2> QED BY <1>1, <2>2 DEF ReadDecided, TypeOK
<1>2. CASE SaveDecision(p)
  <2>1. exec' \in [Procs -> Execs]
    BY <1>2, <1>exec DEF SaveDecision, TypeOK, Execs, Steps
  <2>2. graph_run' \in Rows
    BY <1>2, <1>exec DEF SaveDecision, Save, TypeOK, Rows
  <2> QED BY <1>2, <2>1, <2>2 DEF SaveDecision, TypeOK
<1>3. CASE Reload(p)
  <2>1. exec' \in [Procs -> Execs]
    BY <1>3, <1>exec DEF Reload, TypeOK, Execs, Steps
  <2> QED BY <1>3, <2>1 DEF Reload, TypeOK
<1>4. CASE Begin(p)
  BY <1>4, <1>steps, StatusType, NodeEndsType DEF Begin, Statuses
<1>5. CASE LoadConfig(p)
  BY <1>5, <1>steps, StatusType, NodeEndsType DEF LoadConfig, Statuses
<1>6. CASE ValidatePathPolicy(p)
  <2>1. PICK allowed \in BOOLEAN :
          NodeEnds(p, IF allowed THEN exec[p].state ELSE WithStatus(p, "failed"), "local")
    BY <1>6 DEF ValidatePathPolicy
  <2>2. (IF allowed THEN exec[p].state ELSE WithStatus(p, "failed")) \in States
    BY <1>exec, StatusType DEF Statuses
  <2> QED BY <2>1, <2>2, <1>steps, NodeEndsType
<1>7. CASE CheckCoreHealth(p)
  BY <1>7, <1>steps, StatusType, NodeEndsType DEF CheckCoreHealth, Statuses
<1>8. CASE InspectLocally(p)
  BY <1>8, <1>exec, <1>steps, NodeEndsType, NodeSkipsType DEF InspectLocally
<1>9. CASE DecideIfSyncNeeded(p)
  <2>0. PICK required \in BOOLEAN :
          exec' = [exec EXCEPT ![p].required = required, ![p].pc = "gate"]
    BY <1>9 DEF DecideIfSyncNeeded
  <2>1. exec' \in [Procs -> Execs]
    BY <2>0, <1>exec DEF TypeOK, Execs, Steps
  <2>2. graph_run' \in Rows
    BY <1>9, <1>exec DEF DecideIfSyncNeeded, Save, TypeOK, Rows
  <2> QED BY <1>9, <2>1, <2>2 DEF DecideIfSyncNeeded, TypeOK
<1>10. CASE ApprovalGate(p)
  <2>1. CASE NodeSkips(p, "sync")
    BY <2>1, <1>steps, NodeSkipsType
  <2>2. CASE /\ exec' = [exec EXCEPT ![p].state.status = "pending_approval",
                                     ![p].state.request = 0, ![p].pc = "ask"]
             /\ UNCHANGED <<graph_run, graph_approvals, consent>>
    <3>1. [exec[p].state EXCEPT !.status = "pending_approval", !.request = 0] \in States
      BY <1>exec, <1>bound DEF States, Statuses
    <3>2. exec' = [exec EXCEPT ![p] = [exec[p] EXCEPT
            !.state = [exec[p].state EXCEPT !.status = "pending_approval", !.request = 0],
            !.pc = "ask"]]
      BY <2>2, <1>exec DEF TypeOK, Execs, States
    <3>3. exec' \in [Procs -> Execs]
      BY <3>1, <3>2, <1>exec DEF TypeOK, Execs, Steps
    <3> QED BY <2>2, <3>3 DEF TypeOK
  <2>3. CASE NodeEnds(p, IF Requires(p) THEN WithStatus(p, "approved") ELSE exec[p].state, "sync")
    <3>1. (IF Requires(p) THEN WithStatus(p, "approved") ELSE exec[p].state) \in States
      BY <1>exec, StatusType DEF Statuses
    <3> QED BY <2>3, <3>1, <1>steps, NodeEndsType
  <2> QED BY <1>10, <2>1, <2>2, <2>3 DEF ApprovalGate
<1>11. CASE Ask(p)
  <2>0. PICK a \in Pending \cup {0} : exec' = [exec EXCEPT ![p].pc = "pending", ![p].found = a]
    BY <1>11 DEF Ask
  <2>a. a \in 0..MaxApprovals
    BY <1>bound DEF Pending
  <2>1. exec' \in [Procs -> Execs]
    BY <2>0, <2>a, <1>exec DEF TypeOK, Execs, Steps
  <2> QED BY <1>11, <2>1 DEF Ask, TypeOK
<1>12. CASE InsertApproval(p)
  <2>0. \A a \in 0..MaxApprovals : [exec[p].state EXCEPT !.request = a] \in States
    BY <1>exec DEF States
  <2>1. CASE exec[p].found # 0
    <3>1. exec[p].found \in 0..MaxApprovals
      BY <1>exec DEF Execs
    <3>2. exec' = [exec EXCEPT ![p] = [exec[p] EXCEPT
            !.state = [exec[p].state EXCEPT !.request = exec[p].found], !.found = 0]]
      BY <1>12, <2>1, <1>exec DEF InsertApproval, TypeOK, Execs, States
    <3>3. graph_approvals' = graph_approvals
      BY <1>12, <2>1 DEF InsertApproval
    <3>4. exec' \in [Procs -> Execs]
      BY <3>1, <3>2, <2>0, <1>exec, <1>bound DEF TypeOK, Execs
    <3> QED BY <1>12, <3>3, <3>4 DEF InsertApproval, TypeOK
  <2>2. CASE exec[p].found = 0
    <3>1. PICK a \in ApprovalIds :
            /\ exec' = [exec EXCEPT ![p].state.request = a]
            /\ graph_approvals' = [graph_approvals EXCEPT ![a] = "pending"]
      BY <1>12, <2>2 DEF InsertApproval
    <3>2. exec' = [exec EXCEPT ![p] = [exec[p] EXCEPT
            !.state = [exec[p].state EXCEPT !.request = a]]]
      BY <3>1, <1>exec DEF TypeOK, Execs, States
    <3>4. exec' \in [Procs -> Execs]
      BY <3>2, <2>0, <1>exec, <1>bound DEF TypeOK, Execs
    <3> QED BY <1>12, <3>1, <3>4 DEF InsertApproval, TypeOK, ApprovalStatuses
  <2> QED BY <2>1, <2>2
<1>13. CASE SavePending(p)
  BY <1>13, <1>exec, <1>steps, NodeEndsType DEF SavePending
<1>14. CASE SyncSource(p)
  <2>1. CASE NodeSkips(p, AfterSync(p))
    BY <2>1, <1>steps, NodeSkipsType DEF AfterSync
  <2>2. CASE Syncs(p)
    <3>1. exec' \in [Procs -> Execs]
      BY <1>14, <2>2, <1>exec DEF SyncSource, TypeOK, Execs, Steps
    <3> QED BY <1>14, <2>2, <3>1 DEF SyncSource, TypeOK
  <2> QED BY <1>14, <2>1, <2>2 DEF SyncSource
<1>15. CASE SaveSync(p)
  BY <1>15, <1>exec, <1>steps, NodeEndsType DEF SaveSync, AfterSync
<1>16. CASE VerifySync(p)
  BY <1>16, <1>exec, <1>steps, NodeEndsType DEF VerifySync
<1>17. CASE CallCoreInvestigate(p)
  <2>1. CASE NodeSkips(p, "report")
    BY <2>1, <1>steps, NodeSkipsType
  <2>2. CASE \E status \in {"core_investigation_complete", "core_unavailable"} :
               NodeEnds(p, WithStatus(p, status), "report")
    BY <2>2, <1>steps, StatusType, NodeEndsType DEF Statuses
  <2> QED BY <1>17, <2>1, <2>2 DEF CallCoreInvestigate
<1>18. CASE Report(p)
  <2>1. ReportStatus(p) \in Statuses
    BY <1>exec DEF ReportStatus, States, Statuses
  <2>2. graph_run' \in Rows
    BY <1>18, <2>1, StatusType DEF Report, Save, TypeOK, Rows
  <2> QED BY <1>18, <2>2 DEF Report, TypeOK
<1>19. CASE Fail(p)
  <2>1. [status |-> "failed", approved |-> exec[p].state.approved /\ ~(exec[p].call = "approve"),
         input |-> exec[p].state.input, lost |-> exec[p].call = "approve", request |-> 0] \in States
    BY <1>exec, BoundAssumption DEF States, Statuses
  <2>2. graph_run' \in Rows
    BY <1>19, <2>1 DEF Fail, Save, TypeOK, Rows
  <2> QED BY <1>19, <2>2 DEF Fail, TypeOK
<1> QED BY <1>1, <1>2, <1>3, <1>4, <1>5, <1>6, <1>7, <1>8, <1>9, <1>10, <1>11, <1>12, <1>13,
           <1>14, <1>15, <1>16, <1>17, <1>18, <1>19 DEF Advance

(* The tables and the commands' variables keep their types, whatever the    *)
(* commands under way do to each other.                                     *)
THEOREM GraphTypeCorrect == Spec => []TypeOK
<1>1. Init => TypeOK
  <2> SUFFICES ASSUME Init
               PROVE  TypeOK
    OBVIOUS
  <2>1. graph_run \in Rows
    BY FreshTypes DEF Init, Rows
  <2>2. exec \in [Procs -> Execs]
    BY FreshTypes DEF Init
  <2>3. graph_approvals \in [ApprovalIds -> ApprovalStatuses]
    BY DEF Init, ApprovalStatuses
  <2> QED BY <2>1, <2>2, <2>3 DEF Init, TypeOK
<1>2. TypeOK /\ [Next]_vars => TypeOK'
  <2> SUFFICES ASSUME TypeOK, [Next]_vars
               PROVE  TypeOK'
    OBVIOUS
  <2>1. ASSUME NEW p \in Procs, Crash(p)
        PROVE  TypeOK'
    BY <2>1, FreshTypes DEF Crash, TypeOK
  <2>2. CASE UNCHANGED vars
    BY <2>2 DEF TypeOK, vars
  <2> QED BY <2>1, <2>2, CommandType, AdvanceType DEF Next
<1> QED BY <1>1, <1>2, PTL DEF Spec

-----------------------------------------------------------------------------
(* A run that waits names its approval *)

LEMMA NodeEndsNamed ==
  ASSUME TypeOK, AllNamed, NEW p \in Procs, NEW state, NEW step,
         NodeEnds(p, state, step), Named(state), step \notin {"ask", "pending"}
  PROVE  AllNamed'
<1>1. Used' = Used
  BY DEF NodeEnds, Used
<1>2. exec'[p].state = state /\ exec'[p].pc = step
  BY DEF NodeEnds, TypeOK, Execs
<1>3. \A q \in Procs \ {p} : exec'[q] = exec[q]
  BY DEF NodeEnds, TypeOK
<1>4. graph_run'.state = state
  BY DEF NodeEnds, Save, TypeOK, Rows
<1> QED BY <1>1, <1>2, <1>3, <1>4 DEF AllNamed, Named

LEMMA NodeSkipsNamed ==
  ASSUME TypeOK, AllNamed, NEW p \in Procs, NEW step, NodeSkips(p, step),
         Named(exec[p].state), step \notin {"ask", "pending"}
  PROVE  AllNamed'
<1>1. Used' = Used /\ graph_run' = graph_run
  BY DEF NodeSkips, Used
<1>2. exec'[p].state = exec[p].state /\ exec'[p].pc = step
  BY DEF NodeSkips, TypeOK, Execs
<1>3. \A q \in Procs \ {p} : exec'[q] = exec[q]
  BY DEF NodeSkips, TypeOK
<1> QED BY <1>1, <1>2, <1>3 DEF AllNamed, Named

(* Approvals are never deleted. *)
LEMMA UsedGrows == ASSUME TypeOK, [Next]_vars PROVE Used \subseteq Used'
<1>1. ASSUME NEW p \in Procs, NEW a \in ApprovalIds, Decide(p, a)
      PROVE  Used \subseteq Used'
  BY <1>1 DEF Decide, Used, TypeOK
<1>2. ASSUME NEW p \in Procs, InsertApproval(p)
      PROVE  Used \subseteq Used'
  BY <1>2 DEF InsertApproval, Used, TypeOK
<1>3. CASE UNCHANGED graph_approvals
  BY <1>3 DEF Used
<1>4. ASSUME NEW p \in Procs, Advance(p), ~InsertApproval(p)
      PROVE  UNCHANGED graph_approvals
  BY <1>4 DEF Advance, ReadDecided, SaveDecision, Reload, Begin, LoadConfig,
       ValidatePathPolicy, CheckCoreHealth, InspectLocally, DecideIfSyncNeeded, ApprovalGate,
       Ask, SavePending, SyncSource, SaveSync, VerifySync, CallCoreInvestigate, Report, Fail,
       NodeEnds, NodeSkips
<1>5. ASSUME NEW p \in Procs, Command(p), ~\E a \in ApprovalIds : Decide(p, a)
      PROVE  UNCHANGED graph_approvals
  BY <1>5 DEF Command, Start, StartAsFailed, Resume
<1> QED BY <1>1, <1>2, <1>3, <1>4, <1>5 DEF Next, Crash, vars

LEMMA NamedNext == TypeOK /\ AllNamed /\ [Next]_vars => AllNamed'
<1> SUFFICES ASSUME TypeOK, AllNamed, [Next]_vars
             PROVE  AllNamed'
  OBVIOUS
<1>grows. Used \subseteq Used'
  BY UsedGrows
<1>idle. Named(FreshState) /\ IdleExec.pc = "idle" /\ IdleExec.state = FreshState
  BY DEF Named, FreshState, IdleExec
<1>others. ASSUME NEW p \in Procs, \A q \in Procs \ {p} : exec'[q] = exec[q],
                  graph_run'.state.status # "pending_approval" \/ graph_run' = graph_run,
                  \/ exec'[p].pc \in {"idle", "begin"}
                  \/ exec'[p].pc = "ask" /\ exec'[p].state.request = 0
                  \/ /\ exec'[p].pc \notin {"ask", "pending"}
                     /\ exec'[p].state.status # "pending_approval"
           PROVE  AllNamed'
  BY <1>others, <1>grows DEF AllNamed, Named
<1>running. ASSUME NEW p \in Procs, NEW status \in Statuses \ {"pending_approval"}
            PROVE  Named(WithStatus(p, status))
  BY DEF Named, WithStatus, TypeOK, Execs, States
<1>1. ASSUME NEW p \in Procs, Start(p)
      PROVE  AllNamed'
  <2>0. PICK r \in NewRuns :
          LET state == [FreshState EXCEPT !.approved = r.yes, !.input = r.input]
          IN  /\ graph_run' = [graph |-> r.graph, state |-> state]
              /\ exec' = [exec EXCEPT ![p] = [IdleExec EXCEPT !.pc = "load", !.state = state]]
    BY <1>1 DEF Start
  <2> DEFINE state == [FreshState EXCEPT !.approved = r.yes, !.input = r.input]
  <2>s. state.status = "running"
    BY DEF FreshState
  <2> HIDE DEF state
  <2>a. graph_run'.state = state /\ exec'[p] = [IdleExec EXCEPT !.pc = "load", !.state = state]
    BY <2>0 DEF state, TypeOK
  <2>1. graph_run'.state.status = "running" /\ exec'[p].pc = "load"
          /\ exec'[p].state.status = "running"
    BY <2>s, <2>a DEF IdleExec
  <2> QED BY <2>1, <1>1, <1>others DEF Start, TypeOK
<1>2. ASSUME NEW p \in Procs, StartAsFailed(p)
      PROVE  AllNamed'
  <2>0. PICK r \in NewRuns :
          graph_run' = [graph |-> r.graph, state |->
            [FreshState EXCEPT !.status = "failed", !.approved = r.yes, !.input = r.input]]
    BY <1>2 DEF StartAsFailed
  <2>1. graph_run'.state.status = "failed"
    BY <2>0 DEF FreshState
  <2>2. exec' = exec /\ exec[p].pc = "idle"
    BY <1>2 DEF StartAsFailed, At
  <2> QED BY <2>1, <2>2, <1>others
<1>3. ASSUME NEW p \in Procs, Resume(p)
      PROVE  AllNamed'
  <2>1. exec'[p].pc = "begin" /\ graph_run' = graph_run
    BY <1>3 DEF Resume, TypeOK, IdleExec
  <2> QED BY <2>1, <1>3, <1>others DEF Resume, TypeOK
<1>4. ASSUME NEW p \in Procs, NEW a \in ApprovalIds, Decide(p, a)
      PROVE  AllNamed'
  <2>1. exec'[p].pc = "decided" /\ exec'[p].state.status = "running" /\ graph_run' = graph_run
    BY <1>4 DEF Decide, TypeOK, IdleExec, FreshState
  <2> QED BY <2>1, <1>4, <1>others DEF Decide, TypeOK
<1>5. ASSUME NEW p \in Procs, Advance(p)
      PROVE  AllNamed'
  <2>exec. exec[p] \in Execs /\ exec[p].state \in States /\ graph_run.state \in States
    BY DEF TypeOK, Execs, Rows
  <2>named. exec[p].pc \notin {"idle", "begin", "ask", "pending"} => Named(exec[p].state)
    BY DEF AllNamed
  <2>1. CASE ReadDecided(p)
    <3>1. PICK state \in {[graph_run.state EXCEPT !.approved = TRUE, !.status = "running"],
                          [graph_run.state EXCEPT !.status = "rejected"]} :
            exec' = [exec EXCEPT ![p].pc = "decision", ![p].state = state]
      BY <2>1 DEF ReadDecided
    <3>2. state.status # "pending_approval"
      BY <2>exec DEF States
    <3>3. exec'[p].pc = "decision" /\ exec'[p].state = state /\ graph_run' = graph_run
      BY <2>1, <3>1, <2>exec DEF ReadDecided, TypeOK, Execs
    <3>4. \A q \in Procs \ {p} : exec'[q] = exec[q]
      BY <3>1 DEF TypeOK
    <3> QED BY <3>2, <3>3, <3>4, <1>others
  <2>2. CASE SaveDecision(p)
    <3>1. graph_run'.state = exec[p].state /\ Used' = Used /\ Named(exec[p].state)
      BY <2>2, <2>named DEF SaveDecision, Save, TypeOK, Rows, Used, At
    <3>2. \/ exec'[p] = IdleExec
          \/ exec'[p].state = exec[p].state /\ exec'[p].pc = "reload"
      BY <2>2, <2>exec DEF SaveDecision, TypeOK, Execs
    <3>3. \A q \in Procs \ {p} : exec'[q] = exec[q]
      BY <2>2 DEF SaveDecision, TypeOK
    <3>4. /\ exec'[p].pc = "idle" \/ exec'[p].state = exec[p].state
          /\ exec'[p].pc \notin {"ask", "pending"}
      BY <3>2, <1>idle
    <3> QED BY <3>1, <3>3, <3>4 DEF AllNamed, Named
  <2>3. CASE Reload(p)
    <3>1. exec'[p].pc = "begin" /\ graph_run' = graph_run
      BY <2>3, <2>exec DEF Reload, TypeOK, Execs
    <3> QED BY <3>1, <2>3, <1>others DEF Reload, TypeOK
  <2>4. CASE Begin(p)
    BY <2>4, <1>running, NodeEndsNamed DEF Begin, Statuses
  <2>5. CASE LoadConfig(p)
    BY <2>5, <1>running, NodeEndsNamed DEF LoadConfig, Statuses
  <2>6. CASE ValidatePathPolicy(p)
    <3>1. PICK allowed \in BOOLEAN :
            NodeEnds(p, IF allowed THEN exec[p].state ELSE WithStatus(p, "failed"), "local")
      BY <2>6 DEF ValidatePathPolicy
    <3>2. Named(IF allowed THEN exec[p].state ELSE WithStatus(p, "failed"))
      BY <2>6, <2>named, <1>running DEF ValidatePathPolicy, At, Statuses
    <3> QED BY <3>1, <3>2, NodeEndsNamed
  <2>7. CASE CheckCoreHealth(p)
    BY <2>7, <1>running, NodeEndsNamed DEF CheckCoreHealth, Statuses
  <2>8. CASE InspectLocally(p)
    BY <2>8, <2>named, NodeEndsNamed, NodeSkipsNamed DEF InspectLocally, At
  <2>9. CASE DecideIfSyncNeeded(p)
    <3>1. Named(exec[p].state) /\ Used' = Used /\ graph_run'.state = exec[p].state
      BY <2>9, <2>named DEF DecideIfSyncNeeded, At, Used, Save, TypeOK, Rows
    <3>2. exec'[p].state = exec[p].state /\ exec'[p].pc = "gate"
      BY <2>9, <2>exec DEF DecideIfSyncNeeded, TypeOK, Execs
    <3>3. \A q \in Procs \ {p} : exec'[q] = exec[q]
      BY <2>9 DEF DecideIfSyncNeeded, TypeOK
    <3> QED BY <3>1, <3>2, <3>3 DEF AllNamed, Named
  <2>10. CASE ApprovalGate(p)
    <3>0. Named(exec[p].state)
      BY <2>10, <2>named DEF ApprovalGate, At
    <3>1. CASE NodeSkips(p, "sync")
      BY <3>0, <3>1, NodeSkipsNamed
    <3>2. CASE /\ exec' = [exec EXCEPT ![p].state.status = "pending_approval",
                                       ![p].state.request = 0, ![p].pc = "ask"]
               /\ UNCHANGED <<graph_run, graph_approvals, consent>>
      <4>1. /\ exec'[p].pc = "ask" /\ exec'[p].state.request = 0
            /\ \A q \in Procs \ {p} : exec'[q] = exec[q]
        BY <3>2, <2>exec DEF TypeOK, Execs
      <4> QED BY <3>2, <4>1, <1>others
    <3>3. CASE NodeEnds(p, IF Requires(p) THEN WithStatus(p, "approved") ELSE exec[p].state, "sync")
      <4>1. Named(IF Requires(p) THEN WithStatus(p, "approved") ELSE exec[p].state)
        BY <3>0, <1>running DEF Statuses
      <4> QED BY <3>3, <4>1, NodeEndsNamed
    <3> QED BY <2>10, <3>1, <3>2, <3>3 DEF ApprovalGate
  <2>11. CASE Ask(p)
    <3>1. PICK a \in Pending \cup {0} : exec' = [exec EXCEPT ![p].pc = "pending", ![p].found = a]
      BY <2>11 DEF Ask
    <3>2. a \in Used \cup {0} /\ Used' = Used /\ graph_run' = graph_run
      BY <2>11 DEF Pending, Used, Ask
    <3>3. exec'[p].pc = "pending" /\ exec'[p].found = a /\ exec'[p].state = exec[p].state
      BY <3>1, <2>exec DEF TypeOK, Execs
    <3>4. \A q \in Procs \ {p} : exec'[q] = exec[q]
      BY <3>1 DEF TypeOK
    <3>5. exec[p].state.request \in Used \cup {0}
      BY <2>11 DEF Ask, At, AllNamed
    <3> QED BY <3>2, <3>3, <3>4, <3>5 DEF AllNamed, Named
  <2>12. CASE InsertApproval(p)
    <3>1. PICK a \in ApprovalIds \cup {0}, b \in ApprovalIds \cup {0} :
            /\ exec' = [exec EXCEPT ![p].state.request = a, ![p].found = b]
            /\ a \in Used' /\ b \in Used \cup {0}
      <4>1. CASE exec[p].found # 0
        <5>1. exec[p].found \in Used /\ exec[p].found \in ApprovalIds
          BY <2>12, <4>1 DEF InsertApproval, At, AllNamed, Used
        <5>2. exec' = [exec EXCEPT ![p].state.request = exec[p].found, ![p].found = 0]
          BY <2>12, <4>1 DEF InsertApproval
        <5> QED BY <5>1, <5>2, <1>grows
      <4>2. CASE exec[p].found = 0
        <5>1. PICK a \in ApprovalIds :
                /\ exec' = [exec EXCEPT ![p].state.request = a]
                /\ graph_approvals' = [graph_approvals EXCEPT ![a] = "pending"]
          BY <2>12, <4>2 DEF InsertApproval
        <5>2. a \in Used'
          BY <5>1 DEF Used, TypeOK
        <5>3. exec' = [exec EXCEPT ![p].state.request = a, ![p].found = 0]
          BY <5>1, <4>2, <2>exec DEF TypeOK, Execs, States
        <5> QED BY <5>2, <5>3
      <4> QED BY <4>1, <4>2
    <3>2. exec'[p].pc = "pending" /\ exec'[p].found = b /\ exec'[p].state.request = a
      BY <3>1, <2>12, <2>exec DEF InsertApproval, At, TypeOK, Execs, States
    <3>3. \A q \in Procs \ {p} : exec'[q] = exec[q]
      BY <3>1 DEF TypeOK
    <3>4. graph_run' = graph_run
      BY <2>12 DEF InsertApproval
    <3> QED BY <3>1, <3>2, <3>3, <3>4, <1>grows DEF AllNamed, Named
  <2>13. CASE SavePending(p)
    <3>1. Named(exec[p].state)
      BY <2>13 DEF SavePending, At, AllNamed, Named
    <3> QED BY <2>13, <3>1, NodeEndsNamed DEF SavePending
  <2>14. CASE SyncSource(p)
    <3>0. Named(exec[p].state)
      BY <2>14, <2>named DEF SyncSource, At
    <3>1. CASE NodeSkips(p, AfterSync(p))
      BY <3>0, <3>1, NodeSkipsNamed DEF AfterSync
    <3>2. CASE Syncs(p)
      <4>1. /\ exec'[p].state = exec[p].state /\ exec'[p].pc = "synced"
            /\ graph_run' = graph_run
            /\ \A q \in Procs \ {p} : exec'[q] = exec[q]
        BY <2>14, <3>2, <2>exec DEF SyncSource, TypeOK, Execs
      <4>2. exec[p].state.status # "pending_approval"
        BY <3>2 DEF Syncs
      <4> QED BY <4>1, <4>2, <1>others
    <3> QED BY <2>14, <3>1, <3>2 DEF SyncSource
  <2>15. CASE SaveSync(p)
    BY <2>15, <2>named, NodeEndsNamed DEF SaveSync, At, AfterSync
  <2>16. CASE VerifySync(p)
    BY <2>16, <2>named, NodeEndsNamed DEF VerifySync, At
  <2>17. CASE CallCoreInvestigate(p)
    <3>0. Named(exec[p].state)
      BY <2>17, <2>named DEF CallCoreInvestigate, At
    <3>1. CASE NodeSkips(p, "report")
      BY <3>0, <3>1, NodeSkipsNamed
    <3>2. CASE \E status \in {"core_investigation_complete", "core_unavailable"} :
                 NodeEnds(p, WithStatus(p, status), "report")
      BY <3>2, <1>running, NodeEndsNamed DEF Statuses
    <3> QED BY <2>17, <3>1, <3>2 DEF CallCoreInvestigate
  <2>18. CASE Report(p)
    <3>1. exec'[p] = IdleExec /\ (\A q \in Procs \ {p} : exec'[q] = exec[q]) /\ Used' = Used
      BY <2>18 DEF Report, TypeOK, Used
    <3>2. ReportStatus(p) = "pending_approval" => exec[p].state.status = "pending_approval"
      BY DEF ReportStatus
    <3>3. graph_run'.state = WithStatus(p, ReportStatus(p))
      BY <2>18 DEF Report, Save, TypeOK, Rows
    <3>4. Named(WithStatus(p, ReportStatus(p)))
      BY <3>2, <2>18, <2>named, <2>exec DEF Report, At, Named, WithStatus, States
    <3> QED BY <3>1, <3>3, <3>4, <1>idle DEF AllNamed, Named
  <2>19. CASE Fail(p)
    <3>1. exec'[p] = IdleExec /\ \A q \in Procs \ {p} : exec'[q] = exec[q]
      BY <2>19 DEF Fail, TypeOK
    <3>2. graph_run' = graph_run \/ graph_run'.state.status = "failed"
      BY <2>19 DEF Fail, Save, TypeOK, Rows
    <3> QED BY <3>1, <3>2, <1>idle, <1>others
  <2> QED BY <1>5, <2>1, <2>2, <2>3, <2>4, <2>5, <2>6, <2>7, <2>8, <2>9, <2>10, <2>11, <2>12,
             <2>13, <2>14, <2>15, <2>16, <2>17, <2>18, <2>19 DEF Advance
<1>6. ASSUME NEW p \in Procs, Crash(p)
      PROVE  AllNamed'
  <2>1. exec'[p] = IdleExec /\ (\A q \in Procs \ {p} : exec'[q] = exec[q])
          /\ graph_run' = graph_run
    BY <1>6 DEF Crash, TypeOK
  <2> QED BY <2>1, <1>idle, <1>others
<1>7. CASE UNCHANGED vars
  BY <1>7 DEF vars, AllNamed, Named, Used
<1> QED BY <1>1, <1>2, <1>3, <1>4, <1>5, <1>6, <1>7 DEF Next, Command

(* Whatever crashes and whatever commands run together, a run that waits    *)
(* for approval names an approval that can be decided.                      *)
THEOREM PendingCanBeDecided == Spec => []PendingRunsCanBeDecided
<1>1. Init => AllNamed
  BY DEF Init, AllNamed, Named, FreshState, IdleExec
<1>2. AllNamed => PendingRunsCanBeDecided
  BY DEF AllNamed, Named, PendingRunsCanBeDecided
<1> QED BY <1>1, <1>2, NamedNext, GraphTypeCorrect, PTL DEF Spec

-----------------------------------------------------------------------------
(* Uploads are approved, when commands run one at a time *)

OneAtATime == \A p, q \in Procs : p = q

(* the conjuncts of Consented for a process that executes *)
Sound(e, said) ==
  /\ e.pc \notin {"decided", "decision", "reload"}
  /\ e.state.approved => said
  /\ e.pc \in {"ask", "pending"} => e.state.status = "pending_approval"
  /\ e.pc # "sync"

LEMMA SoundStep ==
  ASSUME OneAtATime, NEW p \in Procs,
         exec'[p].pc = "idle" \/ Sound(exec'[p], consent')
  PROVE  Consented'
BY DEF OneAtATime, Sound, Consented, At

LEMMA StatusKeepsApproval ==
  ASSUME TypeOK, NEW p \in Procs, NEW status
  PROVE  /\ WithStatus(p, status).approved = exec[p].state.approved
         /\ WithStatus(p, status).status = status
BY DEF WithStatus, TypeOK, Execs, States

LEMMA NodeEndsConsented ==
  ASSUME OneAtATime, TypeOK, NEW p \in Procs, NEW state, NEW step,
         NodeEnds(p, state, step), state.approved => consent,
         step \notin {"ask", "pending", "sync", "decided", "decision", "reload"}
  PROVE  Consented'
<1>1. exec'[p].state = state /\ exec'[p].pc = step /\ consent' = consent
  BY DEF NodeEnds, TypeOK, Execs
<1> QED BY <1>1, SoundStep DEF Sound

LEMMA NodeSkipsConsented ==
  ASSUME OneAtATime, TypeOK, NEW p \in Procs, NEW step,
         NodeSkips(p, step), exec[p].state.approved => consent,
         step \notin {"ask", "pending", "sync", "decided", "decision", "reload"}
  PROVE  Consented'
<1>1. exec'[p].state = exec[p].state /\ exec'[p].pc = step /\ consent' = consent
  BY DEF NodeSkips, TypeOK, Execs
<1> QED BY <1>1, SoundStep DEF Sound

(* into the sync with a state in which it does not upload, or an approved one *)
LEMMA IntoSyncConsented ==
  ASSUME OneAtATime, NEW p \in Procs,
         exec'[p].pc = "sync", exec'[p].state.approved => consent',
         \/ exec'[p].state.status \in {"failed", "core_unavailable", "pending_approval"}
         \/ ~(exec'[p].required /\ TargetsCore(exec'[p].state))
         \/ exec'[p].state.approved
  PROVE  Consented'
BY DEF OneAtATime, Consented, At, Syncs, Requires

LEMMA ConsentedNext ==
  ASSUME OneAtATime
  PROVE  TypeOK /\ Consented /\ [Next]_vars => Consented'
<1> SUFFICES ASSUME TypeOK, Consented, [Next]_vars
             PROVE  Consented'
  OBVIOUS
<1>1. ASSUME NEW p \in Procs, Start(p)
      PROVE  Consented'
  <2>0. PICK r \in NewRuns :
          LET state == [FreshState EXCEPT !.approved = r.yes, !.input = r.input]
          IN  /\ graph_run' = [graph |-> r.graph, state |-> state]
              /\ exec' = [exec EXCEPT ![p] = [IdleExec EXCEPT !.pc = "load", !.state = state]]
              /\ consent' = r.yes
    BY <1>1 DEF Start
  <2> DEFINE state == [FreshState EXCEPT !.approved = r.yes, !.input = r.input]
  <2>s. state.approved = r.yes
    BY DEF FreshState
  <2> HIDE DEF state
  <2>a. exec'[p] = [IdleExec EXCEPT !.pc = "load", !.state = state] /\ consent' = r.yes
    BY <2>0 DEF state, TypeOK
  <2>b. exec'[p].pc = "load" /\ exec'[p].state = state
    BY <2>a DEF IdleExec
  <2> QED BY <2>s, <2>a, <2>b, SoundStep DEF Sound
<1>2. ASSUME NEW p \in Procs, StartAsFailed(p)
      PROVE  Consented'
  BY <1>2, SoundStep DEF StartAsFailed, At
<1>3. ASSUME NEW p \in Procs, Resume(p)
      PROVE  Consented'
  <2>1. PICK yes \in BOOLEAN, input \in InputsOf(graph_run.graph) :
          /\ exec' = [exec EXCEPT ![p] =
               [IdleExec EXCEPT !.pc = "begin", !.call = "resume",
                                !.state = [graph_run.state EXCEPT
                                             !.approved = yes, !.input = input, !.lost = FALSE]]]
          /\ consent' = (consent \/ yes)
    BY <1>3 DEF Resume
  <2> DEFINE state == [graph_run.state EXCEPT !.approved = yes, !.input = input, !.lost = FALSE]
  <2>2. state.approved = yes
    BY DEF TypeOK, Rows, States
  <2> HIDE DEF state
  <2>3. exec'[p] = [IdleExec EXCEPT !.pc = "begin", !.call = "resume", !.state = state]
    BY <2>1 DEF state, TypeOK
  <2>4. exec'[p].pc = "begin" /\ exec'[p].state = state
    BY <2>3 DEF IdleExec
  <2> QED BY <2>1, <2>2, <2>4, SoundStep DEF Sound
<1>4. ASSUME NEW p \in Procs, NEW a \in ApprovalIds, Decide(p, a)
      PROVE  Consented'
  <2>1. /\ exec'[p].pc = "decided"
        /\ exec'[p].call = "approve" => consent'
    BY <1>4 DEF Decide, TypeOK, IdleExec
  <2> QED BY <2>1 DEF OneAtATime, Consented, At
<1>5. ASSUME NEW p \in Procs, Advance(p)
      PROVE  Consented'
  <2>exec. exec[p] \in Execs /\ exec[p].state \in States
    BY DEF TypeOK, Execs
  <2>said. exec[p].pc \notin {"idle", "decided", "decision", "reload"} =>
             (exec[p].state.approved => consent)
    BY DEF Consented
  <2>call. exec[p].pc \in {"decided", "decision", "reload"} /\ exec[p].call = "approve" => consent
    BY DEF Consented
  <2>1. CASE ReadDecided(p)
    <3>1. /\ exec'[p].pc = "decision" /\ exec'[p].call = exec[p].call /\ consent' = consent
          /\ exec[p].pc = "decided"
      BY <2>1, <2>exec DEF ReadDecided, TypeOK, Execs, At
    <3> QED BY <3>1, <2>call DEF OneAtATime, Consented, At
  <2>2. CASE SaveDecision(p)
    <3>1. /\ exec[p].pc = "decision" /\ consent' = consent
          /\ \/ exec'[p].pc = "idle"
             \/ /\ exec'[p].pc = "reload" /\ exec'[p].call = exec[p].call
                /\ exec[p].call = "approve"
      BY <2>2, <2>exec DEF SaveDecision, TypeOK, Execs, At, IdleExec
    <3> QED BY <3>1, <2>call DEF OneAtATime, Consented, At
  <2>3. CASE Reload(p)
    <3>1. exec'[p].pc = "begin" /\ exec[p].pc = "reload" /\ consent' = consent
      BY <2>3, <2>exec DEF Reload, TypeOK, Execs, At
    <3>2. exec[p].call = "approve"
      BY <3>1 DEF Consented
    <3> QED BY <3>1, <3>2, <2>call, SoundStep DEF Sound
  <2>4. CASE Begin(p)
    BY <2>4, <2>said, StatusKeepsApproval, NodeEndsConsented DEF Begin, At
  <2>5. CASE LoadConfig(p)
    BY <2>5, <2>said, StatusKeepsApproval, NodeEndsConsented DEF LoadConfig, At
  <2>6. CASE ValidatePathPolicy(p)
    <3>1. PICK allowed \in BOOLEAN :
            NodeEnds(p, IF allowed THEN exec[p].state ELSE WithStatus(p, "failed"), "local")
      BY <2>6 DEF ValidatePathPolicy
    <3>2. (IF allowed THEN exec[p].state ELSE WithStatus(p, "failed")).approved => consent
      BY <2>6, <2>said, StatusKeepsApproval DEF ValidatePathPolicy, At
    <3> QED BY <3>1, <3>2, NodeEndsConsented
  <2>7. CASE CheckCoreHealth(p)
    BY <2>7, <2>said, StatusKeepsApproval, NodeEndsConsented DEF CheckCoreHealth, At
  <2>8. CASE InspectLocally(p)
    BY <2>8, <2>said, NodeEndsConsented, NodeSkipsConsented DEF InspectLocally, At
  <2>9. CASE DecideIfSyncNeeded(p)
    <3>1. exec'[p].state = exec[p].state /\ exec'[p].pc = "gate" /\ consent' = consent
            /\ exec[p].pc = "decide"
      BY <2>9, <2>exec DEF DecideIfSyncNeeded, TypeOK, Execs, At
    <3> QED BY <3>1, <2>said, SoundStep DEF Sound
  <2>10. CASE ApprovalGate(p)
    <3>0. consent' = consent /\ (exec[p].state.approved => consent)
      BY <2>10, <2>said DEF ApprovalGate, At, NodeSkips, NodeEnds
    <3>1. CASE Blocked(p) /\ NodeSkips(p, "sync")
      <4>1. exec'[p].pc = "sync" /\ exec'[p].state = exec[p].state
        BY <3>1, <2>exec DEF NodeSkips, TypeOK, Execs
      <4> QED BY <3>0, <3>1, <4>1, IntoSyncConsented DEF Blocked
    <3>2. CASE /\ exec' = [exec EXCEPT ![p].state.status = "pending_approval",
                                       ![p].state.request = 0, ![p].pc = "ask"]
      <4>1. /\ exec'[p].pc = "ask" /\ exec'[p].state.status = "pending_approval"
            /\ exec'[p].state.approved = exec[p].state.approved
        BY <3>2, <2>exec DEF TypeOK, Execs, States
      <4> QED BY <3>0, <4>1, SoundStep DEF Sound
    <3>3. CASE /\ ~Requires(p) \/ exec[p].state.approved
               /\ NodeEnds(p, IF Requires(p) THEN WithStatus(p, "approved") ELSE exec[p].state,
                           "sync")
      <4>1. /\ exec'[p].pc = "sync" /\ exec'[p].required = exec[p].required
            /\ exec'[p].state = IF Requires(p) THEN WithStatus(p, "approved") ELSE exec[p].state
        BY <3>3, <2>exec DEF NodeEnds, TypeOK, Execs
      <4>2. exec'[p].state.approved = exec[p].state.approved
        BY <4>1, StatusKeepsApproval
      <4> QED BY <3>0, <3>3, <4>1, <4>2, IntoSyncConsented DEF Requires
    <3> QED BY <2>10, <3>1, <3>2, <3>3 DEF ApprovalGate
  <2>11. CASE Ask(p)
    <3>1. exec'[p].pc = "pending" /\ exec'[p].state = exec[p].state /\ consent' = consent
            /\ exec[p].pc = "ask"
      BY <2>11, <2>exec DEF Ask, TypeOK, Execs, At
    <3> QED BY <3>1, <2>said, SoundStep DEF Sound, Consented
  <2>12. CASE InsertApproval(p)
    <3>1. /\ exec'[p].pc = "pending" /\ exec[p].pc = "pending" /\ consent' = consent
          /\ exec'[p].state.status = exec[p].state.status
          /\ exec'[p].state.approved = exec[p].state.approved
      BY <2>12, <2>exec DEF InsertApproval, TypeOK, Execs, States, At
    <3> QED BY <3>1, <2>said, SoundStep DEF Sound, Consented
  <2>13. CASE SavePending(p)
    <3>1. exec'[p].pc = "sync" /\ exec'[p].state = exec[p].state /\ consent' = consent
            /\ exec[p].pc = "pending"
      BY <2>13, <2>exec DEF SavePending, NodeEnds, TypeOK, Execs, At
    <3> QED BY <3>1, <2>said, IntoSyncConsented DEF Consented
  <2>14. CASE SyncSource(p)
    <3>0. exec[p].state.approved => consent
      BY <2>14, <2>said DEF SyncSource, At
    <3>1. CASE NodeSkips(p, AfterSync(p))
      BY <3>0, <3>1, NodeSkipsConsented DEF AfterSync
    <3>2. CASE Syncs(p)
      <4>1. exec'[p].state = exec[p].state /\ exec'[p].pc = "synced" /\ consent' = consent
        BY <2>14, <3>2, <2>exec DEF SyncSource, TypeOK, Execs
      <4> QED BY <3>0, <4>1, SoundStep DEF Sound
    <3> QED BY <2>14, <3>1, <3>2 DEF SyncSource
  <2>15. CASE SaveSync(p)
    BY <2>15, <2>said, NodeEndsConsented DEF SaveSync, At, AfterSync
  <2>16. CASE VerifySync(p)
    BY <2>16, <2>said, NodeEndsConsented DEF VerifySync, At
  <2>17. CASE CallCoreInvestigate(p)
    <3>0. exec[p].state.approved => consent
      BY <2>17, <2>said DEF CallCoreInvestigate, At
    <3>1. CASE NodeSkips(p, "report")
      BY <3>0, <3>1, NodeSkipsConsented
    <3>2. CASE \E status \in {"core_investigation_complete", "core_unavailable"} :
                 NodeEnds(p, WithStatus(p, status), "report")
      BY <3>0, <3>2, StatusKeepsApproval, NodeEndsConsented
    <3> QED BY <2>17, <3>1, <3>2 DEF CallCoreInvestigate
  <2>18. CASE Report(p) \/ Fail(p)
    <3>1. exec'[p].pc = "idle"
      BY <2>18 DEF Report, Fail, TypeOK, IdleExec
    <3> QED BY <3>1, SoundStep
  <2> QED BY <1>5, <2>1, <2>2, <2>3, <2>4, <2>5, <2>6, <2>7, <2>8, <2>9, <2>10, <2>11, <2>12,
             <2>13, <2>14, <2>15, <2>16, <2>17, <2>18 DEF Advance
<1>6. ASSUME NEW p \in Procs, Crash(p)
      PROVE  Consented'
  <2>1. exec'[p].pc = "idle"
    BY <1>6 DEF Crash, TypeOK, IdleExec
  <2> QED BY <2>1, SoundStep
<1>7. CASE UNCHANGED vars
  BY <1>7 DEF vars, Consented, At, Syncs, Requires
<1> QED BY <1>1, <1>2, <1>3, <1>4, <1>5, <1>6, <1>7 DEF Next, Command

(* A step that uploads is the sync of a process that Consented covers. *)
LEMMA UploadConsented ==
  ASSUME TypeOK, Consented, [Next]_vars, NEW p \in Procs, exec'[p].sent, ~exec[p].sent
  PROVE  consent
<1>1. ASSUME NEW q \in Procs, Command(q)
      PROVE  exec'[p] = exec[p] \/ ~exec'[p].sent
  BY <1>1 DEF Command, Start, StartAsFailed, Resume, Decide, IdleExec, TypeOK
<1>2. ASSUME NEW q \in Procs, Advance(q), ~SyncSource(q)
      PROVE  exec'[p].sent = exec[p].sent \/ ~exec'[p].sent
  <2>1. exec[q] \in Execs
    BY DEF TypeOK
  <2>2. ASSUME NEW state, NEW step, NodeEnds(q, state, step)
        PROVE  exec'[p].sent = exec[p].sent
    BY <2>1, <2>2 DEF NodeEnds, TypeOK, Execs
  <2>3. ASSUME NEW step, NodeSkips(q, step)
        PROVE  exec'[p].sent = exec[p].sent
    BY <2>1, <2>3 DEF NodeSkips, TypeOK, Execs
  <2>4. CASE ReadDecided(q) \/ Reload(q)
    BY <2>1, <2>4 DEF ReadDecided, Reload, TypeOK, Execs
  <2>5. CASE SaveDecision(q)
    BY <2>1, <2>5 DEF SaveDecision, IdleExec, TypeOK, Execs
  <2>6. CASE Begin(q) \/ LoadConfig(q) \/ InspectLocally(q)
    BY <2>2, <2>3, <2>6 DEF Begin, LoadConfig, InspectLocally
  <2>7. CASE ValidatePathPolicy(q) \/ CheckCoreHealth(q)
    BY <2>2, <2>7 DEF ValidatePathPolicy, CheckCoreHealth
  <2>8. CASE DecideIfSyncNeeded(q)
    BY <2>1, <2>8 DEF DecideIfSyncNeeded, TypeOK, Execs
  <2>9. CASE ApprovalGate(q)
    <3>1. CASE exec' = [exec EXCEPT ![q].state.status = "pending_approval",
                                    ![q].state.request = 0,
                                    ![q].pc = "ask"]
      BY <2>1, <3>1 DEF TypeOK, Execs
    <3> QED BY <2>2, <2>3, <2>9, <3>1 DEF ApprovalGate
  <2>10. CASE Ask(q)
    BY <2>1, <2>10 DEF Ask, TypeOK, Execs
  <2>11. CASE InsertApproval(q)
    BY <2>1, <2>11 DEF InsertApproval, TypeOK, Execs
  <2>12. CASE SavePending(q) \/ SaveSync(q) \/ VerifySync(q)
    BY <2>2, <2>12 DEF SavePending, SaveSync, VerifySync
  <2>13. CASE CallCoreInvestigate(q)
    BY <2>2, <2>3, <2>13 DEF CallCoreInvestigate
  <2>14. CASE Report(q) \/ Fail(q)
    BY <2>1, <2>14 DEF Report, Fail, IdleExec, TypeOK, Execs
  <2> QED BY <1>2, <2>4, <2>5, <2>6, <2>7, <2>8, <2>9, <2>10, <2>11, <2>12, <2>13, <2>14 DEF Advance
<1>3. ASSUME NEW q \in Procs, Crash(q)
      PROVE  exec'[p] = exec[p] \/ ~exec'[p].sent
  BY <1>3 DEF Crash, IdleExec, TypeOK
<1>4. ASSUME NEW q \in Procs, SyncSource(q)
      PROVE  consent
  <2>1. exec[q] \in Execs
    BY DEF TypeOK
  <2>2. q = p /\ Syncs(p) /\ exec[p].state.input = "api" /\ At(p, "sync")
    BY <1>4, <2>1 DEF SyncSource, NodeSkips, TypeOK, Execs
  <2>3. Requires(p)
    BY <2>2 DEF Syncs, Requires, TargetsCore
  <2> QED BY <2>2, <2>3 DEF Consented, At
<1>5. CASE UNCHANGED vars
  BY <1>5 DEF vars
<1> QED BY <1>1, <1>2, <1>3, <1>4, <1>5 DEF Next

(* When commands run one at a time, nothing is uploaded against the         *)
(* operator's last word, whatever raises or is killed.                      *)
THEOREM ApprovedUploads == ASSUME OneAtATime PROVE Spec => UploadsAreApproved
<1>1. Init => Consented
  BY DEF Init, Consented, IdleExec, At
<1>2. TypeOK /\ Consented /\ [Next]_vars => Consented'
  BY ConsentedNext
<1>3. TypeOK /\ Consented /\ [Next]_vars =>
        [\A p \in Procs : exec'[p].sent /\ ~exec[p].sent => consent]_vars
  BY UploadConsented
<1> QED BY <1>1, <1>2, <1>3, GraphTypeCorrect, PTL DEF Spec, UploadsAreApproved
-----------------------------------------------------------------------------
(* A run has one pending approval, when commands run one at a time *)

(* What ensure_approval found is still so when it inserts. *)
NothingPending ==
  \A p \in Procs :
    At(p, "pending") /\ exec[p].state.request = 0 /\ exec[p].found = 0 => Pending = {}

(* A step that adds no pending approval and is not on the way to insert one *)
LEMMA NoNewPending ==
  ASSUME OneAtATime, OnePendingApproval, NEW p \in Procs,
         Pending' \subseteq Pending,
         exec'[p].pc # "pending" \/ exec'[p].state.request # 0
  PROVE  OnePendingApproval' /\ NothingPending'
BY DEF OneAtATime, OnePendingApproval, NothingPending, At

LEMMA OnePendingNext ==
  ASSUME OneAtATime
  PROVE  TypeOK /\ OnePendingApproval /\ NothingPending /\ [Next]_vars
           => OnePendingApproval' /\ NothingPending'
<1> SUFFICES ASSUME TypeOK, OnePendingApproval, NothingPending, [Next]_vars
             PROVE  OnePendingApproval' /\ NothingPending'
  OBVIOUS
<1> DEFINE Goal == OnePendingApproval' /\ NothingPending'
<1>same. graph_approvals' = graph_approvals => Pending' = Pending
  BY DEF Pending
<1>exec. ASSUME NEW p \in Procs
         PROVE  exec[p] \in Execs /\ exec[p].state \in States
  BY DEF TypeOK, Execs
<1>ends. ASSUME NEW p \in Procs, NEW state, NEW step, NodeEnds(p, state, step), step # "pending"
         PROVE  Goal
  <2>1. exec'[p].pc = step
    BY <1>ends, <1>exec DEF NodeEnds, TypeOK, Execs
  <2> QED BY <2>1, <1>ends, <1>same, NoNewPending DEF NodeEnds
<1>skips. ASSUME NEW p \in Procs, NEW step, NodeSkips(p, step), step # "pending"
          PROVE  Goal
  <2>1. exec'[p].pc = step
    BY <1>skips, <1>exec DEF NodeSkips, TypeOK, Execs
  <2> QED BY <2>1, <1>skips, <1>same, NoNewPending DEF NodeSkips
<1>1. ASSUME NEW p \in Procs, Command(p)
      PROVE  Goal
  <2>1. exec'[p].pc # "pending"
    BY <1>1 DEF Command, Start, StartAsFailed, Resume, Decide, At, IdleExec, TypeOK
  <2>2. CASE \E a \in ApprovalIds : Decide(p, a)
    <3>1. Pending' \subseteq Pending
      BY <2>2 DEF Decide, Pending, TypeOK
    <3> QED BY <2>1, <3>1, NoNewPending
  <2>3. CASE graph_approvals' = graph_approvals
    BY <2>1, <2>3, <1>same, NoNewPending
  <2> QED BY <1>1, <2>2, <2>3 DEF Command, Start, StartAsFailed, Resume
<1>2. ASSUME NEW p \in Procs, Advance(p)
      PROVE  Goal
  <2>1. CASE ReadDecided(p) \/ SaveDecision(p) \/ Reload(p)
    <3>1. exec'[p].pc # "pending" /\ graph_approvals' = graph_approvals
      BY <2>1, <1>exec DEF ReadDecided, SaveDecision, Reload, IdleExec, TypeOK, Execs
    <3> QED BY <3>1, <1>same, NoNewPending
  <2>2. CASE Begin(p) \/ LoadConfig(p) \/ ValidatePathPolicy(p) \/ CheckCoreHealth(p)
    BY <2>2, <1>ends DEF Begin, LoadConfig, ValidatePathPolicy, CheckCoreHealth
  <2>3. CASE InspectLocally(p)
    BY <2>3, <1>ends, <1>skips DEF InspectLocally
  <2>4. CASE DecideIfSyncNeeded(p)
    <3>1. exec'[p].pc # "pending" /\ graph_approvals' = graph_approvals
      BY <2>4, <1>exec DEF DecideIfSyncNeeded, TypeOK, Execs
    <3> QED BY <3>1, <1>same, NoNewPending
  <2>5. CASE ApprovalGate(p)
    <3>1. CASE exec' = [exec EXCEPT ![p].state.status = "pending_approval",
                                    ![p].state.request = 0, ![p].pc = "ask"]
                /\ UNCHANGED <<graph_run, graph_approvals, consent>>
      <4>1. exec'[p].pc # "pending"
        BY <3>1, <1>exec DEF TypeOK, Execs, States
      <4> QED BY <3>1, <4>1, <1>same, NoNewPending
    <3> QED BY <2>5, <3>1, <1>ends, <1>skips DEF ApprovalGate
  <2>6. CASE Ask(p)
    <3>1. PICK a \in Pending \cup {0} :
            /\ \A b \in Pending : b <= a
            /\ exec' = [exec EXCEPT ![p].pc = "pending", ![p].found = a]
      BY <2>6 DEF Ask
    <3>2. exec'[p].found = a /\ Pending' = Pending
      BY <2>6, <3>1, <1>exec, <1>same DEF Ask, TypeOK, Execs
    <3>3. a = 0 => Pending = {}
      BY <3>1, BoundAssumption DEF Pending, ApprovalIds
    <3> QED BY <3>2, <3>3 DEF OneAtATime, OnePendingApproval, NothingPending
  <2>7. CASE InsertApproval(p)
    <3>0. exec[p].pc = "pending" /\ exec[p].state.request = 0
      BY <2>7 DEF InsertApproval, At
    <3>1. CASE exec[p].found # 0
      <4>1. exec'[p].state.request # 0 /\ graph_approvals' = graph_approvals
        BY <2>7, <3>1, <1>exec DEF InsertApproval, TypeOK, Execs, States
      <4> QED BY <4>1, <1>same, NoNewPending
    <3>2. CASE exec[p].found = 0
      <4>1. PICK a \in ApprovalIds \ Used :
              /\ exec' = [exec EXCEPT ![p].state.request = a]
              /\ graph_approvals' = [graph_approvals EXCEPT ![a] = "pending"]
        BY <2>7, <3>2 DEF InsertApproval
      <4>2. Pending = {}
        BY <3>0, <3>2 DEF NothingPending, At
      <4>3. Pending' \subseteq {a}
        BY <4>1, <4>2 DEF Pending, TypeOK
      <4>4. exec'[p].state.request = a /\ a # 0
        BY <4>1, <1>exec, BoundAssumption DEF TypeOK, Execs, States, ApprovalIds
      <4> QED BY <4>3, <4>4 DEF OneAtATime, OnePendingApproval, NothingPending
    <3> QED BY <3>1, <3>2
  <2>8. CASE SavePending(p) \/ SaveSync(p) \/ VerifySync(p)
    BY <2>8, <1>ends DEF SavePending, SaveSync, VerifySync, AfterSync
  <2>9. CASE SyncSource(p)
    <3>1. CASE Syncs(p)
      <4>1. exec'[p].pc # "pending" /\ graph_approvals' = graph_approvals
        BY <2>9, <3>1, <1>exec DEF SyncSource, TypeOK, Execs
      <4> QED BY <4>1, <1>same, NoNewPending
    <3> QED BY <2>9, <3>1, <1>skips DEF SyncSource, AfterSync
  <2>10. CASE CallCoreInvestigate(p)
    BY <2>10, <1>ends, <1>skips DEF CallCoreInvestigate
  <2>11. CASE Report(p) \/ Fail(p)
    <3>1. exec'[p].pc # "pending" /\ graph_approvals' = graph_approvals
      BY <2>11 DEF Report, Fail, IdleExec, TypeOK
    <3> QED BY <3>1, <1>same, NoNewPending
  <2> QED BY <1>2, <2>1, <2>2, <2>3, <2>4, <2>5, <2>6, <2>7, <2>8, <2>9, <2>10, <2>11 DEF Advance
<1>3. ASSUME NEW p \in Procs, Crash(p)
      PROVE  Goal
  <2>1. exec'[p].pc # "pending" /\ graph_approvals' = graph_approvals
    BY <1>3 DEF Crash, IdleExec, TypeOK
  <2> QED BY <2>1, <1>same, NoNewPending
<1>4. CASE UNCHANGED vars
  BY <1>4 DEF vars, OnePendingApproval, NothingPending, Pending, At
<1> QED BY <1>1, <1>2, <1>3, <1>4 DEF Next

(* When commands run one at a time, a run never has two pending approvals,  *)
(* whatever was decided twice or killed on the way.                         *)
THEOREM OnePending == ASSUME OneAtATime PROVE Spec => []OnePendingApproval
<1>1. Init => OnePendingApproval /\ NothingPending
  BY DEF Init, OnePendingApproval, NothingPending, Pending, IdleExec, At
<1>2. TypeOK /\ OnePendingApproval /\ NothingPending /\ [Next]_vars
        => OnePendingApproval' /\ NothingPending'
  BY OnePendingNext
<1> QED BY <1>1, <1>2, GraphTypeCorrect, PTL DEF Spec

-----------------------------------------------------------------------------
(* Core investigates after the sync, for any number of commands at a time *)

IsBridge == graph_run.graph = "investigation_bridge"

(* the way from load_config to call_core_investigate *)
OnTheWay == {"validate", "health", "local", "decide", "gate", "ask", "pending", "sync",
             "synced", "verify", "investigate"}

Waits(state) ==
  state.status \in {"failed", "core_unavailable", "pending_approval", "rejected"}

(* What an execution relies on when it investigates: nothing on the way     *)
(* claims an investigation; a required sync of the bridge has a path, to    *)
(* Core or for a dry run; and past the sync it took place.                  *)
Evident(e) ==
  /\ e.pc \in OnTheWay => e.state.status # "core_investigation_complete"
  /\ IsBridge => e.state.input # "file"
  /\ IsBridge /\ e.required /\ e.pc \in {"gate", "ask", "pending", "sync", "synced"}
       => HasPath(e.state)
  /\ e.pc = "synced" => e.sent \/ e.state.input # "api"
  /\ e.pc = "investigate" /\ e.required /\ ~Waits(e.state) => e.sent \/ e.state.input = "dry"
  /\ e.pc = "report" /\ e.state.status = "core_investigation_complete" /\ e.required
       => e.sent \/ e.state.input = "dry"

(* No command is under way before the run exists, so that every execution   *)
(* sees one graph all along.                                                *)
Started ==
  ~Exists => Used = {} /\ \A p \in Procs : exec[p] = IdleExec

AllEvident ==
  /\ Started
  /\ IsBridge => graph_run.state.input # "file"
  /\ \A p \in Procs : Evident(exec[p])

LEMMA EvidentIdle == Evident(IdleExec)
BY DEF Evident, IdleExec, FreshState, OnTheWay

(* A step of p in a run that exists *)
LEMMA EvidentStep ==
  ASSUME TypeOK, AllEvident, NEW p \in Procs,
         ~At(p, "idle") \/ Exists,
         \A q \in Procs \ {p} : exec'[q] = exec[q],
         graph_run'.graph = graph_run.graph,
         IsBridge => graph_run'.state.input # "file",
         Evident(exec'[p])
  PROVE  AllEvident'
<1>1. Exists
  BY DEF AllEvident, Started, At, IdleExec
<1>2. IsBridge' = IsBridge /\ Exists' = Exists
  BY DEF IsBridge, Exists
<1>3. \A q \in Procs : Evident(exec[q])' = Evident(exec'[q])
  BY <1>2 DEF Evident, HasPath, Waits
<1>4. \A q \in Procs : Evident(exec'[q])
  BY DEF AllEvident
<1> QED BY <1>1, <1>2, <1>3, <1>4 DEF AllEvident, Started

LEMMA EvidentNext == TypeOK /\ AllEvident /\ [Next]_vars => AllEvident'
<1> SUFFICES ASSUME TypeOK, AllEvident, [Next]_vars
             PROVE  AllEvident'
  OBVIOUS
<1>row. graph_run \in Rows /\ graph_run.state \in States
  BY DEF TypeOK, Rows
<1>exec. ASSUME NEW p \in Procs
         PROVE  exec[p] \in Execs /\ exec[p].state \in States /\ Evident(exec[p])
  BY DEF TypeOK, Execs, AllEvident
<1>file. IsBridge => graph_run.state.input # "file"
  BY DEF AllEvident
<1>same. ASSUME NEW p \in Procs, ~At(p, "idle") \/ Exists, UNCHANGED graph_run,
                \A q \in Procs \ {p} : exec'[q] = exec[q], Evident(exec'[p])
         PROVE  AllEvident'
  BY <1>same, <1>file, EvidentStep
<1>ends. ASSUME NEW p \in Procs, ~At(p, "idle"), NEW state, NEW step, NodeEnds(p, state, step),
                Evident([exec[p] EXCEPT !.state = state, !.pc = step])
         PROVE  AllEvident'
  <2>1. exec'[p] = [exec[p] EXCEPT !.state = state, !.pc = step]
          /\ \A q \in Procs \ {p} : exec'[q] = exec[q]
    BY <1>ends, <1>exec DEF NodeEnds, TypeOK, Execs
  <2>2. graph_run'.graph = graph_run.graph /\ graph_run'.state = state
    BY <1>ends, <1>row DEF NodeEnds, Save, Rows
  <2>3. [exec[p] EXCEPT !.state = state, !.pc = step].state = state
    BY <1>exec DEF Execs
  <2>4. IsBridge => state.input # "file"
    BY <1>ends, <2>3 DEF Evident
  <2> QED BY <1>ends, <2>1, <2>2, <2>4, EvidentStep
<1>skips. ASSUME NEW p \in Procs, ~At(p, "idle"), NEW step, NodeSkips(p, step),
                 Evident([exec[p] EXCEPT !.pc = step])
          PROVE  AllEvident'
  <2>1. exec'[p] = [exec[p] EXCEPT !.pc = step]
          /\ \A q \in Procs \ {p} : exec'[q] = exec[q]
    BY <1>skips, <1>exec DEF NodeSkips, TypeOK, Execs
  <2> QED BY <1>skips, <2>1, <1>same DEF NodeSkips
<1>status. ASSUME NEW p \in Procs, NEW status
           PROVE  /\ WithStatus(p, status).status = status
                  /\ WithStatus(p, status).input = exec[p].state.input
                  /\ WithStatus(p, status).lost = exec[p].state.lost
  BY <1>exec DEF WithStatus, States
<1>begun. ASSUME NEW p \in Procs, NEW r \in NewRuns, NEW state,
                 state.status # "core_investigation_complete", state.input = r.input,
                 graph_run' = [graph |-> r.graph, state |-> state],
                 \A q \in Procs : exec[q] = IdleExec,
                 \/ exec' = exec
                 \/ exec' = [exec EXCEPT ![p] = [IdleExec EXCEPT !.pc = "load", !.state = state]]
          PROVE  AllEvident'
  <2>1. /\ state.status # "core_investigation_complete" /\ state.input = r.input
        /\ r.graph \in GraphNames /\ (r.graph # "source_onboarding" => r.input # "file")
    BY <1>begun, GraphsAssumption DEF NewRuns, InputsOf
  <2>2. /\ graph_run'.graph = r.graph /\ graph_run'.state = state
        /\ IsBridge' => r.input # "file"
        /\ Exists'
    BY <1>begun, <2>1 DEF IsBridge, Exists, GraphNames
  <2>3. Evident(IdleExec)'
    BY DEF Evident, IdleExec, FreshState, OnTheWay
  <2>4. Evident([IdleExec EXCEPT !.pc = "load", !.state = state])'
    BY <2>1, <2>2 DEF Evident, IdleExec, OnTheWay
  <2>5. \A q \in Procs : exec'[q] \in {IdleExec, [IdleExec EXCEPT !.pc = "load", !.state = state]}
    BY <1>begun DEF TypeOK
  <2>6. \A q \in Procs : Evident(exec[q])'
    BY <2>3, <2>4, <2>5 DEF Evident
  <2> QED BY <2>1, <2>2, <2>6 DEF AllEvident, Started
<1>1. ASSUME NEW p \in Procs, Start(p)
      PROVE  AllEvident'
  <2>1. PICK r \in NewRuns :
          LET state == [FreshState EXCEPT !.approved = r.yes, !.input = r.input]
          IN  /\ graph_run' = [graph |-> r.graph, state |-> state]
              /\ exec' = [exec EXCEPT ![p] = [IdleExec EXCEPT !.pc = "load", !.state = state]]
    BY <1>1 DEF Start
  <2> DEFINE state == [FreshState EXCEPT !.approved = r.yes, !.input = r.input]
  <2>2. state.status = "running" /\ state.input = r.input
    BY DEF FreshState
  <2>3. \A q \in Procs : exec[q] = IdleExec
    BY <1>1 DEF AllEvident, Started, Start
  <2> HIDE DEF state
  <2>4. /\ graph_run' = [graph |-> r.graph, state |-> state]
        /\ exec' = [exec EXCEPT ![p] = [IdleExec EXCEPT !.pc = "load", !.state = state]]
    BY <2>1 DEF state
  <2> QED BY <2>2, <2>3, <2>4, <1>begun
<1>2. ASSUME NEW p \in Procs, StartAsFailed(p)
      PROVE  AllEvident'
  <2>1. PICK r \in NewRuns :
          graph_run' = [graph |-> r.graph, state |->
            [FreshState EXCEPT !.status = "failed", !.approved = r.yes, !.input = r.input]]
    BY <1>2 DEF StartAsFailed
  <2> DEFINE state == [FreshState EXCEPT !.status = "failed", !.approved = r.yes,
                                         !.input = r.input]
  <2>2. state.status = "failed" /\ state.input = r.input
    BY DEF FreshState
  <2>3. exec' = exec /\ \A q \in Procs : exec[q] = IdleExec
    BY <1>2 DEF AllEvident, Started, StartAsFailed
  <2> HIDE DEF state
  <2>4. graph_run' = [graph |-> r.graph, state |-> state]
    BY <2>1 DEF state
  <2> QED BY <2>2, <2>3, <2>4, <1>begun
<1>3. ASSUME NEW p \in Procs, Resume(p)
      PROVE  AllEvident'
  <2>1. PICK yes \in BOOLEAN, input \in InputsOf(graph_run.graph) :
          exec' = [exec EXCEPT ![p] =
               [IdleExec EXCEPT !.pc = "begin", !.call = "resume",
                                !.state = [graph_run.state EXCEPT
                                             !.approved = yes, !.input = input, !.lost = FALSE]]]
    BY <1>3 DEF Resume
  <2> DEFINE state == [graph_run.state EXCEPT !.approved = yes, !.input = input, !.lost = FALSE]
  <2>2. state.input = input /\ (IsBridge => input # "file")
    BY <1>row DEF States, IsBridge, InputsOf
  <2> HIDE DEF state
  <2>3. exec'[p] = [IdleExec EXCEPT !.pc = "begin", !.call = "resume", !.state = state]
          /\ \A q \in Procs \ {p} : exec'[q] = exec[q]
    BY <2>1 DEF state, TypeOK
  <2>4. Evident(exec'[p])
    BY <2>2, <2>3 DEF Evident, IdleExec, OnTheWay
  <2> QED BY <1>3, <2>3, <2>4, <1>same DEF Resume
<1>4. ASSUME NEW p \in Procs, NEW a \in ApprovalIds, Decide(p, a)
      PROVE  AllEvident'
  <2>1. PICK call \in {"approve", "reject"} :
          exec' = [exec EXCEPT ![p] = [IdleExec EXCEPT !.pc = "decided", !.call = call]]
    BY <1>4 DEF Decide
  <2>2. exec'[p] = [IdleExec EXCEPT !.pc = "decided", !.call = call]
          /\ \A q \in Procs \ {p} : exec'[q] = exec[q]
    BY <2>1 DEF TypeOK
  <2>3. Evident(exec'[p])
    BY <2>2 DEF Evident, IdleExec, FreshState, OnTheWay
  <2>4. Exists
    BY <1>4 DEF AllEvident, Started, Decide
  <2> QED BY <1>4, <2>2, <2>3, <2>4, <1>same DEF Decide
<1>5. ASSUME NEW p \in Procs, Crash(p)
      PROVE  AllEvident'
  <2>1. exec'[p] = IdleExec /\ \A q \in Procs \ {p} : exec'[q] = exec[q]
    BY <1>5 DEF Crash, TypeOK
  <2> QED BY <1>5, <2>1, EvidentIdle, <1>same DEF Crash
<1>6. ASSUME NEW p \in Procs, Advance(p)
      PROVE  AllEvident'
  <2>pc. ~At(p, "idle")
    BY <1>6 DEF Advance, ReadDecided, SaveDecision, Reload, Begin, LoadConfig,
         ValidatePathPolicy, CheckCoreHealth, InspectLocally, DecideIfSyncNeeded, ApprovalGate,
         Ask, InsertApproval, SavePending, SyncSource, SaveSync, VerifySync,
         CallCoreInvestigate, Report, Fail, At
  <2>exec. exec[p] \in Execs /\ exec[p].state \in States /\ Evident(exec[p])
    BY <1>exec
  <2>graph. IsBridge <=> ~Onboards
    <3>1. Exists
      BY <2>pc DEF AllEvident, Started, At, IdleExec
    <3> QED BY <3>1, <1>row DEF IsBridge, Onboards, Exists, Rows, GraphNames
  <2>1. CASE ReadDecided(p)
    <3>1. PICK state \in {[graph_run.state EXCEPT !.approved = TRUE, !.status = "running"],
                          [graph_run.state EXCEPT !.status = "rejected"]} :
            exec' = [exec EXCEPT ![p].pc = "decision", ![p].state = state]
      BY <2>1 DEF ReadDecided
    <3>2. state.input = graph_run.state.input
      BY <1>row DEF States
    <3>3. /\ exec'[p].pc = "decision" /\ exec'[p].state = state
          /\ \A q \in Procs \ {p} : exec'[q] = exec[q]
      BY <3>1, <2>exec DEF TypeOK, Execs
    <3>4. Evident(exec'[p])
      BY <3>2, <3>3, <1>file DEF Evident, OnTheWay
    <3> QED BY <2>1, <2>pc, <3>3, <3>4, <1>same DEF ReadDecided
  <2>2. CASE SaveDecision(p)
    <3>1. /\ graph_run'.graph = graph_run.graph /\ graph_run'.state = exec[p].state
          /\ exec[p].pc = "decision"
      BY <2>2, <1>row DEF SaveDecision, Save, Rows, At
    <3>2. /\ exec'[p] = IdleExec \/ exec'[p] = [exec[p] EXCEPT !.pc = "reload"]
          /\ \A q \in Procs \ {p} : exec'[q] = exec[q]
      BY <2>2, <2>exec DEF SaveDecision, TypeOK, Execs
    <3>3. Evident(exec'[p])
      BY <3>1, <3>2, <2>exec, EvidentIdle DEF Evident, OnTheWay, Execs
    <3>4. IsBridge => exec[p].state.input # "file"
      BY <2>exec DEF Evident
    <3> QED BY <2>pc, <3>1, <3>2, <3>3, <3>4, EvidentStep
  <2>3. CASE Reload(p)
    <3>1. /\ exec'[p] = [exec[p] EXCEPT !.pc = "begin", !.state = graph_run.state]
          /\ \A q \in Procs \ {p} : exec'[q] = exec[q]
      BY <2>3, <2>exec DEF Reload, TypeOK, Execs
    <3>2. Evident(exec'[p])
      BY <3>1, <2>exec, <1>file DEF Evident, OnTheWay, Execs
    <3> QED BY <2>3, <2>pc, <3>1, <3>2, <1>same DEF Reload
  <2>4. CASE Begin(p)
    <3>1. Evident([exec[p] EXCEPT !.state = WithStatus(p, "running"), !.pc = "load"])
      BY <2>4, <2>exec, <1>status DEF Begin, Evident, OnTheWay, Execs, At
    <3> QED BY <2>4, <2>pc, <3>1, <1>ends DEF Begin
  <2>5. CASE LoadConfig(p)
    <3>1. \A step \in {"validate", "health"} :
            Evident([exec[p] EXCEPT !.state = WithStatus(p, "running"), !.pc = step])
      BY <2>exec, <1>status DEF Evident, OnTheWay, Execs
    <3> QED BY <2>5, <2>pc, <3>1, <1>ends DEF LoadConfig
  <2>6. CASE ValidatePathPolicy(p)
    <3>1. PICK allowed \in BOOLEAN :
            NodeEnds(p, IF allowed THEN exec[p].state ELSE WithStatus(p, "failed"), "local")
      BY <2>6 DEF ValidatePathPolicy
    <3>2. Evident([exec[p] EXCEPT !.state = exec[p].state, !.pc = "local"])
      BY <2>6, <2>exec DEF ValidatePathPolicy, Evident, OnTheWay, Execs, At
    <3>3. Evident([exec[p] EXCEPT !.state = WithStatus(p, "failed"), !.pc = "local"])
      BY <2>exec, <1>status DEF Evident, OnTheWay, Execs
    <3> QED BY <2>pc, <3>1, <3>2, <3>3, <1>ends
  <2>7. CASE CheckCoreHealth(p)
    <3>1. \A status \in {"running", "core_unavailable"} :
            Evident([exec[p] EXCEPT !.state = WithStatus(p, status), !.pc = "local"])
      BY <2>exec, <1>status DEF Evident, OnTheWay, Execs
    <3> QED BY <2>7, <2>pc, <3>1, <1>ends DEF CheckCoreHealth
  <2>8. CASE InspectLocally(p)
    <3>1. CASE Onboards
      <4>1. Evident([exec[p] EXCEPT !.state = exec[p].state, !.pc = "gate"])
        BY <2>8, <3>1, <2>exec, <2>graph DEF InspectLocally, Evident, OnTheWay, Execs, At
      <4> QED BY <2>8, <2>pc, <3>1, <4>1, <1>ends DEF InspectLocally
    <3>2. CASE ~Onboards
      <4>1. /\ Evident([exec[p] EXCEPT !.state = exec[p].state, !.pc = "decide"])
            /\ Evident([exec[p] EXCEPT !.pc = "decide"])
        BY <2>8, <2>exec DEF InspectLocally, Evident, OnTheWay, Execs, At
      <4> QED BY <2>8, <2>pc, <3>2, <4>1, <1>ends, <1>skips DEF InspectLocally
    <3> QED BY <3>1, <3>2
  <2>9. CASE DecideIfSyncNeeded(p)
    <3>1. PICK required \in BOOLEAN :
            /\ required => HasPath(exec[p].state)
            /\ exec' = [exec EXCEPT ![p].required = required, ![p].pc = "gate"]
      BY <2>9 DEF DecideIfSyncNeeded
    <3>2. /\ exec'[p] = [exec[p] EXCEPT !.required = required, !.pc = "gate"]
          /\ \A q \in Procs \ {p} : exec'[q] = exec[q]
      BY <3>1, <2>exec DEF TypeOK, Execs
    <3>a. /\ exec'[p].pc = "gate" /\ exec'[p].state = exec[p].state
          /\ exec'[p].required = required /\ exec[p].pc = "decide"
      BY <2>9, <3>2, <2>exec DEF DecideIfSyncNeeded, Execs, At
    <3>3. Evident(exec'[p])
      BY <3>1, <3>a, <2>exec DEF Evident, OnTheWay
    <3>4. graph_run'.graph = graph_run.graph /\ graph_run'.state = exec[p].state
      BY <2>9, <1>row DEF DecideIfSyncNeeded, Save, Rows
    <3>5. IsBridge => exec[p].state.input # "file"
      BY <2>exec DEF Evident
    <3> QED BY <2>pc, <3>2, <3>3, <3>4, <3>5, EvidentStep
  <2>10. CASE ApprovalGate(p)
    <3>0. exec[p].pc = "gate"
      BY <2>10 DEF ApprovalGate, At
    <3>1. CASE NodeSkips(p, "sync")
      <4>1. Evident([exec[p] EXCEPT !.pc = "sync"])
        BY <3>0, <2>exec DEF Evident, OnTheWay, Execs
      <4> QED BY <2>pc, <3>1, <4>1, <1>skips
    <3>2. CASE /\ exec' = [exec EXCEPT ![p].state.status = "pending_approval",
                                       ![p].state.request = 0, ![p].pc = "ask"]
               /\ UNCHANGED <<graph_run, graph_approvals, consent>>
      <4>1. /\ exec'[p].pc = "ask" /\ exec'[p].required = exec[p].required
            /\ exec'[p].state.status = "pending_approval"
            /\ exec'[p].state.input = exec[p].state.input
            /\ exec'[p].state.lost = exec[p].state.lost
            /\ \A q \in Procs \ {p} : exec'[q] = exec[q]
        BY <3>2, <2>exec DEF TypeOK, Execs, States
      <4>2. Evident(exec'[p])
        BY <3>0, <4>1, <2>exec DEF Evident, OnTheWay, HasPath
      <4> QED BY <2>pc, <3>2, <4>1, <4>2, <1>same
    <3>3. CASE NodeEnds(p, IF Requires(p) THEN WithStatus(p, "approved") ELSE exec[p].state,
                        "sync")
      <4>1. /\ Evident([exec[p] EXCEPT !.state = exec[p].state, !.pc = "sync"])
            /\ Evident([exec[p] EXCEPT !.state = WithStatus(p, "approved"), !.pc = "sync"])
        BY <3>0, <2>exec, <1>status DEF Evident, OnTheWay, Execs, HasPath
      <4> QED BY <2>pc, <3>3, <4>1, <1>ends
    <3> QED BY <2>10, <3>1, <3>2, <3>3 DEF ApprovalGate
  <2>11. CASE Ask(p)
    <3>1. PICK a : exec' = [exec EXCEPT ![p].pc = "pending", ![p].found = a]
      BY <2>11 DEF Ask
    <3>2. /\ exec'[p] = [exec[p] EXCEPT !.pc = "pending", !.found = a]
          /\ \A q \in Procs \ {p} : exec'[q] = exec[q]
      BY <3>1, <2>exec DEF TypeOK, Execs
    <3>3. Evident(exec'[p])
      BY <2>11, <3>2, <2>exec DEF Ask, Evident, OnTheWay, Execs, At
    <3> QED BY <2>11, <2>pc, <3>2, <3>3, <1>same DEF Ask
  <2>12. CASE InsertApproval(p)
    <3>1. /\ exec'[p].pc = "pending" /\ exec[p].pc = "pending"
          /\ exec'[p].required = exec[p].required
          /\ exec'[p].state.status = exec[p].state.status
          /\ exec'[p].state.input = exec[p].state.input
          /\ exec'[p].state.lost = exec[p].state.lost
          /\ \A q \in Procs \ {p} : exec'[q] = exec[q]
      BY <2>12, <2>exec DEF InsertApproval, TypeOK, Execs, States, At
    <3>2. Evident(exec'[p])
      BY <3>1, <2>exec DEF Evident, OnTheWay, HasPath
    <3> QED BY <2>12, <2>pc, <3>1, <3>2, <1>same DEF InsertApproval
  <2>13. CASE SavePending(p)
    <3>1. Evident([exec[p] EXCEPT !.state = exec[p].state, !.pc = "sync"])
      BY <2>13, <2>exec DEF SavePending, Evident, OnTheWay, Execs, At
    <3> QED BY <2>13, <2>pc, <3>1, <1>ends DEF SavePending
  <2>14. CASE SyncSource(p)
    <3>0. exec[p].pc = "sync"
      BY <2>14 DEF SyncSource, At
    <3>1. CASE ~Syncs(p) /\ NodeSkips(p, AfterSync(p))
      <4>1. Evident([exec[p] EXCEPT !.pc = AfterSync(p)])
        BY <3>0, <3>1, <2>exec, <2>graph
           DEF Evident, OnTheWay, Execs, AfterSync, Syncs, Waits
      <4> QED BY <2>pc, <3>1, <4>1, <1>skips
    <3>2. CASE Syncs(p)
      <4>1. /\ exec'[p] = [exec[p] EXCEPT !.pc = "synced", !.sent = exec[p].state.input = "api"]
            /\ \A q \in Procs \ {p} : exec'[q] = exec[q]
        BY <2>14, <3>2, <2>exec DEF SyncSource, TypeOK, Execs
      <4>2. Evident(exec'[p])
        BY <3>0, <4>1, <2>exec DEF Evident, OnTheWay, Execs
      <4> QED BY <2>14, <2>pc, <3>2, <4>1, <4>2, <1>same DEF SyncSource
    <3> QED BY <2>14, <3>1, <3>2 DEF SyncSource
  <2>15. CASE SaveSync(p)
    <3>1. exec[p].pc = "synced"
      BY <2>15 DEF SaveSync, At
    <3>2. ~Onboards /\ exec[p].required => exec[p].sent \/ exec[p].state.input = "dry"
      BY <3>1, <2>exec, <2>graph DEF Evident, HasPath, States, Inputs
    <3>3. Evident([exec[p] EXCEPT !.state = exec[p].state, !.pc = AfterSync(p)])
      BY <3>1, <3>2, <2>exec DEF Evident, OnTheWay, Execs, AfterSync
    <3> QED BY <2>15, <2>pc, <3>3, <1>ends DEF SaveSync
  <2>16. CASE VerifySync(p)
    <3>1. Evident([exec[p] EXCEPT !.state = exec[p].state, !.pc = "report"])
      BY <2>16, <2>exec DEF VerifySync, Evident, OnTheWay, Execs, At
    <3> QED BY <2>16, <2>pc, <3>1, <1>ends DEF VerifySync
  <2>17. CASE CallCoreInvestigate(p)
    <3>0. exec[p].pc = "investigate"
      BY <2>17 DEF CallCoreInvestigate, At
    <3>1. CASE NodeSkips(p, "report")
      <4>1. Evident([exec[p] EXCEPT !.pc = "report"])
        BY <3>0, <2>exec DEF Evident, OnTheWay, Execs
      <4> QED BY <2>pc, <3>1, <4>1, <1>skips
    <3>2. CASE /\ ~Waits(exec[p].state)
               /\ \E status \in {"core_investigation_complete", "core_unavailable"} :
                    NodeEnds(p, WithStatus(p, status), "report")
      <4>1. \A status : Evident([exec[p] EXCEPT !.state = WithStatus(p, status), !.pc = "report"])
        BY <3>0, <3>2, <2>exec, <1>status DEF Evident, OnTheWay, Execs
      <4> QED BY <2>pc, <3>2, <4>1, <1>ends
    <3> QED BY <2>17, <3>1, <3>2 DEF CallCoreInvestigate, Blocked, Waits
  <2>18. CASE Report(p)
    <3>1. /\ exec'[p] = IdleExec /\ \A q \in Procs \ {p} : exec'[q] = exec[q]
          /\ graph_run'.graph = graph_run.graph
          /\ graph_run'.state.input = exec[p].state.input
      BY <2>18, <1>row, <1>status DEF Report, Save, TypeOK, Rows
    <3>2. IsBridge => exec[p].state.input # "file"
      BY <2>exec DEF Evident
    <3> QED BY <2>pc, <3>1, <3>2, EvidentIdle, EvidentStep
  <2>19. CASE Fail(p)
    <3>1. /\ exec'[p] = IdleExec /\ \A q \in Procs \ {p} : exec'[q] = exec[q]
          /\ \/ graph_run' = graph_run
             \/ /\ graph_run'.graph = graph_run.graph
                /\ graph_run'.state.input = exec[p].state.input
      BY <2>19, <1>row DEF Fail, Save, TypeOK, Rows
    <3>2. IsBridge => exec[p].state.input # "file"
      BY <2>exec DEF Evident
    <3> QED BY <2>pc, <3>1, <3>2, <1>file, EvidentIdle, EvidentStep
  <2> QED BY <1>6, <2>1, <2>2, <2>3, <2>4, <2>5, <2>6, <2>7, <2>8, <2>9, <2>10, <2>11, <2>12,
             <2>13, <2>14, <2>15, <2>16, <2>17, <2>18, <2>19 DEF Advance
<1>7. CASE UNCHANGED vars
  BY <1>7 DEF vars, AllEvident, Started, Evident, IsBridge, Exists, Used, HasPath, Waits
<1> QED BY <1>1, <1>2, <1>3, <1>4, <1>5, <1>6, <1>7 DEF Next, Command

(* However many commands run together, Core investigates in an execution    *)
(* that was to sync only once it has, or was a dry run.                     *)
THEOREM InvestigationIsSynced == Spec => []InvestigatesAfterSync
<1>1. Init => AllEvident
  <2> SUFFICES ASSUME Init
               PROVE  AllEvident
    OBVIOUS
  <2>1. Started /\ ~IsBridge
    BY DEF Init, Started, IsBridge, Used
  <2>2. \A p \in Procs : exec[p] = IdleExec
    BY DEF Init
  <2> QED BY <2>1, <2>2, EvidentIdle DEF AllEvident
<1>2. AllEvident => InvestigatesAfterSync
  BY DEF AllEvident, Evident, InvestigatesAfterSync, At
<1> QED BY <1>1, <1>2, EvidentNext, GraphTypeCorrect, PTL DEF Spec

-----------------------------------------------------------------------------
(* The graphs implement Approvals, when commands run one at a time *)

(* the steps before the gate, and between the sync and its save *)
NotWaiting == {"load", "validate", "health", "local", "decide", "gate", "synced", "decision"}

(* the steps after the gate, at which the state of the graph was saved *)
Saved == {"sync", "verify", "investigate", "report"}

(* An execution that says it waits says so of an approval that is pending   *)
(* or that its run's row names as well; and only after its sync has it      *)
(* uploaded.                                                                *)
Faithful(e) ==
  /\ e.sent => e.pc \in {"synced", "verify", "investigate", "report"}
  /\ e.pc = "ask" => e.state.request = 0
  /\ e.pc = "pending" /\ e.state.request # 0 => e.state.request \in Pending
  /\ e.pc = "pending" /\ e.found # 0 => e.found \in Pending
  /\ e.pc \in NotWaiting => e.state.status # "pending_approval"
  /\ e.pc \in Saved /\ e.state.status = "pending_approval"
       => /\ graph_run.state.status = "pending_approval"
          /\ graph_run.state.request = e.state.request

(* Before the run exists nothing was said of it and it waits for nothing. *)
Unsaid == ~Exists => ~consent /\ graph_run.state.status = "running"

AllFaithful == Unsaid /\ \A p \in Procs : Faithful(exec[p])

LEMMA FaithfulIdle == Faithful(IdleExec)
BY DEF Faithful, IdleExec, NotWaiting, Saved

(* A step of p in a run that exists *)
LEMMA FaithfulStep ==
  ASSUME OneAtATime, TypeOK, NEW p \in Procs, Exists, graph_run'.graph = graph_run.graph,
         Faithful(exec[p])'
  PROVE  AllFaithful'
BY DEF OneAtATime, AllFaithful, Unsaid, Exists

LEMMA NodeEndsFaithful ==
  ASSUME OneAtATime, TypeOK, Exists, NEW p \in Procs, NEW state, NEW step,
         NodeEnds(p, state, step),
         step \in Saved \/ (state.status # "pending_approval" /\ step \in NotWaiting),
         exec[p].sent => step \in {"synced", "verify", "investigate", "report"}
  PROVE  AllFaithful'
<1>exec. exec[p] \in Execs
  BY DEF TypeOK
<1>1. /\ exec'[p].pc = step /\ exec'[p].state = state /\ exec'[p].sent = exec[p].sent
  BY <1>exec DEF NodeEnds, TypeOK, Execs
<1>2. graph_run'.state = state /\ graph_run'.graph = graph_run.graph
  BY DEF NodeEnds, Save, TypeOK, Rows
<1>3. step \notin {"ask", "pending"}
  BY DEF Saved, NotWaiting
<1> QED BY <1>1, <1>2, <1>3, FaithfulStep DEF Faithful, NotWaiting, Saved

LEMMA NodeSkipsFaithful ==
  ASSUME OneAtATime, TypeOK, Exists, NEW p \in Procs, NEW step, NodeSkips(p, step),
         step \in NotWaiting \cup Saved, exec[p].state.status # "pending_approval" \/
           (step \in Saved /\ exec[p].pc \in Saved /\ Faithful(exec[p])),
         exec[p].sent => step \in {"synced", "verify", "investigate", "report"}
  PROVE  AllFaithful'
<1>exec. exec[p] \in Execs
  BY DEF TypeOK
<1>1. /\ exec'[p].pc = step /\ exec'[p].state = exec[p].state
      /\ exec'[p].sent = exec[p].sent /\ graph_run' = graph_run
  BY <1>exec DEF NodeSkips, TypeOK, Execs
<1>2. step \notin {"ask", "pending"}
  BY DEF Saved, NotWaiting
<1> QED BY <1>1, <1>2, FaithfulStep DEF Faithful, NotWaiting, Saved

LEMMA CommandFaithful ==
  ASSUME OneAtATime, TypeOK, AllEvident, AllFaithful, NEW p \in Procs, Command(p)
  PROVE  AllFaithful'
<1>1. CASE Start(p) \/ StartAsFailed(p)
  <2>1. graph_run'.graph \in GraphNames
    <3>1. \E r \in NewRuns : graph_run'.graph = r.graph
      <4>1. CASE Start(p)
        <5>1. PICK r \in NewRuns :
                graph_run' = [graph |-> r.graph,
                              state |-> [FreshState EXCEPT !.approved = r.yes, !.input = r.input]]
          BY <4>1 DEF Start
        <5> QED BY <5>1
      <4>2. CASE StartAsFailed(p)
        <5>1. PICK r \in NewRuns :
                graph_run' = [graph |-> r.graph,
                              state |-> [FreshState EXCEPT !.approved = r.yes, !.input = r.input,
                                                           !.status = "failed"]]
          BY <4>2 DEF StartAsFailed
        <5> QED BY <5>1
      <4> QED BY <1>1, <4>1, <4>2
    <3>2. \A r \in NewRuns : r.graph \in GraphNames
      BY GraphsAssumption DEF NewRuns
    <3> QED BY <3>1, <3>2
  <2>2. Exists'
    BY <2>1 DEF Exists, GraphNames
  <2>3. Faithful(exec[p])'
    <3>1. CASE StartAsFailed(p)
      BY <3>1 DEF StartAsFailed, At, AllFaithful, Faithful, NotWaiting, Saved
    <3>2. CASE Start(p)
      <4>1. PICK r \in NewRuns : exec' = [exec EXCEPT ![p] =
              [IdleExec EXCEPT !.pc = "load",
                               !.state = [FreshState EXCEPT !.approved = r.yes, !.input = r.input]]]
        BY <3>2 DEF Start
      <4> DEFINE state == [FreshState EXCEPT !.approved = r.yes, !.input = r.input]
      <4>2. state.status = "running"
        BY DEF FreshState
      <4> HIDE DEF state
      <4>3. exec'[p] = [IdleExec EXCEPT !.pc = "load", !.state = state]
        BY <4>1 DEF state, TypeOK
      <4>4. exec'[p].pc = "load" /\ exec'[p].state = state /\ exec'[p].sent = FALSE
        BY <4>3 DEF IdleExec
      <4> QED BY <4>2, <4>4 DEF Faithful, NotWaiting, Saved
    <3> QED BY <1>1, <3>1, <3>2
  <2> QED BY <2>2, <2>3 DEF OneAtATime, AllFaithful, Unsaid
<1>2. CASE Resume(p)
  <2>1. PICK state : exec' = [exec EXCEPT ![p] = [IdleExec EXCEPT !.pc = "begin",
                                                  !.call = "resume", !.state = state]]
    BY <1>2 DEF Resume
  <2>2. exec'[p].pc = "begin" /\ exec'[p].sent = FALSE
    BY <2>1 DEF TypeOK, IdleExec
  <2>3. Faithful(exec[p])'
    BY <2>2 DEF Faithful, NotWaiting, Saved
  <2> QED BY <1>2, <2>3, FaithfulStep DEF Resume
<1>3. ASSUME NEW a \in ApprovalIds, Decide(p, a)
      PROVE  AllFaithful'
  <2>1. exec'[p].pc = "decided" /\ exec'[p].sent = FALSE
    BY <1>3 DEF Decide, TypeOK, IdleExec
  <2>2. Exists
    BY <1>3 DEF Decide, AllEvident, Started
  <2>3. Faithful(exec[p])'
    BY <2>1 DEF Faithful, NotWaiting, Saved
  <2> QED BY <1>3, <2>2, <2>3, FaithfulStep DEF Decide
<1> QED BY <1>1, <1>2, <1>3 DEF Command

LEMMA AdvanceFaithful ==
  ASSUME OneAtATime, TypeOK, AllEvident, Consented, AllFaithful, NEW p \in Procs, Advance(p)
  PROVE  AllFaithful'
<1>exec. exec[p] \in Execs /\ exec[p].state \in States
  BY DEF TypeOK, Execs
<1>busy. exec[p].pc # "idle"
  BY DEF Advance, ReadDecided, SaveDecision, Reload, Begin, LoadConfig, ValidatePathPolicy,
       CheckCoreHealth, InspectLocally, DecideIfSyncNeeded, ApprovalGate, Ask, InsertApproval,
       SavePending, SyncSource, SaveSync, VerifySync, CallCoreInvestigate, Report, Fail, At
<1>exists. Exists
  BY <1>busy DEF AllEvident, Started, IdleExec
<1>inv. Faithful(exec[p])
  BY DEF AllFaithful
<1>status. ASSUME NEW status
           PROVE  WithStatus(p, status).status = status
  BY StatusKeepsApproval
<1>quiet. ASSUME exec'[p].sent = FALSE, exec'[p].pc \notin {"ask", "pending"} \cup NotWaiting \cup Saved,
                 graph_run'.graph = graph_run.graph
          PROVE  AllFaithful'
  <2>1. Faithful(exec[p])'
    BY <1>quiet DEF Faithful
  <2> QED BY <1>quiet, <1>exists, <2>1, FaithfulStep
<1>1. CASE ReadDecided(p)
  <2>1. /\ exec'[p].pc = "decision" /\ exec'[p].sent = exec[p].sent
        /\ exec'[p].state.status \in {"running", "rejected"}
        /\ graph_run' = graph_run
    BY <1>1, <1>exec DEF ReadDecided, TypeOK, Execs, Rows, States
  <2>2. exec[p].pc = "decided"
    BY <1>1 DEF ReadDecided, At
  <2>3. Faithful(exec[p])'
    BY <1>inv, <2>1, <2>2 DEF Faithful, Saved
  <2> QED BY <1>exists, <2>1, <2>3, FaithfulStep
<1>2. CASE SaveDecision(p) \/ Reload(p)
  <2>1. exec'[p].pc \in {"idle", "reload", "begin"} /\ graph_run'.graph = graph_run.graph
    BY <1>2, <1>exec DEF SaveDecision, Reload, Save, TypeOK, Execs, Rows, IdleExec
  <2>2. exec'[p].sent = FALSE
    BY <1>2, <1>exec, <1>inv DEF SaveDecision, Reload, At, TypeOK, Execs, IdleExec, Faithful
  <2> QED BY <1>quiet, <2>1, <2>2 DEF NotWaiting, Saved
<1>3. CASE Begin(p) \/ LoadConfig(p)
  BY <1>3, <1>exists, <1>inv, <1>status, NodeEndsFaithful
  DEF Begin, LoadConfig, At, Faithful, NotWaiting
<1>4. CASE ValidatePathPolicy(p) \/ CheckCoreHealth(p)
  BY <1>4, <1>exists, <1>inv, <1>status, NodeEndsFaithful
  DEF ValidatePathPolicy, CheckCoreHealth, At, Faithful, NotWaiting
<1>5. CASE InspectLocally(p)
  BY <1>5, <1>exists, <1>inv, NodeEndsFaithful, NodeSkipsFaithful
  DEF InspectLocally, At, Faithful, NotWaiting
<1>6. CASE DecideIfSyncNeeded(p)
  <2>1. /\ exec'[p].pc = "gate" /\ exec'[p].sent = exec[p].sent
        /\ exec'[p].state = exec[p].state /\ graph_run'.graph = graph_run.graph
    BY <1>6, <1>exec DEF DecideIfSyncNeeded, Save, TypeOK, Execs, Rows
  <2>2. exec[p].pc = "decide"
    BY <1>6 DEF DecideIfSyncNeeded, At
  <2>3. Faithful(exec[p])'
    BY <1>inv, <2>1, <2>2 DEF Faithful, NotWaiting, Saved
  <2> QED BY <1>exists, <2>1, <2>3, FaithfulStep
<1>7. CASE ApprovalGate(p)
  <2>1. exec[p].pc = "gate" /\ exec[p].state.status # "pending_approval" /\ ~exec[p].sent
    BY <1>7, <1>inv DEF ApprovalGate, At, Faithful, NotWaiting
  <2>2. CASE NodeSkips(p, "sync")
    BY <1>exists, <2>1, <2>2, NodeSkipsFaithful DEF NotWaiting, Saved
  <2>3. CASE \E state : NodeEnds(p, state, "sync")
    BY <1>exists, <2>1, <2>3, NodeEndsFaithful DEF Saved
  <2>4. CASE /\ exec' = [exec EXCEPT ![p].state.status = "pending_approval",
                                    ![p].state.request = 0, ![p].pc = "ask"]
             /\ UNCHANGED <<graph_run, graph_approvals, consent>>
    <3>1. exec'[p].pc = "ask" /\ exec'[p].sent = FALSE /\ exec'[p].state.request = 0
      BY <2>1, <2>4, <1>exec DEF TypeOK, Execs, States
    <3>2. Faithful(exec[p])'
      BY <3>1 DEF Faithful, NotWaiting, Saved
    <3> QED BY <1>exists, <2>4, <3>2, FaithfulStep
  <2> QED BY <1>7, <2>2, <2>3, <2>4 DEF ApprovalGate
<1>8. CASE Ask(p)
  <2>1. PICK a \in Pending \cup {0} : exec' = [exec EXCEPT ![p].pc = "pending", ![p].found = a]
    BY <1>8 DEF Ask
  <2>2. /\ exec'[p].pc = "pending" /\ exec'[p].found = a /\ exec'[p].sent = exec[p].sent
        /\ exec'[p].state = exec[p].state
    BY <2>1, <1>exec DEF TypeOK, Execs
  <2>3. Pending' = Pending /\ graph_run' = graph_run /\ exec[p].pc = "ask"
    BY <1>8 DEF Ask, Pending, At
  <2>4. exec[p].state.request = 0
    BY <2>3, <1>inv DEF Faithful
  <2>5. Faithful(exec[p])'
    BY <1>inv, <2>2, <2>3, <2>4 DEF Faithful, NotWaiting, Saved
  <2> QED BY <1>exists, <2>3, <2>5, FaithfulStep
<1>9. CASE InsertApproval(p)
  <2>1. /\ exec'[p].pc = "pending" /\ exec'[p].sent = exec[p].sent
        /\ exec[p].pc = "pending" /\ exec[p].state.request = 0
        /\ graph_run' = graph_run
    BY <1>9, <1>exec DEF InsertApproval, At, TypeOK, Execs
  <2>2. CASE exec[p].found # 0
    <3>1. /\ exec'[p].state.request = exec[p].found /\ exec'[p].found = 0
          /\ Pending' = Pending
      BY <1>9, <2>2, <1>exec DEF InsertApproval, TypeOK, Execs, States, Pending
    <3>2. Faithful(exec[p])'
      BY <1>inv, <2>1, <2>2, <3>1 DEF Faithful, NotWaiting, Saved
    <3> QED BY <1>exists, <2>1, <3>2, FaithfulStep
  <2>3. CASE exec[p].found = 0
    <3>1. PICK a \in ApprovalIds \ Used :
            /\ exec' = [exec EXCEPT ![p].state.request = a]
            /\ graph_approvals' = [graph_approvals EXCEPT ![a] = "pending"]
      BY <1>9, <2>3 DEF InsertApproval
    <3>2. exec'[p].state.request = a /\ exec'[p].found = 0 /\ a \in Pending'
      BY <2>3, <3>1, <1>exec DEF TypeOK, Execs, States, Pending
    <3>3. Faithful(exec[p])'
      BY <1>inv, <2>1, <3>2 DEF Faithful, NotWaiting, Saved
    <3> QED BY <1>exists, <2>1, <3>3, FaithfulStep
  <2> QED BY <2>2, <2>3
<1>10. CASE SavePending(p)
  BY <1>10, <1>exists, <1>inv, NodeEndsFaithful DEF SavePending, At, Faithful, Saved
<1>11. CASE SyncSource(p)
  <2>1. exec[p].pc = "sync" /\ ~exec[p].sent
    BY <1>11, <1>inv DEF SyncSource, At, Faithful
  <2>2. CASE Syncs(p)
    <3>1. /\ exec'[p].pc = "synced" /\ exec'[p].state = exec[p].state
          /\ graph_run' = graph_run
      BY <1>11, <2>2, <1>exec DEF SyncSource, TypeOK, Execs
    <3>2. exec[p].state.status # "pending_approval"
      BY <2>2 DEF Syncs
    <3>3. Faithful(exec[p])'
      BY <3>1, <3>2 DEF Faithful, NotWaiting, Saved
    <3> QED BY <1>exists, <3>1, <3>3, FaithfulStep
  <2>3. CASE NodeSkips(p, AfterSync(p))
    BY <1>exists, <1>inv, <2>1, <2>3, NodeSkipsFaithful DEF AfterSync, Saved
  <2> QED BY <1>11, <2>2, <2>3 DEF SyncSource
<1>12. CASE SaveSync(p) \/ VerifySync(p)
  BY <1>12, <1>exists, NodeEndsFaithful DEF SaveSync, VerifySync, AfterSync, Saved
<1>13. CASE CallCoreInvestigate(p)
  <2>1. exec[p].pc = "investigate"
    BY <1>13 DEF CallCoreInvestigate, At
  <2>2. CASE NodeSkips(p, "report")
    BY <1>exists, <1>inv, <2>1, <2>2, NodeSkipsFaithful DEF Saved
  <2>3. CASE \E status : NodeEnds(p, WithStatus(p, status), "report")
    BY <1>exists, <2>3, NodeEndsFaithful DEF Saved
  <2> QED BY <1>13, <2>2, <2>3 DEF CallCoreInvestigate
<1>14. CASE Report(p) \/ Fail(p)
  <2>1. exec'[p] = IdleExec
    BY <1>14 DEF Report, Fail, TypeOK
  <2>2. exec'[p].pc = "idle" /\ exec'[p].sent = FALSE
    BY <2>1 DEF IdleExec
  <2>3. graph_run'.graph = graph_run.graph
    BY <1>14 DEF Report, Fail, Save, TypeOK, Rows
  <2> QED BY <1>quiet, <2>2, <2>3 DEF NotWaiting, Saved
<1> QED
  BY <1>1, <1>2, <1>3, <1>4, <1>5, <1>6, <1>7, <1>8, <1>9, <1>10, <1>11, <1>12, <1>13, <1>14
  DEF Advance

LEMMA FaithfulNext ==
  ASSUME OneAtATime
  PROVE  TypeOK /\ AllEvident /\ Consented /\ AllFaithful /\ [Next]_vars => AllFaithful'
<1> SUFFICES ASSUME TypeOK, AllEvident, Consented, AllFaithful, [Next]_vars
             PROVE  AllFaithful'
  OBVIOUS
<1>1. ASSUME NEW p \in Procs, Crash(p)
      PROVE  AllFaithful'
  <2>1. Faithful(exec[p])'
    BY <1>1 DEF Crash, TypeOK, Faithful, IdleExec, NotWaiting, Saved
  <2>2. Exists
    BY <1>1 DEF Crash, At, AllEvident, Started, IdleExec
  <2> QED BY <1>1, <2>1, <2>2, FaithfulStep DEF Crash
<1>2. CASE UNCHANGED vars
  BY <1>2 DEF vars, AllFaithful, Unsaid, Exists, Faithful, Pending
<1> QED BY <1>1, <1>2, CommandFaithful, AdvanceFaithful DEF Next

(* What a step of p does to what the row says, for a save of this state *)
LEMMA WaitingSaved ==
  ASSUME TypeOK, NEW state, graph_run'.state = state
  PROVE  Waiting' = IF state.status = "pending_approval" THEN state.request ELSE 0
BY DEF Waiting

(* A step that may end the waiting and does nothing else *)
LEMMA StepStops ==
  ASSUME OneAtATime, NEW p \in Procs, Waiting' \in {Waiting, 0}, exec'[p].sent = exec[p].sent,
         UNCHANGED <<graph_approvals, consent>>
  PROVE  Promise!Next \/ UNCHANGED Promise!vars
<1>1. Uploaded' = Uploaded
  BY DEF OneAtATime, Uploaded
<1>2. CASE Waiting' = Waiting
  BY <1>1, <1>2 DEF Promise!vars
<1>3. CASE Waiting' = 0
  BY <1>1, <1>3 DEF Promise!Next, Promise!StopWaiting
<1> QED BY <1>2, <1>3

(* The end of an execution *)
LEMMA StepEnds ==
  ASSUME OneAtATime, NEW p \in Procs, Waiting' \in {Waiting, 0}, exec'[p].sent = FALSE,
         UNCHANGED <<graph_approvals, consent>>
  PROVE  Promise!Next
<1>1. Uploaded' = Uploaded \ {p}
  BY DEF OneAtATime, Uploaded
<1> QED BY <1>1 DEF Promise!Next, Promise!End

(* A node that ends in a state that does not wait, or that is saved already *)
LEMMA NodeEndsPromise ==
  ASSUME OneAtATime, TypeOK, NEW p \in Procs, NEW state, NEW step, NodeEnds(p, state, step),
         state.status = "pending_approval" => Waiting = state.request
  PROVE  Promise!Next \/ UNCHANGED Promise!vars
<1>1. graph_run'.state = state
  BY DEF NodeEnds, Save, TypeOK, Rows
<1>2. exec'[p].sent = exec[p].sent
  BY DEF NodeEnds, TypeOK, Execs
<1>3. Waiting' \in {Waiting, 0}
  BY <1>1, WaitingSaved
<1> QED BY <1>2, <1>3, StepStops DEF NodeEnds

LEMMA NodeSkipsPromise ==
  ASSUME OneAtATime, TypeOK, NEW p \in Procs, NEW step, NodeSkips(p, step)
  PROVE  Promise!Next \/ UNCHANGED Promise!vars
<1>1. exec'[p].sent = exec[p].sent
  BY DEF NodeSkips, TypeOK, Execs
<1>2. Waiting' = Waiting
  BY DEF NodeSkips, Waiting
<1> QED BY <1>1, <1>2, StepStops DEF NodeSkips

LEMMA CommandPromise ==
  ASSUME OneAtATime, TypeOK, AllEvident, AllFaithful, NEW p \in Procs, Command(p)
  PROVE  Promise!Next
<1>idle. exec[p].pc = "idle" /\ exec[p].sent = FALSE
  BY DEF Command, Start, StartAsFailed, Resume, Decide, At, AllFaithful, Faithful, TypeOK, Execs
<1>sent. exec'[p].sent = FALSE => Uploaded' = Uploaded
  BY <1>idle DEF OneAtATime, Uploaded
<1>begin. ASSUME NEW yes \in BOOLEAN, consent' = (consent \/ yes), graph_approvals' = graph_approvals,
                 Waiting' = Waiting, exec'[p].sent = FALSE
          PROVE  Promise!Next
  BY <1>begin, <1>sent DEF Promise!Next, Promise!Begin
<1>1. CASE Start(p) \/ StartAsFailed(p)
  <2>1. graph_run'.state.status # "pending_approval"
        /\ \E r \in NewRuns : consent' = r.yes
    <3>1. CASE Start(p)
      <4>1. PICK r \in NewRuns :
              /\ graph_run' = [graph |-> r.graph,
                   state |-> [FreshState EXCEPT !.approved = r.yes, !.input = r.input]]
              /\ consent' = r.yes
        BY <3>1 DEF Start
      <4> DEFINE state == [FreshState EXCEPT !.approved = r.yes, !.input = r.input]
      <4>2. state.status = "running"
        BY DEF FreshState
      <4>3. graph_run'.state = state
        BY <4>1
      <4> HIDE DEF state
      <4> QED BY <4>1, <4>2, <4>3
    <3>2. CASE StartAsFailed(p)
      <4>1. PICK r \in NewRuns :
              /\ graph_run' = [graph |-> r.graph,
                   state |-> [FreshState EXCEPT !.approved = r.yes, !.input = r.input,
                                                !.status = "failed"]]
              /\ consent' = r.yes
        BY <3>2 DEF StartAsFailed
      <4> DEFINE state == [FreshState EXCEPT !.approved = r.yes, !.input = r.input,
                                             !.status = "failed"]
      <4>2. state.status = "failed"
        BY DEF FreshState
      <4>3. graph_run'.state = state
        BY <4>1
      <4> HIDE DEF state
      <4> QED BY <4>1, <4>2, <4>3
    <3> QED BY <1>1, <3>1, <3>2
  <2>r. PICK r \in NewRuns : consent' = r.yes
    BY <2>1
  <2>2. ~consent /\ graph_run.state.status # "pending_approval"
    BY <1>1 DEF Start, StartAsFailed, AllFaithful, Unsaid
  <2>3. Waiting' = Waiting
    BY <2>1, <2>2 DEF Waiting
  <2>4. r.yes \in BOOLEAN
    BY DEF NewRuns
  <2>5. exec'[p].sent = FALSE
    BY <1>1, <1>idle DEF Start, StartAsFailed, TypeOK, IdleExec
  <2>6. consent' = (consent \/ r.yes)
    <3> DEFINE yes == r.yes
    <3>1. yes \in BOOLEAN /\ consent' = yes
      BY <2>r, <2>4
    <3> HIDE DEF yes
    <3>2. consent' = (consent \/ yes)
      BY <2>2, <3>1, Zenon
    <3> QED BY <3>2 DEF yes
  <2> QED BY <1>1, <1>begin, <2>3, <2>4, <2>5, <2>6 DEF Start, StartAsFailed
<1>2. CASE Resume(p)
  <2>1. PICK yes \in BOOLEAN : consent' = (consent \/ yes)
    BY <1>2 DEF Resume
  <2>2. exec'[p].sent = FALSE /\ Waiting' = Waiting
    BY <1>2 DEF Resume, TypeOK, IdleExec, Waiting
  <2> QED BY <1>2, <1>begin, <2>1, <2>2 DEF Resume
<1>3. ASSUME NEW a \in ApprovalIds, Decide(p, a)
      PROVE  Promise!Next
  <2>1. PICK call \in {"approve", "reject"} :
          /\ graph_approvals' = [graph_approvals EXCEPT
               ![a] = IF call = "approve" THEN "approved" ELSE "rejected"]
          /\ exec' = [exec EXCEPT ![p] = [IdleExec EXCEPT !.pc = "decided", !.call = call]]
          /\ consent' = (call = "approve")
    BY <1>3 DEF Decide
  <2>2. Uploaded' = Uploaded /\ Waiting' = Waiting /\ graph_approvals[a] # "none"
    BY <1>3, <1>sent, <2>1 DEF Decide, TypeOK, IdleExec, Waiting, Used
  <2> DEFINE yes == call = "approve"
  <2>3. Promise!Answer(a, yes)
    BY <2>1, <2>2 DEF Promise!Answer
  <2> QED BY <2>3 DEF Promise!Next
<1> QED BY <1>1, <1>2, <1>3 DEF Command

LEMMA AdvancePromise ==
  ASSUME OneAtATime, TypeOK, AllFaithful, Consented, NothingPending, NEW p \in Procs, Advance(p)
  PROVE  Promise!Next \/ UNCHANGED Promise!vars
<1>exec. exec[p] \in Execs /\ exec[p].state \in States
  BY DEF TypeOK, Execs
<1>inv. Faithful(exec[p])
  BY DEF AllFaithful
<1>status. ASSUME NEW status
           PROVE  WithStatus(p, status).status = status
  BY StatusKeepsApproval
<1>1. CASE ReadDecided(p) \/ Reload(p) \/ Ask(p)
  <2>1. exec'[p].sent = exec[p].sent /\ Waiting' = Waiting
    BY <1>1, <1>exec DEF ReadDecided, Reload, Ask, TypeOK, Execs, Waiting
  <2> QED BY <1>1, <2>1, StepStops DEF ReadDecided, Reload, Ask
<1>2. CASE SaveDecision(p)
  <2>1. graph_run'.state = exec[p].state /\ exec[p].pc = "decision"
    BY <1>2 DEF SaveDecision, Save, TypeOK, Rows, At
  <2>2. Waiting' = 0
    BY <1>inv, <2>1, WaitingSaved DEF Faithful, NotWaiting
  <2>3. exec'[p].sent = FALSE
    BY <1>2, <1>exec, <1>inv, <2>1 DEF SaveDecision, TypeOK, Execs, IdleExec, Faithful
  <2> QED BY <1>2, <2>2, <2>3, StepEnds DEF SaveDecision
<1>3. CASE Begin(p) \/ LoadConfig(p)
  BY <1>3, <1>status, NodeEndsPromise DEF Begin, LoadConfig
<1>4. CASE ValidatePathPolicy(p) \/ CheckCoreHealth(p)
  BY <1>4, <1>inv, <1>status, NodeEndsPromise
  DEF ValidatePathPolicy, CheckCoreHealth, At, Faithful, NotWaiting
<1>5. CASE InspectLocally(p)
  BY <1>5, <1>inv, NodeEndsPromise, NodeSkipsPromise
  DEF InspectLocally, At, Faithful, NotWaiting
<1>6. CASE DecideIfSyncNeeded(p)
  <2>1. graph_run'.state = exec[p].state /\ exec'[p].sent = exec[p].sent
    BY <1>6, <1>exec DEF DecideIfSyncNeeded, Save, TypeOK, Execs, Rows
  <2>2. Waiting' = 0
    BY <1>6, <1>inv, <2>1, WaitingSaved DEF DecideIfSyncNeeded, At, Faithful, NotWaiting
  <2> QED BY <1>6, <2>1, <2>2, StepStops DEF DecideIfSyncNeeded
<1>7. CASE ApprovalGate(p)
  <2>1. exec[p].state.status # "pending_approval"
    BY <1>7, <1>inv DEF ApprovalGate, At, Faithful, NotWaiting
  <2>2. CASE NodeEnds(p, IF Requires(p) THEN WithStatus(p, "approved") ELSE exec[p].state, "sync")
    BY <1>status, <2>1, <2>2, NodeEndsPromise
  <2>3. CASE /\ exec' = [exec EXCEPT ![p].state.status = "pending_approval",
                                    ![p].state.request = 0, ![p].pc = "ask"]
             /\ UNCHANGED <<graph_run, graph_approvals, consent>>
    <3>1. exec'[p].sent = exec[p].sent /\ Waiting' = Waiting
      BY <2>3, <1>exec DEF TypeOK, Execs, Waiting
    <3> QED BY <2>3, <3>1, StepStops
  <2> QED BY <1>7, <2>2, <2>3, NodeSkipsPromise DEF ApprovalGate
<1>8. CASE InsertApproval(p)
  <2>1. exec'[p].sent = exec[p].sent /\ Waiting' = Waiting /\ consent' = consent
        /\ exec[p].pc = "pending" /\ exec[p].state.request = 0
    BY <1>8, <1>exec DEF InsertApproval, At, TypeOK, Execs, Waiting
  <2>2. CASE exec[p].found # 0
    BY <1>8, <2>1, <2>2, StepStops DEF InsertApproval
  <2>3. CASE exec[p].found = 0
    <3>1. PICK a \in ApprovalIds \ Used :
            graph_approvals' = [graph_approvals EXCEPT ![a] = "pending"]
      BY <1>8, <2>3 DEF InsertApproval
    <3>2. Pending = {} /\ Uploaded' = Uploaded
      BY <2>1, <2>3 DEF NothingPending, At, OneAtATime, Uploaded
    <3>3. Promise!Ask(a)
      BY <2>1, <3>1, <3>2 DEF Promise!Ask, Used, Pending
    <3> QED BY <3>3 DEF Promise!Next
  <2> QED BY <2>2, <2>3
<1>9. CASE SavePending(p)
  <2>1. /\ exec[p].pc = "pending" /\ exec[p].state.request \in Pending
        /\ exec[p].state.status = "pending_approval"
    BY <1>9, <1>inv DEF SavePending, At, Faithful, Consented
  <2>2. graph_run'.state = exec[p].state /\ Uploaded' = Uploaded
    BY <1>9, <1>exec DEF SavePending, NodeEnds, Save, TypeOK, Rows, Execs, OneAtATime, Uploaded
  <2>3. Waiting' = exec[p].state.request
    BY <2>1, <2>2, WaitingSaved
  <2>4. Promise!Wait(exec[p].state.request)
    BY <1>9, <2>1, <2>2, <2>3 DEF SavePending, NodeEnds, Promise!Wait, Pending
  <2> QED BY <2>1, <2>4 DEF Promise!Next, Pending
<1>10. CASE SyncSource(p)
  <2>1. exec[p].pc = "sync" /\ ~exec[p].sent
    BY <1>10, <1>inv DEF SyncSource, At, Faithful
  <2>2. CASE Syncs(p)
    <3>1. /\ exec'[p].sent = (exec[p].state.input = "api") /\ Waiting' = Waiting
          /\ UNCHANGED <<graph_approvals, consent>>
      BY <1>10, <2>2, <1>exec DEF SyncSource, TypeOK, Execs, Waiting
    <3>2. CASE exec[p].state.input # "api"
      <4>1. exec'[p].sent = exec[p].sent
        BY <1>exec, <2>1, <3>1, <3>2 DEF Execs
      <4> QED BY <3>1, <4>1, StepStops
    <3>3. CASE exec[p].state.input = "api"
      <4>1. Requires(p)
        BY <2>2, <3>3 DEF Requires, Syncs, TargetsCore
      <4>2. consent
        BY <2>1, <2>2, <4>1 DEF Consented, At
      <4>3. Uploaded' = Uploaded \cup {p} /\ p \notin Uploaded
        BY <2>1, <3>1, <3>3 DEF OneAtATime, Uploaded
      <4>4. Promise!Upload(p)
        BY <3>1, <4>2, <4>3 DEF Promise!Upload
      <4> QED BY <4>4 DEF Promise!Next
    <3> QED BY <3>2, <3>3
  <2> QED BY <1>10, <2>2, NodeSkipsPromise DEF SyncSource
<1>11. CASE SaveSync(p) \/ VerifySync(p)
  BY <1>11, <1>inv, NodeEndsPromise
  DEF SaveSync, VerifySync, At, Faithful, NotWaiting, Saved, Waiting
<1>12. CASE CallCoreInvestigate(p)
  <2>1. CASE \E status \in {"core_investigation_complete", "core_unavailable"} :
               NodeEnds(p, WithStatus(p, status), "report")
    BY <1>status, <2>1, NodeEndsPromise
  <2> QED BY <1>12, <2>1, NodeSkipsPromise DEF CallCoreInvestigate
<1>13. CASE Report(p)
  <2>1. exec[p].pc = "report" /\ exec'[p].sent = FALSE
    BY <1>13 DEF Report, At, TypeOK, IdleExec
  <2>2. graph_run'.state = WithStatus(p, ReportStatus(p))
    BY <1>13 DEF Report, Save, TypeOK, Rows
  <2>3. WithStatus(p, ReportStatus(p)).request = exec[p].state.request
    BY <1>exec DEF WithStatus, States
  <2>4. ReportStatus(p) = "pending_approval" => exec[p].state.status = "pending_approval"
    BY DEF ReportStatus
  <2>5. Waiting' \in {Waiting, 0}
    BY <1>inv, <1>status, <2>1, <2>2, <2>3, <2>4, WaitingSaved DEF Faithful, Saved, Waiting
  <2> QED BY <1>13, <2>1, <2>5, StepEnds DEF Report
<1>14. CASE Fail(p)
  <2>1. exec'[p].sent = FALSE
    BY <1>14 DEF Fail, TypeOK, IdleExec
  <2>2. Waiting' \in {Waiting, 0}
    BY <1>14 DEF Fail, Save, TypeOK, Rows, Waiting
  <2> QED BY <1>14, <2>1, <2>2, StepEnds DEF Fail
<1> QED
  BY <1>1, <1>2, <1>3, <1>4, <1>5, <1>6, <1>7, <1>8, <1>9, <1>10, <1>11, <1>12, <1>13, <1>14
  DEF Advance

(* When commands run one at a time, the graphs keep the promise of          *)
(* Approvals, whatever was decided twice, raises or is killed.              *)
THEOREM GraphKeepsApprovals == ASSUME OneAtATime PROVE Spec => ImplementsApprovals
<1> DEFINE Inv == TypeOK /\ AllEvident /\ Consented /\ AllFaithful /\ OnePendingApproval
                    /\ NothingPending
<1>1. Init => AllEvident /\ Consented /\ AllFaithful /\ OnePendingApproval /\ NothingPending
  <2> SUFFICES ASSUME Init
               PROVE  AllEvident /\ Consented /\ AllFaithful /\ OnePendingApproval
                        /\ NothingPending
    OBVIOUS
  <2>1. Consented /\ OnePendingApproval /\ NothingPending
    BY DEF Init, Consented, OnePendingApproval, NothingPending, Pending, IdleExec, At
  <2>2. AllEvident
    BY EvidentIdle DEF Init, AllEvident, Started, IsBridge, Used
  <2>3. AllFaithful
    BY FaithfulIdle DEF Init, AllFaithful, Unsaid, FreshState
  <2> QED BY <2>1, <2>2, <2>3
<1>2. Inv /\ [Next]_vars => AllEvident' /\ Consented' /\ AllFaithful'
                              /\ OnePendingApproval' /\ NothingPending'
  BY EvidentNext, ConsentedNext, FaithfulNext, OnePendingNext
<1>3. Init => Promise!Init
  BY DEF Init, Promise!Init, Waiting, Uploaded, FreshState, IdleExec
<1>4. Inv /\ [Next]_vars => [Promise!Next]_Promise!vars
  <2> SUFFICES ASSUME Inv, [Next]_vars
               PROVE  Promise!Next \/ UNCHANGED Promise!vars
    OBVIOUS
  <2>1. ASSUME NEW p \in Procs, Crash(p)
        PROVE  Promise!Next
    <3>1. exec'[p].sent = FALSE /\ Waiting' = Waiting
      BY <2>1 DEF Crash, TypeOK, IdleExec, Waiting
    <3> QED BY <2>1, <3>1, StepEnds DEF Crash
  <2>2. CASE UNCHANGED vars
    BY <2>2 DEF vars, Promise!vars, Waiting, Uploaded
  <2> QED BY <2>1, <2>2, CommandPromise, AdvancePromise DEF Next
<1> QED BY <1>1, <1>2, <1>3, <1>4, GraphTypeCorrect, PTL DEF Spec, ImplementsApprovals, Promise!Spec

=============================================================================
