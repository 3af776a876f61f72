--------------------------- MODULE GraphApprovals ---------------------------
(***************************************************************************)
(* GraphRun as an implementation of Approvals.  The run says that it waits *)
(* in its row; the last word of the operator is the history variable.      *)
(***************************************************************************)
EXTENDS GraphRun

(* the approval the stored run waits for *)
Waiting ==
  IF graph_run.state.status = "pending_approval" THEN graph_run.state.request ELSE 0

(* the commands under way that have uploaded *)
Uploaded == {p \in Procs : exec[p].sent}

Promise == INSTANCE Approvals WITH
       Ids <- ApprovalIds,
       Commands <- Procs,
       approvals <- graph_approvals,
       word <- consent,
       waits <- Waiting,
       sent <- Uploaded

(* The graphs keep the promise of Approvals through rejections, second      *)
(* decisions, failures, kills and resumptions, if commands run one at a     *)
(* time (langgraph_agent/runner.py, nodes/common.py:168-197,                *)
(* checkpoints/sqlite_checkpointer.py:134-200).                             *)
ImplementsApprovals == Promise!Spec

=============================================================================
