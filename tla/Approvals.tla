------------------------------ MODULE Approvals ------------------------------
(***************************************************************************)
(* What the approvals of a run promise, without graphs, nodes, saved       *)
(* states and executions: an approval is asked for when none is pending; a *)
(* run waits only for one that is pending when it begins to wait; nobody   *)
(* but the operator answers; and nothing is uploaded unless the last thing *)
(* the operator said was yes.                                              *)
(***************************************************************************)
CONSTANTS Ids, Commands

VARIABLES
  approvals,  \* the status of each approval
  word,       \* what the operator last said
  waits,      \* the approval that the run says it waits for, 0 if none
  sent        \* the commands under way that have uploaded

vars == <<approvals, word, waits, sent>>

Init ==
  /\ approvals = [a \in Ids |-> "none"]
  /\ word = FALSE
  /\ waits = 0
  /\ sent = {}

(* The operator begins or resumes the run, with --yes or without; leaving   *)
(* it out takes nothing back.                                               *)
Begin(yes) ==
  /\ word' = (word \/ yes)
  /\ UNCHANGED <<approvals, waits, sent>>

(* The operator answers an approval, perhaps not for the first time. *)
Answer(a, yes) ==
  /\ approvals[a] # "none"
  /\ approvals' = [approvals EXCEPT ![a] = IF yes THEN "approved" ELSE "rejected"]
  /\ word' = yes
  /\ UNCHANGED <<waits, sent>>

Ask(a) ==
  /\ approvals[a] = "none"
  /\ \A b \in Ids : approvals[b] # "pending"
  /\ approvals' = [approvals EXCEPT ![a] = "pending"]
  /\ UNCHANGED <<word, waits, sent>>

Wait(a) ==
  /\ approvals[a] = "pending"
  /\ waits' = a
  /\ UNCHANGED <<approvals, word, sent>>

StopWaiting ==
  /\ waits' = 0
  /\ UNCHANGED <<approvals, word, sent>>

Upload(c) ==
  /\ word
  /\ c \notin sent
  /\ sent' = sent \cup {c}
  /\ UNCHANGED <<approvals, word, waits>>

(* A command ends, raises or is killed. *)
End(c) ==
  /\ sent' = sent \ {c}
  /\ waits' \in {waits, 0}
  /\ UNCHANGED <<approvals, word>>

Next ==
  \/ \E yes \in BOOLEAN : Begin(yes) \/ \E a \in Ids : Answer(a, yes)
  \/ \E a \in Ids : Ask(a) \/ Wait(a)
  \/ StopWaiting
  \/ \E c \in Commands : Upload(c) \/ End(c)

Spec == Init /\ [][Next]_vars

=============================================================================
