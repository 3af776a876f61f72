---------------------------- MODULE SyncDelivery ----------------------------
(***************************************************************************)
(* CollectorSync as an implementation of Delivery.  What is held is what   *)
(* the locals of the runs carry: captured documents, rows still to be      *)
(* retried and the row being retried.  What is pending is in the table.    *)
(***************************************************************************)
EXTENDS CollectorSync

Held(f) ==
  {c \in Contents : \E p \in Procs :
     \/ run[p].docs[f] = c
     \/ \E r \in run[p].due : r.file = f /\ r.content = c
     \/ /\ run[p].pc \in {"settle", "stamp", "bump"}
        /\ run[p].row.file = f /\ run[p].row.content = c}

(* with one row per document, the content of its row *)
Pending(f) ==
  IF \E r \in queue : r.file = f
    THEN CHOOSE c \in Contents : \E r \in queue : r.file = f /\ r.content = c
    ELSE None

Promise == INSTANCE Delivery WITH
       held <- [f \in Files |-> Held(f)],
       stored <- accepted,
       noted <- files,
       pending <- [f \in Files |-> Pending(f)],
       dropped <- cleared

(* A sync keeps the promise of Delivery, through crashes, failed runs and   *)
(* `queue clear`, if processes run one at a time and Core refuses no single *)
(* documents (exporters/incidentops_api.py, core/pipeline.py:249-278).      *)
ImplementsDelivery == Promise!Spec

=============================================================================
