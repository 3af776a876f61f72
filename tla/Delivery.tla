------------------------------ MODULE Delivery ------------------------------
(***************************************************************************)
(* What a sync to Core promises, without runs, rows, batches and retries:  *)
(* Core is given only what was taken from a file or from the pending       *)
(* uploads; a note that says synced is about something Core stored; a note *)
(* that says failed is about the very content that is pending; and what is *)
(* pending stays so until Core has stored it, something newer takes its    *)
(* place, or an operator drops it.                                         *)
(***************************************************************************)
CONSTANTS Files, Contents, None

VARIABLES
  disk,     \* what each file holds
  held,     \* contents of each file that have been taken and may be sent
  core,     \* what Core holds for each file
  stored,   \* all that Core ever stored for each file
  noted,    \* the last note about each file
  pending,  \* the failed upload of each file, None if there is none
  dropped   \* files whose failed upload was dropped, and no new one since

vars == <<disk, held, core, stored, noted, pending, dropped>>

Statuses == {"none", "synced", "failed"}

Init ==
  /\ disk \in [Files -> Contents]
  /\ held = [f \in Files |-> {}]
  /\ core = [f \in Files |-> None]
  /\ stored = [f \in Files |-> {}]
  /\ noted = [f \in Files |-> [content |-> None, status |-> "none"]]
  /\ pending = [f \in Files |-> None]
  /\ dropped = {}

(* the environment writes a file *)
Change(f, c) ==
  /\ disk' = [disk EXCEPT ![f] = c]
  /\ UNCHANGED <<held, core, stored, noted, pending, dropped>>

(* Contents are taken from the files or the pending uploads, or let go of:  *)
(* a run ends, fails or is killed.                                          *)
Hold ==
  /\ UNCHANGED <<disk, core, stored, noted, pending, dropped>>
  /\ \A f \in Files : held'[f] \subseteq held[f] \cup {disk[f], pending[f]}

LetGo == \A f \in Files : held'[f] \subseteq held[f]

(* Core stores some of what is held. *)
Store(S) ==
  /\ core' \in [Files -> Contents \cup {None}]
  /\ \A f \in S : core'[f] \in held[f]
  /\ \A f \in Files \ S : core'[f] = core[f]
  /\ stored' = [f \in Files |-> IF f \in S THEN stored[f] \cup {core'[f]} ELSE stored[f]]
  /\ UNCHANGED <<disk, noted, pending, dropped>>
  /\ LetGo

NoteSynced(f, c) ==
  /\ c \in stored[f]
  /\ noted' = [noted EXCEPT ![f] = [content |-> c, status |-> "synced"]]
  /\ UNCHANGED <<disk, core, stored, pending, dropped>>
  /\ LetGo

NoteFailed(f, c) ==
  /\ pending[f] = c \/ f \in dropped
  /\ noted' = [noted EXCEPT ![f] = [content |-> c, status |-> "failed"]]
  /\ UNCHANGED <<disk, core, stored, pending, dropped>>
  /\ LetGo

(* A failed upload becomes pending, in place of an older one. *)
Keep(f, c) ==
  /\ c \in held[f]
  /\ pending' = [pending EXCEPT ![f] = c]
  /\ dropped' = dropped \ {f}
  /\ UNCHANGED <<disk, core, stored, noted>>
  /\ LetGo

Delivered(f) ==
  /\ pending[f] \in stored[f]
  /\ pending' = [pending EXCEPT ![f] = None]
  /\ UNCHANGED <<disk, core, stored, noted, dropped>>
  /\ LetGo

(* An operator drops pending uploads. *)
Drop(S) ==
  /\ pending' = [f \in Files |-> IF f \in S THEN None ELSE pending[f]]
  /\ dropped' = dropped \cup S
  /\ UNCHANGED <<disk, held, core, stored, noted>>

Next ==
  \/ Hold
  \/ \E f \in Files, c \in Contents :
       Change(f, c) \/ NoteSynced(f, c) \/ NoteFailed(f, c) \/ Keep(f, c)
  \/ \E S \in SUBSET Files : Store(S) \/ Drop(S)
  \/ \E f \in Files : Delivered(f)

Spec == Init /\ [][Next]_vars

=============================================================================
