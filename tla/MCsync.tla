------------------------------- MODULE MCsync -------------------------------
(***************************************************************************)
(* CollectorSync for TLC.  Contents are interchangeable when files may be  *)
(* reverted, so the runs that give them model values use their symmetry.   *)
(***************************************************************************)
EXTENDS SyncDelivery, TLC

Symmetry == Permutations(Contents)

=============================================================================
