------------------------------ MODULE MCfiles ------------------------------
(***************************************************************************)
(* FileSync for TLC.  Path 1 is denied, 2 is empty, 3 oversized, 4 binary  *)
(* and 5 of an unsupported extension; 6 is edited; 7 is of another type.   *)
(***************************************************************************)
EXTENDS FileSync

CONSTANTS a, b,           \* texts of one size
          blank, huge, bin

MCSize == [x \in Bodies |-> CASE x = blank -> 0 [] x = huge -> 2 [] OTHER -> 1]

MCDetected ==
  [f \in Files |-> [x \in Bodies |-> CASE f = 6 -> "patch"
                                      [] f # 6 /\ x = a -> "runbook"
                                      [] OTHER -> "config"]]

MCInitial == [f \in Files |-> CASE f = 2 -> blank [] f = 3 -> huge [] f = 4 -> bin
                               [] OTHER -> a]

MCEdits == [f \in Files |-> IF f = 6 THEN {a, b, blank} ELSE {}]

=============================================================================
