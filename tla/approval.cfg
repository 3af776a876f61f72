SPECIFICATION Spec
CONSTANTS
  Procs = {p1}
  Graphs = {"source_onboarding", "investigation_bridge"}
  MayCrash = TRUE
  MaxApprovals = 3
INVARIANTS
  TypeOK
  PendingRunsCanBeDecided
  OnePendingApproval
  InvestigatesAfterSync
PROPERTIES
  UploadsAreApproved
  ImplementsApprovals
