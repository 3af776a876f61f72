SPECIFICATION Spec
CONSTANTS
  Procs = {p1, p2}
  Graphs = {"source_onboarding"}
  MayCrash = FALSE
  MaxApprovals = 4
PROPERTIES
  UploadsAreApproved
