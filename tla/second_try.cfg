SPECIFICATION Spec
CONSTANTS
  Procs = {p1}
  Graphs = {"source_onboarding"}
  MayCrash = FALSE
  MaxApprovals = 3
PROPERTIES
  CompletedRunsUploaded
