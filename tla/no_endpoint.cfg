SPECIFICATION Spec
CONSTANTS
  Files = {1}
  Contents = {1}
  Procs = {p1}
  RetryLimit = 1
  BatchSize = 1
  Answers = {"ok", "retryable", "missing"}
  TracksSyncs = TRUE
  MayCrash = FALSE
  MayClear = FALSE
  MayRevert = FALSE
  None = None
  MaxRowId = 3
PROPERTIES
  MissingEndpointFailsRun
