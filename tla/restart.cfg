SPECIFICATION Spec
CONSTANTS
  Files = {1, 2}
  Contents = {1, 2}
  Procs = {p1}
  RetryLimit = 1
  BatchSize = 1
  Answers = {"ok", "retryable", "rejected", "missing"}
  TracksSyncs = TRUE
  MayCrash = TRUE
  MayClear = TRUE
  MayRevert = FALSE
  None = None
  MaxRowId = 2
INVARIANTS
  NothingForgotten
  SuccessIsTotal
PROPERTIES
  ImplementsDelivery
  RunsComeCloser
