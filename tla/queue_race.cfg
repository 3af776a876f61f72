SPECIFICATION Spec
CONSTANTS
  Files = {1}
  Contents = {1, 2}
  Procs = {p1, p2}
  RetryLimit = 1
  BatchSize = 1
  Answers = {"ok", "retryable"}
  TracksSyncs = FALSE
  MayCrash = FALSE
  MayClear = FALSE
  MayRevert = FALSE
  None = None
  MaxRowId = 3
PROPERTIES
  FailedUploadsRemain
