SPECIFICATION FairSpec
CONSTANTS
  Files = {1}
  Contents = {1, 2, 3}
  Procs = {p1}
  RetryLimit = 2
  BatchSize = 1
  Answers = {"ok", "retryable", "rejected"}
  TracksSyncs = TRUE
  MayCrash = FALSE
  MayClear = FALSE
  MayRevert = FALSE
  None = None
  MaxRowId = 3
PROPERTIES
  RunsEnd
  Converges
  QueueDrains
