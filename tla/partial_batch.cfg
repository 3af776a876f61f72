SPECIFICATION Spec
CONSTANTS
  Files = {1, 2}
  Contents = {1}
  Procs = {p1}
  RetryLimit = 1
  BatchSize = 2
  Answers = {"ok", "isolated"}
  TracksSyncs = TRUE
  MayCrash = FALSE
  MayClear = FALSE
  MayRevert = FALSE
  None = None
  MaxRowId = 3
INVARIANTS
  SyncedIsAccepted
