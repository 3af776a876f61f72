SPECIFICATION Spec
CONSTANTS
  Files = {1}
  Contents = {a, b}
  Procs = {p1, p2}
  RetryLimit = 1
  BatchSize = 1
  Answers = {"ok", "retryable", "rejected"}
  TracksSyncs = FALSE
  MayCrash = FALSE
  MayClear = FALSE
  MayRevert = TRUE
  None = None
  MaxRowId = 2
SYMMETRY Symmetry
INVARIANTS
  TypeOK
  SyncedIsAccepted
