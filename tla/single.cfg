SPECIFICATION Spec
CONSTANTS
  Files = {1, 2}
  Contents = {a, b}
  Procs = {p1}
  RetryLimit = 2
  BatchSize = 2
  Answers = {"ok", "retryable", "rejected"}
  TracksSyncs = FALSE
  MayCrash = FALSE
  MayClear = FALSE
  MayRevert = TRUE
  None = None
  MaxRowId = 3
SYMMETRY Symmetry
INVARIANTS
  FreshWins
  RecordMatchesCore
  OneRowPerDocument
  SnapshotIsCurrent
PROPERTIES
  FailedUploadsRemain
  RetriesRunOut
