SPECIFICATION FairSpec
CONSTANTS
  Files = {1, 2, 3, 4, 5, 6, 7}
  Bodies = {a, b, blank, huge, bin}
  a = a
  b = b
  blank = blank
  huge = huge
  bin = bin
  Size <- MCSize
  Binary = {bin}
  Detected <- MCDetected
  Denied = {1}
  Unsupported = {5}
  MaxSize = 1
  SourceType = "filesystem"
  Targets = {"jsonl", "sqlite"}
  Procs = {p1}
  MayCrash = TRUE
  Initial <- MCInitial
  None = None
  MayRevert = FALSE
  Edits <- MCEdits
  MaxEdits = 2
  MaxCuts = 1
INVARIANTS
  TypeOK
  SkippedIsExported
  OneLossPerCut
  PlanIsKept
  CoreTypeIsOwn
PROPERTIES
  Converges
