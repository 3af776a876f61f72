SPECIFICATION FairSpec
CONSTANTS
  NSources = 2
  Readers = {r1}
  MaxCycles = {0, 2}
CHECK_DEADLOCK FALSE
INVARIANTS
  TypeOK
  OkIsTrue
  NoCycleAfterStop
PROPERTIES
  ShutsDown
  SourcesAreSynced
