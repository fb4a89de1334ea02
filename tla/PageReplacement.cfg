SPECIFICATION MCSpec
CHECK_DEADLOCK FALSE
CONSTANTS
  Pages = 6
  Accesses = 8
  ColdFrom = 2
  Sizes <- MCSizes
INVARIANTS
  TypeOK
  LruRecency
  LruInclusion
  OptOptimal
  ClockFifoUntilHit
  ColdMissesOnly
  LoopThrashes
PROPERTIES
  NewestSpared
  DemandSpec
