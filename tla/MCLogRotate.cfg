CONSTANTS
  Length <- Lens
  MaxSize = 2
  MaxBackups = 1
  MaxAge = 0
  Compress = TRUE
  ChanCap = 1
  MaxTime = 3
  MaxInode = 3
  MaxFaults = 1
SPECIFICATION Spec
INVARIANTS
  NothingLost
  SizeBounded
  NilOnlyAfterClose
PROPERTIES
  ReplacedBeforeRemoved
  WriteReturns
