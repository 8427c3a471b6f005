SPECIFICATION FairSpec
CONSTANTS
  Threads = {t1, t2}
  Files = {f1, f2}
  NFds = 2
  MaxPos = 1
  Scale = 1
  NoThread = NoThread
  NULL = NULL
  FD_USED = FD_USED
  Promises = {"open", "room", "range", "close"}
CHECK_DEADLOCK FALSE
INVARIANTS
  CountsAreExact DescriptorsAreUnique PositionIsExact NothingUndefined
PROPERTIES
  ClosedFilesAreFreed CallsReturn
