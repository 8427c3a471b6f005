SPECIFICATION Spec
CONSTANTS
  Threads = {t1, t2}
  Files = {f1, f2}
  NFds = 1
  MaxPos = 0
  Scale = 1
  NoThread = NoThread
  NULL = NULL
  FD_USED = FD_USED
  Promises = {"open", "room", "range"}
CHECK_DEADLOCK FALSE
INVARIANT NoIncOnReleased
