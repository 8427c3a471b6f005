CONSTANTS
  NoThread = NoThread
  Threads = {t1, t2}
  Depth = 2
  MaxDentries = 2
  Ops = {"mknod", "rmdir"}
  Renamed = {}
  Slashed = {}
  Faults = FALSE
SPECIFICATION Spec
CHECK_DEADLOCK FALSE
INVARIANT
  CreateReportsErrors
