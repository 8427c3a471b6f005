SPECIFICATION FairSpec
CONSTANTS
  NoThread = NoThread
  Threads = {t1, t2}
  Depth = 2
  MaxDentries = 2
  Ops = {"mknod", "mkdir", "rmdir", "rename", "open", "creat"}
  Renamed = {2}
  Slashed <- SlashedCalls
  Faults = TRUE
CHECK_DEADLOCK FALSE
INVARIANTS
  OneDentryPerName CacheMatchesDisk DecisionsHold LocksAreUsedOrLeft
PROPERTIES
  DeadDirsGetNoDentries CallsReturn
