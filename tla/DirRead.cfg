SPECIFICATION FairSpec
CONSTANTS
  NoThread = NoThread
  Threads = {t1, t2}
  MaxOffset = 5
  Counts = {1, 3}
  Reclen <- MCReclen
  Bad = {4}
  MaxCalls = 2
  Faults = TRUE
INVARIANTS
  TypeOK ListingIsASnapshot NothingSkipped GivenOnce EndIsTheEnd
PROPERTY
  CallsReturn
