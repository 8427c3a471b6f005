CONSTANTS
  NoThread = NoThread
  root = root
  a = a
  b = b
  c = c
  Threads = {t1, t2}
  Dentries <- MCDentries
  Root = root
  Parent <- MCParent
  Dropped = {a}
  MaxRefs = 2
  Ops = {"d_add"}
SPECIFICATION FairSpec
CHECK_DEADLOCK FALSE
PROPERTIES
  UnusedIsKilled
  DputReturns
