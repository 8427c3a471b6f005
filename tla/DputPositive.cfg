CONSTANTS
  NoThread = NoThread
  root = root
  a = a
  b = b
  c = c
  Threads = {t1, t2}
  Dentries <- MCChain
  Root = root
  Parent <- MCChainParent
  Dropped = {}
  MaxRefs = 2
  Ops = {"d_instantiate"}
SPECIFICATION Spec
CHECK_DEADLOCK FALSE
INVARIANT
  NoSelfDeadlock
