CONSTANTS
  NoThread = NoThread
  root = root
  a = a
  b = b
  c = c
  Threads = {t1, t2}
  Dentries <- MCChain
  Root = root
  Parent <- MCChainParent
  Dropped = {a}
  MaxRefs = 2
  Ops = {"d_add", "d_instantiate", "i_lock", "d_lookup"}
SPECIFICATION Spec
SYMMETRY MCSymmetry
CHECK_DEADLOCK FALSE
INVARIANTS
  CountIsExact KilledOnceUnused
  LocksAreReleased
