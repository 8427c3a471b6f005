SPECIFICATION Spec
CONSTANTS
  Threads = {t1, t2, t3}
  Scale = 1
  MaxRefs = 10
  MaxStray = 0
SYMMETRY MCSymmetry
INVARIANTS NoSilentRelease
