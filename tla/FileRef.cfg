SPECIFICATION FairSpec
CONSTANTS
  Threads = {t1, t2, t3}
  Scale = 2
  MaxRefs = 3
  MaxStray = 2
INVARIANTS TypeOK ReleasedOnce
PROPERTIES LastPutFrees ImplementsLife
