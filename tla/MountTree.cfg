SPECIFICATION FairSpec
CONSTANTS
  Threads = {t1, t2}
  r0 = r0 p = p f = f r1 = r1 r2 = r2 r3 = r3
  m0 = m0 m1 = m1 m2 = m2 m3 = m3
  Dentries <- MCDentries
  Mounts <- MCMounts
  RootMnt = m0
  Fs <- MCFs
  RootOf <- MCRootOf
  IsDir <- MCIsDir
  NoUser = {m3}
  m_hash <- MCHash
  NoMnt = NoMnt NoDentry = NoDentry NoOwner = NoOwner
CHECK_DEADLOCK FALSE
INVARIANTS TypeOK TableIsExact MountsAreSeen
PROPERTIES ImplementsMounts CallsReturn
