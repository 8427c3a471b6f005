---------------------------- MODULE MCMountTree -----------------------------
EXTENDS MountTree

CONSTANTS r0, p, f, r1, r2, r3, m0, m1, m2, m3

\* The root file system has a directory p and a file f.  m1 and m2 mount
\* directories; m3 has a superblock no user may mount.
MCDentries == {r0, p, f, r1, r2, r3}
MCMounts == {m0, m1, m2, m3}
MCFs == [d \in MCDentries |-> CASE d = r1 -> m1 [] d = r2 -> m2
                                [] d = r3 -> m3 [] OTHER -> m0]
MCRootOf == [m \in MCMounts |-> CASE m = m1 -> r1 [] m = m2 -> r2
                                  [] m = m3 -> r3 [] OTHER -> r0]
MCIsDir == MCDentries \ {f}

\* The places on the root file system share a bucket.
MCHash == [k \in MCMounts \X MCDentries |-> IF k[1] = m0 THEN 0 ELSE 1]
=============================================================================
