----------------------------- MODULE MCDirRead ------------------------------
EXTENDS DirRead

\* "." and "..", a long name, a short one, and one with a '/' in it.
MCReclen == [o \in Offsets |-> IF o = 2 THEN 2 ELSE 1]
=============================================================================
