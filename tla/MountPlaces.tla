---------------------------- MODULE MountPlaces -----------------------------
(***************************************************************************)
(* What mounting promises, without locks, tables or retries: a mount goes, *)
(* in one step and for good, to a place of the tree that is free and that  *)
(* still exists.  MountTree implements this.                               *)
(***************************************************************************)
CONSTANTS
  Dentries, Mounts, RootMnt,
  Fs,          \* the mount whose file system a dentry belongs to
  RootOf,      \* the root of a mount
  IsDir,       \* the directories
  NoUser       \* mounts no user may attach

VARIABLES
  on,          \* the place of each mount that is attached
  removed      \* the directories rmdir took away

places == <<on, removed>>

Init == on = <<>> /\ removed = {}

Attached == DOMAIN on \cup {RootMnt}

\* A place is a dentry seen through the mount of its own file system, and
\* that mount is reached from the root: so the mounts stay a tree.
Free(m, at) ==
  /\ at.mnt = Fs[at.dentry]
  /\ at.mnt \in Attached
  /\ at.dentry \notin removed
  /\ \A n \in DOMAIN on : on[n] # at
  /\ (at.dentry \in IsDir) = (RootOf[m] \in IsDir)

Mount(m) ==
  /\ m \notin Attached \cup NoUser
  /\ \E at \in [mnt : Mounts, dentry : Dentries] :
       /\ Free(m, at)
       /\ on' = [n \in DOMAIN on \cup {m} |-> IF n = m THEN at ELSE on[n]]
  /\ UNCHANGED removed

\* A directory may go with a mount on it: is_local_mountpoint says no.
Remove(d) ==
  /\ d \in IsDir \ removed
  /\ \A m \in Mounts : d # RootOf[m]
  /\ removed' = removed \cup {d}
  /\ UNCHANGED on

Next == \/ \E m \in Mounts : Mount(m)
        \/ \E d \in Dentries : Remove(d)

Spec == Init /\ [][Next]_places
=============================================================================
