--------------------------- MODULE MountTreeProofs ---------------------------
(***************************************************************************)
(* Proofs about mounting, for any tasks, any file systems and any number   *)
(* of mounts.  The tree needs no counting: the inode lock of the place     *)
(* keeps two mounts and a removal apart.  The table of mountpoints does.   *)
(***************************************************************************)
EXTENDS MountTree, FiniteSetTheorems, TLAPS

\* Counts are of mounts and of calls.
FiniteSystem == IsFiniteSet(Mounts) /\ IsFiniteSet(Threads)

-----------------------------------------------------------------------------
(* The inductive invariant of the tree, in named parts. *)

LockedPc == {"locked", "get_mp", "add_mp", "graft", "add_root", "set_mp", "commit",
             "insert", "put_mp", "unlock", "rmdir", "rmdir_unlock"}
EntryPc == {"graft", "add_root", "set_mp", "commit", "insert", "put_mp"}
InsertPc == {"commit", "insert"}

\* All of TypeOK but the counts, which only stay naturals because they are
\* exact.
Typed ==
  /\ fresh \subseteq NewMounts /\ mounted \subseteq NewMounts /\ lost \subseteq NewMounts
  /\ mnt_parent \in [Mounts -> Mounts]
  /\ mnt_mountpoint \in [Mounts -> Dentries]
  /\ m_dentry \in [MountpointIds -> Dentries \cup {NoDentry}]
  /\ flagged \subseteq Dentries /\ cant_mount \subseteq Dentries
  /\ i_rwsem \in [Dentries -> Threads \cup {NoOwner}]
  /\ pc \in [Threads -> {"idle", "undefined"} \cup MountPc \cup RmdirPc]
  /\ path \in [Threads -> [mnt : Mounts \cup {NoMnt}, dentry : Dentries \cup {NoDentry}]]
  /\ new \in [Threads -> NewMounts \cup {NoMnt}]
  /\ mp \in [Threads -> MountpointIds \cup {NoMp}]
  /\ chain \in [Threads -> SUBSET NewMounts]

\* What a bucket held when its head was read got there by inserts.
ChainsAreAttached == \A t \in Threads : chain[t] \subseteq attached

\* A path is a dentry seen through the attached mount of its file system.
PathsAreAttached ==
  \A t \in Threads : pc[t] # "idle" =>
    /\ path[t].dentry \in Dentries
    /\ path[t].mnt = Fs[path[t].dentry]
    /\ path[t].mnt \in attached \cup {RootMnt}

\* A mount is made by one call, and is in the tree only after its commit.
MadeOnce ==
  /\ attached \cap fresh = {}
  /\ \A t \in Threads :
       /\ new[t] \notin fresh
       /\ pc[t] \in MountPc => new[t] \in NewMounts
       /\ pc[t] \in MountPc \ {"put_mp", "unlock"} => new[t] \notin attached
  /\ \A t, u \in Threads : new[t] = new[u] /\ new[t] # NoMnt => t = u

\* The inode lock of the place.
PlacesAreLocked ==
  \A t \in Threads : pc[t] \in LockedPc => i_rwsem[path[t].dentry] = t

\* Under that lock the directory stays, and the place stays free as long as
\* walks find all that was mounted.
PlacesStayFree ==
  \A t \in Threads : pc[t] \in {"get_mp", "add_mp", "graft", "add_root", "set_mp"} \cup InsertPc =>
    /\ path[t].dentry \notin cant_mount
    /\ lost = {} => \A m \in attached : mnt_mountpoint[m] # path[t].dentry

\* The entry a call works with is in the table, for the place of the call.
EntriesAreHeld ==
  \A t \in Threads :
    /\ mp[t] # NoMp <=> pc[t] \in EntryPc
    /\ mp[t] # NoMp => m_dentry[mp[t]] = path[t].dentry

\* No entry of a mount is in the table before the mount's call adds it.
EntriesAreAddedOnce ==
  /\ \A m \in fresh : m_dentry[<<m, "place">>] = NoDentry /\ m_dentry[<<m, "root">>] = NoDentry
  /\ \A t \in Threads :
       /\ pc[t] \in {"traverse", "create", "lock", "locked", "get_mp", "add_mp"} =>
            m_dentry[<<new[t], "place">>] = NoDentry
       /\ pc[t] \in {"traverse", "create", "lock", "locked", "get_mp", "add_mp", "graft",
                     "add_root"} =>
            m_dentry[<<new[t], "root">>] = NoDentry

\* What graft_tree found out, and what mnt_set_mountpoint wrote.
GraftsAreAllowed ==
  \A t \in Threads :
    /\ pc[t] \in {"add_root", "set_mp"} \cup InsertPc =>
         /\ new[t] \notin NoUser
         /\ (path[t].dentry \in IsDir) = (RootOf[new[t]] \in IsDir)
    /\ pc[t] \in InsertPc =>
         /\ mnt_parent[new[t]] = path[t].mnt
         /\ mnt_mountpoint[new[t]] = path[t].dentry

RemovalsAreAllowed ==
  \A t \in Threads : pc[t] = "rmdir" =>
    /\ path[t].dentry \in IsDir \ cant_mount
    /\ \A m \in Mounts : path[t].dentry # RootOf[m]

ParentsAreAttached ==
  \A m \in attached : /\ mnt_parent[m] = Fs[mnt_mountpoint[m]]
                     /\ mnt_parent[m] \in attached \cup {RootMnt}

Tree ==
  /\ Typed /\ ChainsAreAttached /\ PathsAreAttached /\ MadeOnce /\ PlacesAreLocked
  /\ PlacesStayFree /\ EntriesAreHeld /\ EntriesAreAddedOnce /\ GraftsAreAllowed
  /\ RemovalsAreAllowed /\ ParentsAreAttached

-----------------------------------------------------------------------------
(* The inductive invariant of the table, on top of that of the tree. *)

\* A dentry has one entry at most, and is flagged while it has one.
OneEntry ==
  \A i \in MountpointIds : m_dentry[i] # NoDentry =>
    /\ m_dentry[i] \in flagged
    /\ \A j \in MountpointIds : m_dentry[j] = m_dentry[i] => i = j

\* A dentry flagged by a call that has not yet added its entry has none.
EntriesAreMissing ==
  \A t \in Threads :
    /\ pc[t] = "add_mp" => path[t].dentry \in flagged /\ MountpointsOf(path[t].dentry) = {}
    /\ pc[t] = "add_root" => RootOf[new[t]] \in flagged /\ MountpointsOf(RootOf[new[t]]) = {}

MountsHaveEntries == \A m \in attached : MountpointsOf(mnt_mountpoint[m]) # {}

MountsAt(d) == {m \in Attached : mnt_mountpoint[m] = d}
UsersOf(i) == {t \in Threads : mp[t] = i}

CountsAreExact ==
  /\ m_count \in [MountpointIds -> Nat] /\ leaked \in [MountpointIds -> Nat]
  /\ \A i \in MountpointIds : m_dentry[i] # NoDentry =>
       m_count[i] = Cardinality(MountsAt(m_dentry[i])) + Cardinality(UsersOf(i)) + leaked[i]
                    + (IF i[2] = "root" THEN 1 ELSE 0)

\* A leaked count keeps its entry in the table.
LeaksAreKept == \A i \in MountpointIds : m_dentry[i] = NoDentry => leaked[i] = 0

Table ==
  OneEntry /\ EntriesAreMissing /\ MountsHaveEntries /\ CountsAreExact /\ LeaksAreKept

IInv == Tree /\ Table

-----------------------------------------------------------------------------
(* What a step may do. *)

Step(t) == do_mount(t) \/ rmdir_lock(t) \/ Continue(t)

\* From where to where each action goes.
LEMMA Flow ==
  ASSUME Typed, NEW t \in Threads
  PROVE  /\ do_mount(t) => pc[t] = "idle" /\ pc'[t] = "traverse"
         /\ traverse_mounts(t) => pc[t] = "traverse" /\ pc'[t] = "traverse"
         /\ traverse_done(t) => pc[t] = "traverse" /\ pc'[t] = "create"
         /\ vfs_create_mount(t) => pc[t] = "create" /\ pc'[t] = "lock"
         /\ do_new_mount_fails(t) => pc[t] = "create" /\ pc'[t] = "idle"
         /\ lock_place(t) => pc[t] = "lock" /\ pc'[t] = "locked"
         /\ lock_dead(t) => pc[t] = "locked" /\ pc'[t] = "idle"
         /\ lock_covered(t) => pc[t] = "locked" /\ pc'[t] = "lock"
         /\ lock_top(t) => pc[t] = "locked" /\ pc'[t] = "get_mp"
         /\ get_place_shared(t) => pc[t] = "get_mp" /\ pc'[t] = "graft"
         /\ get_place_garbage(t) => pc[t] = "get_mp" /\ pc'[t] \in {"idle", "undefined"}
         /\ get_place_flag(t) => pc[t] = "get_mp" /\ pc'[t] = "add_mp"
         /\ get_place_add(t) => pc[t] = "add_mp" /\ pc'[t] = "graft"
         /\ get_place_fails(t) => pc[t] = "get_mp" /\ pc'[t] = "idle"
         /\ graft_refused(t) => pc[t] = "graft" /\ pc'[t] = "put_mp"
         /\ get_root_flag(t) => pc[t] = "graft" /\ pc'[t] = "add_root"
         /\ get_root_add(t) => pc[t] = "add_root" /\ pc'[t] = "set_mp"
         /\ get_root_fails(t) => pc[t] = "graft" /\ pc'[t] = "put_mp"
         /\ mnt_set_mountpoint(t) => pc[t] = "set_mp" /\ pc'[t] = "commit"
         /\ commit_tree(t) => pc[t] = "commit" /\ pc'[t] = "insert"
         /\ attach_mnt(t) => pc[t] = "insert" /\ pc'[t] = "put_mp"
         /\ put_mountpoint(t) => pc[t] = "put_mp" /\ pc'[t] = "unlock"
         /\ unlock_mount(t) => pc[t] = "unlock" /\ pc'[t] = "idle"
         /\ rmdir_lock(t) => pc[t] = "idle" /\ pc'[t] = "rmdir"
         /\ dont_mount(t) => pc[t] = "rmdir" /\ pc'[t] = "rmdir_unlock"
         /\ rmdir_unlock(t) => pc[t] = "rmdir_unlock" /\ pc'[t] = "idle"
<1>1. pc \in [Threads -> {"idle", "undefined"} \cup MountPc \cup RmdirPc]
  BY DEF Typed
<1> USE <1>1 DEF Go
<1>2. do_mount(t) => pc[t] = "idle" /\ pc'[t] = "traverse"
  BY DEF do_mount
<1>3. /\ traverse_mounts(t) => pc[t] = "traverse" /\ pc'[t] = "traverse"
      /\ traverse_done(t) => pc[t] = "traverse" /\ pc'[t] = "create"
      /\ vfs_create_mount(t) => pc[t] = "create" /\ pc'[t] = "lock"
      /\ do_new_mount_fails(t) => pc[t] = "create" /\ pc'[t] = "idle"
  BY DEF traverse_mounts, traverse_done, vfs_create_mount, do_new_mount_fails
<1>4. /\ lock_place(t) => pc[t] = "lock" /\ pc'[t] = "locked"
      /\ lock_dead(t) => pc[t] = "locked" /\ pc'[t] = "idle"
      /\ lock_covered(t) => pc[t] = "locked" /\ pc'[t] = "lock"
      /\ lock_top(t) => pc[t] = "locked" /\ pc'[t] = "get_mp"
  BY DEF lock_place, lock_dead, lock_covered, lock_top
<1>5. /\ get_place_shared(t) => pc[t] = "get_mp" /\ pc'[t] = "graft"
      /\ get_place_garbage(t) => pc[t] = "get_mp" /\ pc'[t] \in {"idle", "undefined"}
      /\ get_place_flag(t) => pc[t] = "get_mp" /\ pc'[t] = "add_mp"
      /\ get_place_add(t) => pc[t] = "add_mp" /\ pc'[t] = "graft"
      /\ get_place_fails(t) => pc[t] = "get_mp" /\ pc'[t] = "idle"
  BY DEF get_place_shared, get_place_garbage, get_place_flag, get_place_add, get_place_fails
<1>6. /\ graft_refused(t) => pc[t] = "graft" /\ pc'[t] = "put_mp"
      /\ get_root_flag(t) => pc[t] = "graft" /\ pc'[t] = "add_root"
      /\ get_root_add(t) => pc[t] = "add_root" /\ pc'[t] = "set_mp"
      /\ get_root_fails(t) => pc[t] = "graft" /\ pc'[t] = "put_mp"
  BY DEF graft_refused, get_root_flag, get_root_add, get_root_fails
<1>7. /\ mnt_set_mountpoint(t) => pc[t] = "set_mp" /\ pc'[t] = "commit"
      /\ commit_tree(t) => pc[t] = "commit" /\ pc'[t] = "insert"
      /\ attach_mnt(t) => pc[t] = "insert" /\ pc'[t] = "put_mp"
      /\ put_mountpoint(t) => pc[t] = "put_mp" /\ pc'[t] = "unlock"
      /\ unlock_mount(t) => pc[t] = "unlock" /\ pc'[t] = "idle"
  BY DEF mnt_set_mountpoint, commit_tree, attach_mnt, put_mountpoint, unlock_mount
<1>8. /\ rmdir_lock(t) => pc[t] = "idle" /\ pc'[t] = "rmdir"
      /\ dont_mount(t) => pc[t] = "rmdir" /\ pc'[t] = "rmdir_unlock"
      /\ rmdir_unlock(t) => pc[t] = "rmdir_unlock" /\ pc'[t] = "idle"
  BY DEF rmdir_lock, dont_mount, rmdir_unlock
<1>9. QED
  BY <1>2, <1>3, <1>4, <1>5, <1>6, <1>7, <1>8

\* A step of one task leaves the locals of the others alone.
LEMMA OthersAreStill ==
  ASSUME Typed, NEW t \in Threads, Step(t), NEW u \in Threads, u # t
  PROVE  /\ pc'[u] = pc[u] /\ path'[u] = path[u] /\ new'[u] = new[u] /\ mp'[u] = mp[u]
         /\ chain'[u] = chain[u]
<1>1. /\ DOMAIN pc = Threads /\ DOMAIN path = Threads /\ DOMAIN new = Threads
      /\ DOMAIN mp = Threads /\ DOMAIN chain = Threads
  BY DEF Typed
<1>2. pc'[u] = pc[u]
  <2>1. pc' = pc \/ \E s : pc' = [pc EXCEPT ![t] = s]
    BY DEF Step, Continue, do_mount, rmdir_lock, traverse_mounts, traverse_done,
         vfs_create_mount, do_new_mount_fails, lock_place, lock_dead, lock_covered, lock_top,
         get_place_shared, get_place_garbage, get_place_flag, get_place_add, get_place_fails, graft_refused,
         get_root_flag, get_root_add, get_root_fails, mnt_set_mountpoint, commit_tree, attach_mnt,
         put_mountpoint, unlock_mount, dont_mount, rmdir_unlock, Go
  <2>2. QED
    BY <1>1, <2>1
<1>3. path'[u] = path[u]
  <2>1. path' = path \/ \E p : path' = [path EXCEPT ![t] = p]
    BY DEF Step, Continue, do_mount, rmdir_lock, traverse_mounts, traverse_done,
         vfs_create_mount, do_new_mount_fails, lock_place, lock_dead, lock_covered, lock_top,
         get_place_shared, get_place_garbage, get_place_flag, get_place_add, get_place_fails, graft_refused,
         get_root_flag, get_root_add, get_root_fails, mnt_set_mountpoint, commit_tree, attach_mnt,
         put_mountpoint, unlock_mount, dont_mount, rmdir_unlock, Cross, local
  <2>2. QED
    BY <1>1, <2>1
<1>4. new'[u] = new[u]
  <2>1. new' = new \/ \E m : new' = [new EXCEPT ![t] = m]
    BY DEF Step, Continue, do_mount, rmdir_lock, traverse_mounts, traverse_done,
         vfs_create_mount, do_new_mount_fails, lock_place, lock_dead, lock_covered, lock_top,
         get_place_shared, get_place_garbage, get_place_flag, get_place_add, get_place_fails, graft_refused,
         get_root_flag, get_root_add, get_root_fails, mnt_set_mountpoint, commit_tree, attach_mnt,
         put_mountpoint, unlock_mount, dont_mount, rmdir_unlock, local
  <2>2. QED
    BY <1>1, <2>1
<1>5. mp'[u] = mp[u]
  <2>1. mp' = mp \/ \E i : mp' = [mp EXCEPT ![t] = i]
    BY DEF Step, Continue, do_mount, rmdir_lock, traverse_mounts, traverse_done,
         vfs_create_mount, do_new_mount_fails, lock_place, lock_dead, lock_covered, lock_top,
         get_place_shared, get_place_garbage, get_place_flag, get_place_add, get_place_fails, graft_refused,
         get_root_flag, get_root_add, get_root_fails, mnt_set_mountpoint, commit_tree, attach_mnt,
         put_mountpoint, unlock_mount, dont_mount, rmdir_unlock, local
  <2>2. QED
    BY <1>1, <2>1
<1>6. chain'[u] = chain[u]
  <2>1. chain' = chain \/ \E c : chain' = [chain EXCEPT ![t] = c]
    BY DEF Step, Continue, do_mount, rmdir_lock, traverse_mounts, traverse_done,
         vfs_create_mount, do_new_mount_fails, lock_place, lock_dead, lock_covered, lock_top,
         get_place_shared, get_place_garbage, get_place_flag, get_place_add, get_place_fails,
         graft_refused, get_root_flag, get_root_add, get_root_fails, mnt_set_mountpoint,
         commit_tree, attach_mnt, put_mountpoint, unlock_mount, dont_mount, rmdir_unlock, local
  <2>2. QED
    BY <1>1, <2>1
<1>7. QED
  BY <1>2, <1>3, <1>4, <1>5, <1>6

\* The actions that change the tree, the locks and the locals.
LEMMA Writes ==
  ASSUME Tree, NEW t \in Threads, Step(t)
  PROVE  /\ \/ attached' = attached /\ mounted' = mounted /\ lost' = lost
            \/ attach_mnt(t) /\ attached' = attached \cup {new[t]}
         /\ lost' = {} => lost = {}
         /\ commit_tree(t) \/ attach_mnt(t) \/ chain' = chain
         /\ get_place_garbage(t) \/ leaked' = leaked
         /\ \/ cant_mount' = cant_mount
            \/ dont_mount(t) /\ cant_mount' = cant_mount \cup {path[t].dentry}
         /\ do_mount(t) \/ (fresh' = fresh /\ new' = new)
         /\ \/ mnt_parent' = mnt_parent /\ mnt_mountpoint' = mnt_mountpoint
            \/ vfs_create_mount(t) \/ mnt_set_mountpoint(t)
         /\ do_mount(t) \/ rmdir_lock(t) \/ traverse_mounts(t) \/ lock_covered(t) \/ path' = path
         /\ get_place_shared(t) \/ get_place_add(t) \/ put_mountpoint(t) \/ mp' = mp
         /\ get_place_add(t) \/ get_root_add(t) \/ put_mountpoint(t) \/ m_dentry' = m_dentry
         /\ \/ i_rwsem' = i_rwsem
            \/ lock_place(t) /\ inode_lock(t, path[t].dentry)
            \/ rmdir_lock(t) /\ \E d \in Dentries : inode_lock(t, d)
            \/ /\ lock_dead(t) \/ lock_covered(t) \/ get_place_garbage(t) \/ get_place_fails(t)
                  \/ unlock_mount(t) \/ rmdir_unlock(t)
               /\ inode_unlock(path[t].dentry)
<1> USE DEF tree, table, local, attached
<1>1. CASE do_mount(t)
  BY <1>1 DEF do_mount
<1>2. CASE rmdir_lock(t)
  <2>1. \E d \in Dentries : inode_lock(t, d)
    BY <1>2, ConfigAssumption DEF rmdir_lock
  <2>2. QED
    BY <1>2, <2>1 DEF rmdir_lock
<1>3. CASE traverse_mounts(t) \/ traverse_done(t)
  BY <1>3 DEF traverse_mounts, traverse_done
<1>4. CASE vfs_create_mount(t) \/ do_new_mount_fails(t)
  BY <1>4 DEF vfs_create_mount, do_new_mount_fails
<1>5. CASE lock_place(t) \/ lock_dead(t) \/ lock_covered(t) \/ lock_top(t)
  BY <1>5 DEF lock_place, lock_dead, lock_covered, lock_top
<1>6. CASE \/ get_place_shared(t) \/ get_place_garbage(t) \/ get_place_flag(t)
           \/ get_place_add(t) \/ get_place_fails(t)
  BY <1>6 DEF get_place_shared, get_place_garbage, get_place_flag, get_place_add,
       get_place_fails, SharedMountpoint, d_set_mounted, AddMountpoint
<1>7. CASE graft_refused(t) \/ get_root_flag(t) \/ get_root_add(t) \/ get_root_fails(t)
  BY <1>7 DEF graft_refused, get_root_flag, get_root_add, get_root_fails, d_set_mounted,
       AddMountpoint
<1>8. CASE mnt_set_mountpoint(t) \/ commit_tree(t)
  BY <1>8 DEF mnt_set_mountpoint, commit_tree
\* What the insert drops stays attached: it is lost.
<1>12. CASE attach_mnt(t)
  <2>1. chain[t] \subseteq attached
    BY DEF Tree, ChainsAreAttached
  <2>2. attached' = attached \cup {new[t]}
    BY <1>12, <2>1 DEF attach_mnt, Bucket
  <2>3. QED
    BY <1>12, <2>2 DEF attach_mnt
<1>9. CASE put_mountpoint(t) \/ unlock_mount(t)
  BY <1>9 DEF put_mountpoint, unlock_mount
<1>10. CASE dont_mount(t) \/ rmdir_unlock(t)
  BY <1>10 DEF dont_mount, rmdir_unlock
<1>11. QED
  BY <1>1, <1>2, <1>3, <1>4, <1>5, <1>6, <1>7, <1>8, <1>9, <1>10, <1>12 DEF Step, Continue

-----------------------------------------------------------------------------
(* The tree. *)

\* What the assumption says of roots and of the constants that stand for none.
LEMMA Roots ==
  /\ RootMnt \in Mounts /\ RootMnt \notin NewMounts /\ NewMounts \subseteq Mounts
  /\ \A m \in Mounts : RootOf[m] \in Dentries /\ Fs[RootOf[m]] = m
  /\ \A d \in Dentries : Fs[d] \in Mounts
  /\ NoMnt \notin Mounts /\ NoDentry \notin Dentries /\ NoOwner \notin Threads
  /\ NoMp \notin MountpointIds
BY ConfigAssumption DEF NewMounts, NoMp, MountpointIds

\* Where a walk that follows a mount gets to.
LEMMA Crossed ==
  ASSUME Typed, NEW t \in Threads, Cross(t)
  PROVE  \E m \in attached : /\ path' = [path EXCEPT ![t] = [mnt |-> m, dentry |-> RootOf[m]]]
                            /\ path'[t].mnt = m /\ path'[t].dentry = RootOf[m]
                            /\ m \in Mounts /\ RootOf[m] \in Dentries /\ Fs[RootOf[m]] = m
<1>1. PICK m \in attached : path' = [path EXCEPT ![t] = [mnt |-> m, dentry |-> RootOf[m]]]
  BY DEF Cross, Covering, attached
<1>2. path'[t] = [mnt |-> m, dentry |-> RootOf[m]]
  BY <1>1 DEF Typed
<1>3. QED
  BY <1>1, <1>2, Roots DEF Typed, attached

\* The tree's variables and the locals keep their types.
LEMMA NextTyped ==
  ASSUME Tree, NEW t \in Threads, Step(t)
  PROVE  Typed'
<1>1. Typed
  BY DEF Tree
<1>2. pc[t] # "idle" => path[t].dentry \in Dentries
  BY DEF Tree, PathsAreAttached
<1>3. pc[t] \in MountPc => new[t] \in NewMounts
  BY DEF Tree, MadeOnce
<1>4. /\ mounted' \subseteq NewMounts /\ lost' \subseteq NewMounts
      /\ fresh' \subseteq NewMounts
  <2>1. fresh' \subseteq fresh
    BY Writes DEF do_mount
  <2>2. attach_mnt(t) => new[t] \in NewMounts
    BY <1>1, <1>3, Flow DEF MountPc
  <2>3. QED
    BY <1>1, <2>1, <2>2, Writes DEF Typed, attached
<1>5. mnt_parent' \in [Mounts -> Mounts] /\ mnt_mountpoint' \in [Mounts -> Dentries]
  <2>1. CASE vfs_create_mount(t)
    <3>1. new[t] \in Mounts /\ RootOf[new[t]] \in Dentries
      BY <1>1, <1>3, <2>1, Flow, Roots DEF MountPc
    <3>2. QED
      BY <1>1, <2>1, <3>1 DEF vfs_create_mount, Typed
  <2>2. CASE mnt_set_mountpoint(t)
    <3>1. pc[t] = "set_mp"
      BY <1>1, <2>2, Flow
    <3>2. m_dentry[mp[t]] \in Dentries /\ path[t].mnt \in Mounts
      BY <1>1, <3>1, Roots DEF Tree, EntriesAreHeld, EntryPc, PathsAreAttached, Typed
    <3>3. QED
      BY <1>1, <2>2, <3>2 DEF mnt_set_mountpoint, Typed
  <2>3. CASE mnt_parent' = mnt_parent /\ mnt_mountpoint' = mnt_mountpoint
    BY <1>1, <2>3 DEF Typed
  <2>4. QED
    BY <2>1, <2>2, <2>3, Writes
<1>6. m_dentry' \in [MountpointIds -> Dentries \cup {NoDentry}]
  <2>1. CASE get_place_add(t)
    BY <1>1, <1>2, <2>1, Flow DEF get_place_add, AddMountpoint, Typed
  <2>2. CASE get_root_add(t)
    <3>1. RootOf[new[t]] \in Dentries
      BY <1>1, <1>3, <2>2, Flow, Roots DEF MountPc
    <3>2. QED
      BY <1>1, <2>2, <3>1 DEF get_root_add, AddMountpoint, Typed
  <2>3. CASE put_mountpoint(t)
    BY <1>1, <2>3 DEF put_mountpoint, Typed
  <2>4. CASE m_dentry' = m_dentry
    BY <1>1, <2>4 DEF Typed
  <2>5. QED
    BY <2>1, <2>2, <2>3, <2>4, Writes
<1>7. flagged' \subseteq Dentries
  <2>1. CASE get_place_flag(t)
    BY <1>1, <1>2, <2>1, Flow DEF get_place_flag, d_set_mounted, Typed
  <2>2. CASE get_root_flag(t)
    <3>1. RootOf[new[t]] \in Dentries
      BY <1>1, <1>3, <2>2, Flow, Roots DEF MountPc
    <3>2. QED
      BY <1>1, <2>2, <3>1 DEF get_root_flag, d_set_mounted, Typed
  <2>3. CASE ~get_place_flag(t) /\ ~get_root_flag(t)
    <3>1. flagged' \subseteq flagged
      BY <2>3 DEF Step, Continue, do_mount, rmdir_lock, traverse_mounts, traverse_done,
         vfs_create_mount, do_new_mount_fails, lock_place, lock_dead, lock_covered, lock_top,
         get_place_shared, get_place_garbage, get_place_add, get_place_fails, graft_refused,
         get_root_add, get_root_fails, mnt_set_mountpoint, commit_tree, attach_mnt, put_mountpoint,
         unlock_mount, dont_mount, rmdir_unlock, SharedMountpoint, AddMountpoint, table
    <3>2. QED
      BY <1>1, <3>1 DEF Typed
  <2>4. QED
    BY <2>1, <2>2, <2>3
<1>8. cant_mount' \subseteq Dentries
  <2>1. dont_mount(t) => path[t].dentry \in Dentries
    BY <1>1, <1>2, Flow
  <2>2. QED
    BY <1>1, <2>1, Writes DEF Typed
<1>9. i_rwsem' \in [Dentries -> Threads \cup {NoOwner}]
  BY <1>1, Writes DEF inode_lock, inode_unlock, Typed
<1>10. pc' \in [Threads -> {"idle", "undefined"} \cup MountPc \cup RmdirPc]
  <2>1. PICK s : pc' = pc \/ pc' = [pc EXCEPT ![t] = s]
    BY DEF Step, Continue, do_mount, rmdir_lock, traverse_mounts, traverse_done,
         vfs_create_mount, do_new_mount_fails, lock_place, lock_dead, lock_covered, lock_top,
         get_place_shared, get_place_garbage, get_place_flag, get_place_add, get_place_fails, graft_refused,
         get_root_flag, get_root_add, get_root_fails, mnt_set_mountpoint, commit_tree, attach_mnt,
         put_mountpoint, unlock_mount, dont_mount, rmdir_unlock, Go
  <2>2. pc'[t] \in {"idle", "undefined"} \cup MountPc \cup RmdirPc
    BY <1>1, Flow DEF Step, Continue, MountPc, RmdirPc
  <2>3. QED
    BY <1>1, <2>1, <2>2 DEF Typed
<1>11. path' \in [Threads -> [mnt : Mounts \cup {NoMnt}, dentry : Dentries \cup {NoDentry}]]
  <2>1. CASE do_mount(t)
    BY <1>1, <2>1, Roots DEF do_mount, Typed
  <2>2. CASE rmdir_lock(t)
    BY <1>1, <2>2, Roots, ConfigAssumption DEF rmdir_lock, Typed
  <2>3. CASE Cross(t)
    BY <1>1, <2>3, Crossed DEF Typed
  <2>4. CASE path' = path
    BY <1>1, <2>4 DEF Typed
  <2>5. QED
    BY <2>1, <2>2, <2>3, <2>4, Writes DEF traverse_mounts, lock_covered
<1>12. new' \in [Threads -> NewMounts \cup {NoMnt}]
  BY <1>1, Writes DEF do_mount, Typed
<1>13. mp' \in [Threads -> MountpointIds \cup {NoMp}]
  <2>1. CASE get_place_shared(t)
    BY <1>1, <2>1 DEF get_place_shared, get_place_garbage, Typed
  <2>2. CASE get_place_add(t)
    BY <1>1, <1>3, <2>2, Flow DEF get_place_add, MountPc, MountpointIds, Typed
  <2>3. CASE put_mountpoint(t)
    BY <1>1, <2>3 DEF put_mountpoint, Typed
  <2>4. CASE mp' = mp
    BY <1>1, <2>4 DEF Typed
  <2>5. QED
    BY <2>1, <2>2, <2>3, <2>4, Writes
<1>14. chain' \in [Threads -> SUBSET NewMounts]
  <2>1. CASE commit_tree(t)
    <3>1. Bucket(new[t]) \subseteq NewMounts
      BY <1>1 DEF Bucket, Typed
    <3>2. QED
      BY <1>1, <2>1, <3>1 DEF commit_tree, Typed
  <2>2. CASE attach_mnt(t)
    BY <1>1, <2>2 DEF attach_mnt, Typed
  <2>3. CASE chain' = chain
    BY <1>1, <2>3 DEF Typed
  <2>4. QED
    BY <2>1, <2>2, <2>3, Writes
<1>15. QED
  BY <1>4, <1>5, <1>6, <1>7, <1>8, <1>9, <1>10, <1>11, <1>12, <1>13, <1>14 DEF Typed

\* A mount that was attached stays so, if only among the lost.
LEMMA NextChainsAreAttached ==
  ASSUME Tree, NEW t \in Threads, Step(t)
  PROVE  ChainsAreAttached'
<1>1. Typed /\ ChainsAreAttached
  BY DEF Tree
<1>2. attached \subseteq attached'
  BY Writes
<1>3. chain'[t] \subseteq attached'
  <2>1. CASE commit_tree(t)
    <3>1. chain'[t] = Bucket(new[t])
      BY <1>1, <2>1 DEF commit_tree, Typed
    <3>2. QED
      BY <1>2, <3>1 DEF Bucket, attached
  <2>2. CASE attach_mnt(t)
    BY <1>1, <2>2 DEF attach_mnt, Typed
  <2>3. CASE chain' = chain
    BY <1>1, <1>2, <2>3 DEF ChainsAreAttached
  <2>4. QED
    BY <2>1, <2>2, <2>3, Writes
<1>4. QED
  BY <1>1, <1>2, <1>3, OthersAreStill DEF ChainsAreAttached

\* A walk goes by the roots of attached mounts, and no mount is ever detached.
LEMMA NextPathsAreAttached ==
  ASSUME Tree, NEW t \in Threads, Step(t)
  PROVE  PathsAreAttached'
<1>1. Typed /\ attached \subseteq attached' /\ PathsAreAttached
  BY Writes DEF Tree
<1> SUFFICES ASSUME NEW u \in Threads, pc'[u] # "idle"
             PROVE  /\ path'[u].dentry \in Dentries
                    /\ path'[u].mnt = Fs[path'[u].dentry]
                    /\ path'[u].mnt \in attached' \cup {RootMnt}
  BY DEF PathsAreAttached
<1>2. CASE pc[u] # "idle" /\ path'[u] = path[u]
  BY <1>1, <1>2 DEF PathsAreAttached
<1>3. CASE u # t
  BY <1>1, <1>2, <1>3, OthersAreStill
<1>4. CASE u = t /\ do_mount(t)
  <2>1. PICK d \in Dentries : /\ Fs[d] \in attached \cup {RootMnt}
                              /\ path' = [path EXCEPT ![t] = [mnt |-> Fs[d], dentry |-> d]]
    BY <1>4 DEF do_mount, attached
  <2>2. path'[t] = [mnt |-> Fs[d], dentry |-> d]
    BY <1>1, <2>1 DEF Typed
  <2>3. QED
    BY <1>1, <1>4, <2>1, <2>2
<1>5. CASE u = t /\ rmdir_lock(t)
  <2>1. PICK d \in Dentries : /\ Fs[d] \in attached \cup {RootMnt}
                              /\ path' = [path EXCEPT ![t] = [mnt |-> Fs[d], dentry |-> d]]
    BY <1>5, ConfigAssumption DEF rmdir_lock, attached
  <2>2. path'[t] = [mnt |-> Fs[d], dentry |-> d]
    BY <1>1, <2>1 DEF Typed
  <2>3. QED
    BY <1>1, <1>5, <2>1, <2>2
<1>6. CASE u = t /\ Cross(t)
  BY <1>1, <1>6, Crossed
<1>7. CASE u = t /\ path' = path /\ ~do_mount(t) /\ ~rmdir_lock(t)
  <2>1. pc[t] # "idle"
    BY <1>1, <1>7, Flow DEF Step, Continue
  <2>2. QED
    BY <1>2, <1>7, <2>1
<1>8. QED
  BY <1>3, <1>4, <1>5, <1>6, <1>7, Writes DEF traverse_mounts, lock_covered

\* do_mount takes a mount nobody has; only its own commit puts it in the tree.
LEMMA NextMadeOnce ==
  ASSUME Tree, NEW t \in Threads, Step(t)
  PROVE  MadeOnce'
<1>1. Typed /\ MadeOnce
  BY DEF Tree
<1>2. CASE do_mount(t)
  <2>1. PICK m \in fresh : /\ fresh' = fresh \ {m} /\ new' = [new EXCEPT ![t] = m]
                           /\ attached' = attached
    BY <1>2 DEF do_mount, tree, attached
  <2>2. m \in NewMounts /\ new'[t] = m /\ \A u \in Threads : u # t => new'[u] = new[u]
    BY <1>1, <2>1 DEF Typed
  <2>3. \A u \in Threads : u # t => pc'[u] = pc[u]
    BY <1>1, OthersAreStill
  <2>4. QED
    BY <1>1, <2>1, <2>2, <2>3 DEF MadeOnce
<1>3. CASE fresh' = fresh /\ new' = new /\ ~do_mount(t)
  <2>1. \A u \in Threads : pc'[u] \in MountPc => pc[u] \in MountPc
    <3>1. pc'[t] \in MountPc => pc[t] \in MountPc
      BY <1>1, <1>3, Flow DEF Step, Continue, MountPc
    <3>2. QED
      BY <1>1, <3>1, OthersAreStill
  <2>2. \A u \in Threads : pc'[u] \in MountPc \ {"put_mp", "unlock"} =>
                             pc[u] \in MountPc \ {"put_mp", "unlock"}
    <3>1. pc'[t] \in MountPc \ {"put_mp", "unlock"} => pc[t] \in MountPc \ {"put_mp", "unlock"}
      BY <1>1, <1>3, Flow DEF Step, Continue, MountPc
    <3>2. QED
      BY <1>1, <3>1, OthersAreStill
  <2>3. CASE attached' = attached
    BY <1>1, <1>3, <2>1, <2>2, <2>3 DEF MadeOnce
  <2>4. CASE attach_mnt(t) /\ attached' = attached \cup {new[t]}
    <3>1. pc[t] = "insert" /\ pc'[t] = "put_mp"
      BY <1>1, <2>4, Flow
    <3>2. new[t] \in NewMounts /\ new[t] \notin fresh /\ new[t] # NoMnt
      BY <1>1, <3>1, Roots DEF MadeOnce, MountPc
    <3>3. \A u \in Threads : pc'[u] \in MountPc \ {"put_mp", "unlock"} => new[u] # new[t]
      BY <1>1, <3>1, <3>2 DEF MadeOnce
    <3>4. QED
      BY <1>1, <1>3, <2>1, <2>2, <2>4, <3>2, <3>3 DEF MadeOnce
  <2>5. QED
    BY <2>3, <2>4, Writes
<1>4. QED
  BY <1>2, <1>3, Writes

\* No two calls hold the same place.
LEMMA OneHolder ==
  ASSUME Tree, NEW t \in Threads, NEW u \in Threads,
         pc[t] \in LockedPc, pc[u] \in LockedPc, path[t].dentry = path[u].dentry
  PROVE  t = u
BY DEF Tree, PlacesAreLocked

\* Inode locks go to who finds them free and are given back by who has them.
LEMMA NextPlacesAreLocked ==
  ASSUME Tree, NEW t \in Threads, Step(t)
  PROVE  PlacesAreLocked'
<1>1. /\ Typed /\ PlacesAreLocked /\ PathsAreAttached /\ NoOwner \notin Threads
      /\ i_rwsem \in [Dentries -> Threads \cup {NoOwner}]
  BY Roots DEF Tree, Typed
<1> SUFFICES ASSUME NEW u \in Threads, pc'[u] \in LockedPc
             PROVE  i_rwsem'[path'[u].dentry] = u
  BY DEF PlacesAreLocked
<1>2. pc[u] \in LockedPc => i_rwsem[path[u].dentry] = u /\ path[u].dentry \in Dentries
  BY <1>1 DEF PlacesAreLocked, PathsAreAttached, LockedPc
<1>3. CASE u # t
  <2>1. pc[u] \in LockedPc /\ path'[u] = path[u]
    BY <1>1, <1>3, OthersAreStill
  <2>2. i_rwsem[path[u].dentry] = u /\ path[u].dentry \in Dentries
    BY <1>2, <2>1
  <2>3. ASSUME NEW d, inode_lock(t, d)
        PROVE  i_rwsem'[path[u].dentry] = u
    BY <1>1, <2>2, <2>3 DEF inode_lock
  <2>4. CASE /\ lock_dead(t) \/ lock_covered(t) \/ get_place_garbage(t) \/ get_place_fails(t)
                \/ unlock_mount(t) \/ rmdir_unlock(t)
             /\ inode_unlock(path[t].dentry)
    <3>1. pc[t] \in LockedPc
      BY <1>1, <2>4, Flow DEF LockedPc
    <3>2. path[t].dentry # path[u].dentry
      BY <1>3, <2>1, <3>1, OneHolder
    <3>3. QED
      BY <1>1, <2>1, <2>2, <2>4, <3>2 DEF inode_unlock
  <2>5. QED
    BY <2>1, <2>2, <2>3, <2>4, Writes
<1>4. CASE u = t /\ lock_place(t)
  <2>1. path' = path /\ inode_lock(t, path[t].dentry) /\ path[t].dentry \in Dentries
    BY <1>1, <1>4, Flow DEF lock_place, local, PathsAreAttached
  <2>2. QED
    BY <1>1, <1>4, <2>1 DEF inode_lock
<1>5. CASE u = t /\ rmdir_lock(t)
  <2>1. PICK d \in Dentries : /\ inode_lock(t, d)
                              /\ path' = [path EXCEPT ![t] = [mnt |-> Fs[d], dentry |-> d]]
    BY <1>5, ConfigAssumption DEF rmdir_lock
  <2>2. path'[t] = [mnt |-> Fs[d], dentry |-> d]
    BY <1>1, <2>1 DEF Typed
  <2>3. QED
    BY <1>1, <1>5, <2>1, <2>2 DEF inode_lock
<1>6. CASE u = t /\ ~lock_place(t) /\ ~rmdir_lock(t)
  <2>1. /\ pc[t] \in LockedPc
        /\ ~do_mount(t) /\ ~traverse_mounts(t) /\ ~lock_covered(t)
        /\ ~lock_dead(t) /\ ~get_place_garbage(t) /\ ~get_place_fails(t) /\ ~unlock_mount(t) /\ ~rmdir_unlock(t)
    BY <1>1, <1>6, Flow DEF Step, Continue, LockedPc
  <2>2. path' = path /\ i_rwsem' = i_rwsem
    BY <1>6, <2>1, Writes
  <2>3. QED
    BY <1>2, <1>6, <2>1, <2>2
<1>7. QED
  BY <1>3, <1>4, <1>5, <1>6

\* A mount in the tree stays where it is; one comes in where its call stands.
LEMMA MountsStay ==
  ASSUME Tree, NEW t \in Threads, Step(t)
  PROVE  /\ \A m \in attached : /\ mnt_parent'[m] = mnt_parent[m]
                               /\ mnt_mountpoint'[m] = mnt_mountpoint[m]
         /\ \/ attached' = attached /\ mounted' = mounted /\ lost' = lost
            \/ /\ attach_mnt(t) /\ pc[t] = "insert" /\ new[t] \in NewMounts
               /\ new[t] \notin attached /\ attached' = attached \cup {new[t]}
               /\ mnt_parent' = mnt_parent /\ mnt_mountpoint' = mnt_mountpoint
               /\ mnt_parent[new[t]] = path[t].mnt
               /\ mnt_mountpoint[new[t]] = path[t].dentry
<1>1. Typed /\ MadeOnce /\ GraftsAreAllowed
  BY DEF Tree
<1>2. \A m \in attached : mnt_parent'[m] = mnt_parent[m] /\ mnt_mountpoint'[m] = mnt_mountpoint[m]
  <2>1. CASE vfs_create_mount(t) \/ mnt_set_mountpoint(t)
    <3>1. new[t] \notin attached
      BY <1>1, <2>1, Flow DEF MadeOnce, MountPc
    <3>2. \E x, y : /\ mnt_parent' = [mnt_parent EXCEPT ![new[t]] = x]
                    /\ mnt_mountpoint' = [mnt_mountpoint EXCEPT ![new[t]] = y]
      BY <2>1 DEF vfs_create_mount, mnt_set_mountpoint
    <3>3. \A m \in attached : m \in Mounts
      BY <1>1, Roots DEF Typed, attached
    <3>4. QED
      BY <1>1, <3>1, <3>2, <3>3 DEF Typed
  <2>2. QED
    BY <2>1, Writes
<1>3. CASE attach_mnt(t)
  <2>1. pc[t] = "insert"
    BY <1>1, <1>3, Flow
  <2>2. new[t] \in NewMounts /\ new[t] \notin attached
    BY <1>1, <2>1 DEF MadeOnce, MountPc
  <2>3. mnt_parent[new[t]] = path[t].mnt /\ mnt_mountpoint[new[t]] = path[t].dentry
    BY <1>1, <2>1 DEF GraftsAreAllowed, InsertPc
  <2>4. QED
    BY <1>2, <1>3, <2>1, <2>2, <2>3, Writes DEF attach_mnt
<1>4. QED
  BY <1>2, <1>3, Writes

\* Who removes a directory or mounts on it holds its inode lock.
LEMMA NextPlacesStayFree ==
  ASSUME Tree, NEW t \in Threads, Step(t)
  PROVE  PlacesStayFree'
<1> DEFINE FreePc == {"get_mp", "add_mp", "graft", "add_root", "set_mp"} \cup InsertPc
<1>1. /\ Typed /\ PlacesStayFree /\ PathsAreAttached /\ ParentsAreAttached
      /\ \A v \in Threads : pc[v] \in FreePc => pc[v] \in LockedPc
  BY DEF Tree, LockedPc, InsertPc
<1> SUFFICES ASSUME NEW u \in Threads, pc'[u] \in FreePc
             PROVE  /\ path'[u].dentry \notin cant_mount'
                    /\ lost' = {} => \A m \in attached' : mnt_mountpoint'[m] # path'[u].dentry
  BY DEF PlacesStayFree
<1>2. CASE u # t
  <2>1. pc[u] \in FreePc /\ path'[u] = path[u]
    BY <1>1, <1>2, OthersAreStill
  <2>2. /\ path[u].dentry \notin cant_mount
        /\ lost = {} => \A m \in attached : mnt_mountpoint[m] # path[u].dentry
    BY <1>1, <2>1 DEF PlacesStayFree
  <2>3. dont_mount(t) \/ attach_mnt(t) => path[t].dentry # path[u].dentry
    <3>1. dont_mount(t) \/ attach_mnt(t) => pc[t] \in LockedPc
      BY <1>1, Flow DEF LockedPc
    <3>2. QED
      BY <1>1, <1>2, <2>1, <3>1, OneHolder
  <2>4. path[u].dentry \notin cant_mount'
    BY <2>2, <2>3, Writes
  <2>5. lost' = {} => \A m \in attached' : mnt_mountpoint'[m] # path[u].dentry
    BY <2>2, <2>3, MountsStay, Writes
  <2>6. QED
    BY <2>1, <2>4, <2>5
<1>3. CASE u = t /\ lock_top(t)
  <2>1. /\ path[t].dentry \notin cant_mount /\ Covering(path[t]) = {}
        /\ path' = path /\ cant_mount' = cant_mount /\ attached' = attached /\ lost' = lost
        /\ mnt_mountpoint' = mnt_mountpoint
    BY <1>3 DEF lock_top, local, tree, attached
  <2>2. path[t].mnt = Fs[path[t].dentry]
    BY <1>1, <1>3, Flow DEF PathsAreAttached
  <2>3. lost = {} => \A m \in attached : mnt_mountpoint[m] # path[t].dentry
    BY <1>1, <2>1, <2>2 DEF Covering, ParentsAreAttached, attached
  <2>4. QED
    BY <1>3, <2>1, <2>3
<1>4. CASE u = t /\ ~lock_top(t)
  <2>1. /\ pc[t] \in FreePc
        /\ ~do_mount(t) /\ ~rmdir_lock(t) /\ ~traverse_mounts(t) /\ ~lock_covered(t)
        /\ ~dont_mount(t) /\ ~attach_mnt(t)
    BY <1>1, <1>4, Flow DEF Step, Continue, InsertPc
  <2>2. path' = path /\ cant_mount' = cant_mount /\ attached' = attached /\ lost' = lost
    BY <2>1, Writes
  <2>3. QED
    BY <1>1, <1>4, <2>1, <2>2, MountsStay DEF PlacesStayFree
<1>5. QED
  BY <1>2, <1>3, <1>4

\* What becomes of one entry of the table.
LEMMA WritesOfEntry ==
  ASSUME Tree, NEW t \in Threads, Step(t), NEW i \in MountpointIds
  PROVE  \/ m_dentry'[i] = m_dentry[i]
         \/ /\ get_place_add(t) /\ i = <<new[t], "place">> /\ m_dentry[i] = NoDentry
            /\ m_dentry'[i] = path[t].dentry
         \/ /\ get_root_add(t) /\ i = <<new[t], "root">> /\ m_dentry[i] = NoDentry
            /\ m_dentry'[i] = RootOf[new[t]]
         \/ /\ put_mountpoint(t) /\ i = mp[t] /\ m_dentry[i] = path[t].dentry
            /\ m_count[i] = 1 /\ m_dentry'[i] = NoDentry
<1>1. /\ Typed /\ EntriesAreAddedOnce /\ EntriesAreHeld
      /\ m_dentry \in [MountpointIds -> Dentries \cup {NoDentry}]
  BY DEF Tree, Typed
<1>2. CASE get_place_add(t)
  <2>1. m_dentry[<<new[t], "place">>] = NoDentry
    BY <1>1, <1>2, Flow DEF EntriesAreAddedOnce
  <2>2. QED
    BY <1>1, <1>2, <2>1 DEF get_place_add, AddMountpoint
<1>3. CASE get_root_add(t)
  <2>1. m_dentry[<<new[t], "root">>] = NoDentry
    BY <1>1, <1>3, Flow DEF EntriesAreAddedOnce
  <2>2. QED
    BY <1>1, <1>3, <2>1 DEF get_root_add, AddMountpoint
<1>4. CASE put_mountpoint(t)
  <2>1. m_dentry[mp[t]] = path[t].dentry
    BY <1>1, <1>4, Flow DEF EntriesAreHeld, EntryPc
  <2>2. QED
    BY <1>1, <1>4, <2>1 DEF put_mountpoint
<1>5. QED
  BY <1>2, <1>3, <1>4, Writes

\* Only a call at the same place could take an entry away: it waits.
LEMMA NextEntriesAreHeld ==
  ASSUME Tree, NEW t \in Threads, Step(t)
  PROVE  EntriesAreHeld'
<1>1. /\ Typed /\ EntriesAreHeld /\ PathsAreAttached /\ NoDentry \notin Dentries
      /\ NoMp \notin MountpointIds
  BY Roots DEF Tree
<1>2. ASSUME NEW u \in Threads, u # t
      PROVE  /\ mp'[u] # NoMp <=> pc'[u] \in EntryPc
             /\ mp'[u] # NoMp => m_dentry'[mp'[u]] = path'[u].dentry
  <2>1. pc'[u] = pc[u] /\ mp'[u] = mp[u] /\ path'[u] = path[u]
    BY <1>1, <1>2, OthersAreStill
  <2>2. ASSUME mp[u] # NoMp
        PROVE  m_dentry'[mp[u]] = path[u].dentry
    <3>1. /\ pc[u] \in EntryPc /\ m_dentry[mp[u]] = path[u].dentry
          /\ mp[u] \in MountpointIds /\ path[u].dentry # NoDentry
      BY <1>1, <2>2 DEF EntriesAreHeld, PathsAreAttached, EntryPc, Typed
    <3>2. ~(put_mountpoint(t) /\ path[t].dentry = path[u].dentry)
      BY <1>1, <1>2, <3>1, Flow, OneHolder DEF EntryPc, LockedPc
    <3>3. QED
      BY <3>1, <3>2, WritesOfEntry
  <2>3. QED
    BY <1>1, <2>1, <2>2 DEF EntriesAreHeld
<1>3. /\ mp'[t] # NoMp <=> pc'[t] \in EntryPc
      /\ mp'[t] # NoMp => m_dentry'[mp'[t]] = path'[t].dentry
  <2>1. CASE get_place_shared(t)
    <3>1. PICK i \in MountpointIds : /\ SharedMountpoint(path[t].dentry, i)
                                     /\ mp' = [mp EXCEPT ![t] = i] /\ path' = path
      BY <2>1 DEF get_place_shared
    <3>2. mp'[t] = i /\ m_dentry[i] = path[t].dentry /\ m_dentry' = m_dentry
      BY <1>1, <3>1 DEF SharedMountpoint, MountpointsOf, Typed
    <3>3. QED
      BY <1>1, <2>1, <3>1, <3>2, Flow DEF EntryPc
  <2>2. CASE get_place_add(t)
    <3>1. /\ mp' = [mp EXCEPT ![t] = <<new[t], "place">>] /\ path' = path
          /\ m_dentry' = [m_dentry EXCEPT ![<<new[t], "place">>] = path[t].dentry]
      BY <2>2 DEF get_place_add, AddMountpoint
    <3>2. <<new[t], "place">> \in MountpointIds
      BY <1>1, <2>2, Flow DEF Tree, MadeOnce, MountPc, MountpointIds
    <3>3. QED
      BY <1>1, <2>2, <3>1, <3>2, Flow DEF EntryPc, Typed
  <2>3. CASE put_mountpoint(t)
    <3>1. mp'[t] = NoMp
      BY <1>1, <2>3 DEF put_mountpoint, Typed
    <3>2. QED
      BY <1>1, <2>3, <3>1, Flow DEF EntryPc
  <2>4. CASE mp' = mp /\ ~get_place_shared(t) /\ ~get_place_add(t) /\ ~put_mountpoint(t)
    <3>1. pc'[t] \in EntryPc <=> pc[t] \in EntryPc
      BY <1>1, <2>4, Flow DEF Step, Continue, EntryPc
    <3>2. ASSUME mp[t] # NoMp
          PROVE  m_dentry'[mp[t]] = path'[t].dentry
      <4>1. /\ pc[t] \in EntryPc /\ m_dentry[mp[t]] = path[t].dentry
            /\ mp[t] \in MountpointIds /\ path[t].dentry # NoDentry
        BY <1>1, <3>2 DEF EntriesAreHeld, PathsAreAttached, EntryPc, Typed
      <4>2. ~do_mount(t) /\ ~rmdir_lock(t) /\ ~traverse_mounts(t) /\ ~lock_covered(t)
        BY <1>1, <4>1, Flow DEF EntryPc
      <4>3. path' = path
        BY <4>2, Writes
      <4>4. QED
        BY <2>4, <4>1, <4>3, WritesOfEntry
    <3>3. QED
      BY <1>1, <2>4, <3>1, <3>2 DEF EntriesAreHeld
  <2>5. QED
    BY <2>1, <2>2, <2>3, <2>4, Writes
<1>4. QED
  BY <1>2, <1>3 DEF EntriesAreHeld

\* The entries of a mount are its own, and each is added by one step.
LEMMA NextEntriesAreAddedOnce ==
  ASSUME Tree, NEW t \in Threads, Step(t)
  PROVE  EntriesAreAddedOnce'
<1>1. Typed /\ MadeOnce /\ EntriesAreAddedOnce /\ NoMnt \notin NewMounts
  BY Roots DEF Tree, NewMounts
<1> DEFINE BeforePlace == {"traverse", "create", "lock", "locked", "get_mp", "add_mp"}
           BeforeRoot == BeforePlace \cup {"graft", "add_root"}
\* An entry that is not in the table: who adds it.
<1>2. ASSUME NEW m \in NewMounts, NEW k \in {"place", "root"},
             m_dentry[<<m, k>>] = NoDentry, m_dentry'[<<m, k>>] # NoDentry
      PROVE  /\ m = new[t]
             /\ (k = "place" /\ get_place_add(t)) \/ (k = "root" /\ get_root_add(t))
  <2>1. <<m, k>> \in MountpointIds
    BY DEF MountpointIds
  <2>2. QED
    BY <1>2, <2>1, WritesOfEntry
<1>3. ASSUME NEW m \in fresh', NEW k \in {"place", "root"}
      PROVE  m_dentry'[<<m, k>>] = NoDentry
  <2>1. m \in fresh
    BY Writes DEF do_mount
  <2>2. m \in NewMounts /\ m # new[t] /\ m_dentry[<<m, k>>] = NoDentry
    BY <1>1, <2>1 DEF Typed, MadeOnce, EntriesAreAddedOnce
  <2>3. QED
    BY <1>2, <2>2
\* A call that is still before the step that adds the entry.
<1>4. ASSUME NEW u \in Threads, pc'[u] \in BeforeRoot
      PROVE  /\ new'[u] \in NewMounts
             /\ pc'[u] \in BeforePlace => m_dentry[<<new'[u], "place">>] = NoDentry
             /\ m_dentry[<<new'[u], "root">>] = NoDentry
  <2>1. CASE pc[u] \in BeforeRoot /\ (pc'[u] \in BeforePlace => pc[u] \in BeforePlace) /\ new'[u] = new[u]
    BY <1>1, <2>1 DEF EntriesAreAddedOnce, MadeOnce, MountPc
  <2>2. CASE u # t
    BY <1>1, <1>4, <2>1, <2>2, OthersAreStill
  <2>3. CASE u = t /\ do_mount(t)
    <3>1. PICK m \in fresh : new' = [new EXCEPT ![t] = m]
      BY <2>3 DEF do_mount
    <3>2. new'[t] = m /\ m \in NewMounts
      BY <1>1, <3>1 DEF Typed
    <3>3. QED
      BY <1>1, <2>3, <3>1, <3>2 DEF EntriesAreAddedOnce
  <2>4. CASE u = t /\ ~do_mount(t)
    <3>1. pc[t] \in BeforeRoot /\ (pc'[t] \in BeforePlace => pc[t] \in BeforePlace)
      BY <1>1, <1>4, <2>4, Flow DEF Step, Continue
    <3>2. new' = new
      BY <2>4, Writes
    <3>3. QED
      BY <2>1, <2>4, <3>1, <3>2
  <2>5. QED
    BY <2>2, <2>3, <2>4
<1>5. ASSUME NEW u \in Threads, pc'[u] \in BeforeRoot, new'[u] = new[t],
             get_place_add(t) \/ get_root_add(t)
      PROVE  u = t
  <2>1. new' = new
    BY <1>1, <1>5, Flow, Writes
  <2>2. new[u] = new[t] /\ new[u] # NoMnt
    BY <1>1, <1>4, <1>5, <2>1
  <2>3. QED
    BY <1>1, <2>2 DEF MadeOnce
<1>6. ASSUME NEW u \in Threads, pc'[u] \in BeforePlace
      PROVE  m_dentry'[<<new'[u], "place">>] = NoDentry
  <2>1. ~(get_place_add(t) /\ new'[u] = new[t])
    BY <1>1, <1>5, <1>6, Flow
  <2>2. new'[u] \in NewMounts /\ m_dentry[<<new'[u], "place">>] = NoDentry
    BY <1>4, <1>6
  <2>3. QED
    BY <1>2, <2>1, <2>2
<1>7. ASSUME NEW u \in Threads, pc'[u] \in BeforeRoot
      PROVE  m_dentry'[<<new'[u], "root">>] = NoDentry
  <2>1. ~(get_root_add(t) /\ new'[u] = new[t])
    BY <1>1, <1>5, <1>7, Flow
  <2>2. new'[u] \in NewMounts /\ m_dentry[<<new'[u], "root">>] = NoDentry
    BY <1>4, <1>7
  <2>3. QED
    BY <1>2, <2>1, <2>2
<1>8. QED
  BY <1>3, <1>6, <1>7 DEF EntriesAreAddedOnce

\* mnt_set_mountpoint writes the place the call holds.
LEMMA NextGraftsAreAllowed ==
  ASSUME Tree, NEW t \in Threads, Step(t)
  PROVE  GraftsAreAllowed'
<1>1. Typed /\ MadeOnce /\ EntriesAreHeld /\ GraftsAreAllowed /\ NoMnt \notin NewMounts
  BY Roots DEF Tree, NewMounts
<1> DEFINE GraftPc == {"add_root", "set_mp"} \cup InsertPc
           Allowed(u) == /\ new[u] \notin NoUser
                         /\ (path[u].dentry \in IsDir) = (RootOf[new[u]] \in IsDir)
<1>2. ASSUME NEW u \in Threads, u # t, pc'[u] \in GraftPc
      PROVE  /\ pc'[u] = pc[u] /\ new'[u] = new[u] /\ path'[u] = path[u] /\ Allowed(u)
             /\ new[u] \in NewMounts /\ new[u] # new[t]
  <2>1. pc'[u] = pc[u] /\ new'[u] = new[u] /\ path'[u] = path[u]
    BY <1>1, <1>2, OthersAreStill
  <2>2. QED
    BY <1>1, <1>2, <2>1 DEF GraftsAreAllowed, MadeOnce, MountPc, InsertPc
<1>3. ASSUME pc'[t] \in GraftPc
      PROVE  path' = path /\ new' = new /\ Allowed(t)
  <2>1. get_root_flag(t) \/ get_root_add(t) \/ mnt_set_mountpoint(t) \/ commit_tree(t)
    BY <1>1, <1>3, Flow DEF Step, Continue, InsertPc
  <2>2. path' = path /\ new' = new
    BY <2>1 DEF get_root_flag, get_root_add, mnt_set_mountpoint, commit_tree, local
  <2>3. CASE get_root_flag(t)
    <3>1. m_dentry[mp[t]] = path[t].dentry
      BY <1>1, <2>3, Flow DEF EntriesAreHeld, EntryPc
    <3>2. QED
      BY <2>2, <2>3, <3>1 DEF get_root_flag, MayGraft
  <2>4. CASE get_root_add(t) \/ mnt_set_mountpoint(t) \/ commit_tree(t)
    BY <1>1, <2>2, <2>4, Flow DEF GraftsAreAllowed, InsertPc
  <2>5. QED
    BY <2>1, <2>3, <2>4, <2>2
<1>4. ASSUME NEW u \in Threads, pc'[u] \in InsertPc
      PROVE  mnt_parent'[new'[u]] = path'[u].mnt /\ mnt_mountpoint'[new'[u]] = path'[u].dentry
  <2>1. CASE u # t
    <3>1. mnt_parent[new[u]] = path[u].mnt /\ mnt_mountpoint[new[u]] = path[u].dentry
      BY <1>1, <1>2, <1>4, <2>1 DEF GraftsAreAllowed
    <3>2. \/ mnt_parent' = mnt_parent /\ mnt_mountpoint' = mnt_mountpoint
          \/ \E x, y : /\ mnt_parent' = [mnt_parent EXCEPT ![new[t]] = x]
                       /\ mnt_mountpoint' = [mnt_mountpoint EXCEPT ![new[t]] = y]
      BY Writes DEF vfs_create_mount, mnt_set_mountpoint
    <3>3. new[u] \in Mounts /\ new[u] # new[t]
      BY <1>2, <1>4, <2>1, Roots
    <3>4. mnt_parent'[new[u]] = mnt_parent[new[u]] /\ mnt_mountpoint'[new[u]] = mnt_mountpoint[new[u]]
      BY <1>1, <3>2, <3>3 DEF Typed
    <3>5. QED
      BY <1>2, <1>4, <2>1, <3>1, <3>4
  <2>2. CASE u = t /\ pc[t] = "commit"
    <3>1. commit_tree(t)
      BY <1>1, <2>2, Flow DEF Step, Continue
    <3>2. QED
      BY <1>1, <2>2, <3>1 DEF commit_tree, tree, GraftsAreAllowed, InsertPc
  <2>3. CASE u = t /\ pc[t] # "commit"
    <3>1. mnt_set_mountpoint(t)
      BY <1>1, <1>4, <2>3, Flow DEF Step, Continue, InsertPc
    <3>2. /\ m_dentry[mp[t]] = path[t].dentry /\ new[t] \in Mounts
          /\ path' = path /\ new' = new
          /\ mnt_parent' = [mnt_parent EXCEPT ![new[t]] = path[t].mnt]
          /\ mnt_mountpoint' = [mnt_mountpoint EXCEPT ![new[t]] = m_dentry[mp[t]]]
      BY <1>1, <3>1, Flow, Roots
         DEF mnt_set_mountpoint, local, EntriesAreHeld, EntryPc, MadeOnce, MountPc
    <3>3. QED
      BY <1>1, <2>3, <3>2 DEF Typed
  <2>4. QED
    BY <2>1, <2>2, <2>3
<1>5. QED
  BY <1>2, <1>3, <1>4 DEF GraftsAreAllowed

\* rmdir looks at the directory under its inode lock.
LEMMA NextRemovalsAreAllowed ==
  ASSUME Tree, NEW t \in Threads, Step(t)
  PROVE  RemovalsAreAllowed'
<1>1. Typed /\ RemovalsAreAllowed
  BY DEF Tree
<1> SUFFICES ASSUME NEW u \in Threads, pc'[u] = "rmdir"
             PROVE  /\ path'[u].dentry \in IsDir \ cant_mount'
                    /\ \A m \in Mounts : path'[u].dentry # RootOf[m]
  BY DEF RemovalsAreAllowed
<1>2. CASE u # t
  <2>1. pc[u] = "rmdir" /\ path'[u] = path[u]
    BY <1>1, <1>2, OthersAreStill
  <2>2. dont_mount(t) => path[t].dentry # path[u].dentry
    BY <1>1, <1>2, <2>1, Flow, OneHolder DEF LockedPc
  <2>3. QED
    BY <1>1, <2>1, <2>2, Writes DEF RemovalsAreAllowed
<1>3. CASE u = t
  <2>1. rmdir_lock(t)
    BY <1>1, <1>3, Flow DEF Step, Continue
  <2>2. PICK d \in IsDir \ (cant_mount \cup {RootOf[m] : m \in Mounts}) :
          path' = [path EXCEPT ![t] = [mnt |-> Fs[d], dentry |-> d]] /\ cant_mount' = cant_mount
    BY <2>1 DEF rmdir_lock
  <2>3. path'[t] = [mnt |-> Fs[d], dentry |-> d]
    BY <1>1, <2>2 DEF Typed
  <2>4. QED
    BY <1>3, <2>2, <2>3
<1>4. QED
  BY <1>2, <1>3

\* The walk ended on a dentry of the mount it is seen through.
LEMMA NextParentsAreAttached ==
  ASSUME Tree, NEW t \in Threads, Step(t)
  PROVE  ParentsAreAttached'
BY MountsStay DEF Tree, ParentsAreAttached, PathsAreAttached

LEMMA InitTree == Init => Tree
<1> SUFFICES ASSUME Init
             PROVE  Tree
  OBVIOUS
<1>1. Typed
  BY ConfigAssumption DEF Init, Typed, NewMounts, MountpointIds, NoMp
<1>2. PathsAreAttached /\ PlacesAreLocked /\ PlacesStayFree /\ GraftsAreAllowed
      /\ RemovalsAreAllowed /\ ParentsAreAttached /\ ChainsAreAttached
  BY DEF Init, PathsAreAttached, PlacesAreLocked, PlacesStayFree, GraftsAreAllowed,
       RemovalsAreAllowed, ParentsAreAttached, ChainsAreAttached, LockedPc, InsertPc, attached
<1>3. MadeOnce
  BY Roots DEF Init, MadeOnce, MountPc, attached
<1>4. EntriesAreHeld /\ EntriesAreAddedOnce
  BY DEF Init, EntriesAreHeld, EntriesAreAddedOnce, EntryPc, MountpointIds
<1>5. QED
  BY <1>1, <1>2, <1>3, <1>4 DEF Tree

LEMMA NextTree == Tree /\ [Next]_vars => Tree'
<1> SUFFICES ASSUME Tree, [Next]_vars
             PROVE  Tree'
  OBVIOUS
<1>1. CASE Next
  <2>1. PICK t \in Threads : Step(t)
    BY <1>1 DEF Next, Step
  <2>2. QED
    BY <2>1, NextTyped, NextChainsAreAttached, NextPathsAreAttached, NextMadeOnce, NextPlacesAreLocked,
       NextPlacesStayFree, NextEntriesAreHeld, NextEntriesAreAddedOnce,
       NextGraftsAreAllowed, NextRemovalsAreAllowed, NextParentsAreAttached DEF Tree
<1>2. CASE UNCHANGED vars
  <2>1. /\ fresh' = fresh /\ mounted' = mounted /\ lost' = lost /\ attached' = attached
        /\ mnt_parent' = mnt_parent /\ mnt_mountpoint' = mnt_mountpoint
        /\ m_dentry' = m_dentry /\ flagged' = flagged /\ cant_mount' = cant_mount
        /\ i_rwsem' = i_rwsem /\ pc' = pc /\ path' = path /\ new' = new /\ mp' = mp
        /\ chain' = chain
    BY <1>2 DEF vars, tree, table, local, attached
  <2>2. /\ Typed' /\ ChainsAreAttached' /\ PathsAreAttached' /\ MadeOnce'
        /\ PlacesAreLocked' /\ PlacesStayFree'
    BY <2>1 DEF Tree, Typed, ChainsAreAttached, PathsAreAttached, MadeOnce,
         PlacesAreLocked, PlacesStayFree
  <2>3. /\ EntriesAreHeld' /\ EntriesAreAddedOnce' /\ GraftsAreAllowed'
        /\ RemovalsAreAllowed' /\ ParentsAreAttached'
    BY <2>1 DEF Tree, EntriesAreHeld, EntriesAreAddedOnce, GraftsAreAllowed,
         RemovalsAreAllowed, ParentsAreAttached
  <2>4. QED
    BY <2>2, <2>3 DEF Tree
<1>3. QED
  BY <1>1, <1>2

-----------------------------------------------------------------------------
(* Every step of the code is a step of MountPlaces, or none. *)

On == [m \in mounted |-> [mnt |-> mnt_parent[m], dentry |-> mnt_mountpoint[m]]]

\* The insert is where the mount gets to its place, if it drops no other one.
LEMMA InsertMounts ==
  ASSUME Tree, NEW t \in Threads, attach_mnt(t), lost' = {}, NEW m, m = new[t]
  PROVE  Places!Mount(m)
<1>1. /\ Typed /\ PathsAreAttached /\ MadeOnce /\ PlacesStayFree /\ GraftsAreAllowed
      /\ ChainsAreAttached /\ pc[t] = "insert"
  BY Flow DEF Tree
<1>13. lost = {} /\ Bucket(m) \subseteq chain[t] /\ attached = mounted
  BY DEF attach_mnt, attached
<1>2. /\ m \in NewMounts /\ m \notin mounted
      /\ m \notin NoUser
      /\ (path[t].dentry \in IsDir) = (RootOf[m] \in IsDir)
      /\ mnt_parent[m] = path[t].mnt /\ mnt_mountpoint[m] = path[t].dentry
  BY <1>1, <1>13 DEF MadeOnce, GraftsAreAllowed, MountPc, InsertPc
<1>3. /\ path[t].dentry \in Dentries /\ path[t].mnt = Fs[path[t].dentry]
      /\ path[t].mnt \in mounted \cup {RootMnt}
  BY <1>1, <1>13 DEF PathsAreAttached
<1>4. path[t].dentry \notin cant_mount /\ \A n \in mounted : mnt_mountpoint[n] # path[t].dentry
  BY <1>1, <1>13 DEF PlacesStayFree, InsertPc
<1> DEFINE at == [mnt |-> path[t].mnt, dentry |-> path[t].dentry]
<1>5. at \in [mnt : Mounts, dentry : Dentries]
  BY <1>1, <1>3, Roots DEF Typed
<1>6. /\ mounted' = mounted \cup {m} /\ mnt_parent' = mnt_parent
      /\ mnt_mountpoint' = mnt_mountpoint /\ cant_mount' = cant_mount
  BY <1>1, <1>13 DEF attach_mnt, ChainsAreAttached, Bucket
<1>7. DOMAIN On = mounted /\ \A n \in mounted : On[n].dentry = mnt_mountpoint[n]
  BY DEF On
<1>8. On' = [n \in DOMAIN On \cup {m} |-> IF n = m THEN at ELSE On[n]]
  BY <1>2, <1>6 DEF On
<1>9. Places!Attached = mounted \cup {RootMnt}
  BY DEF Places!Attached
<1>10. Places!Free(m, at)
  BY <1>2, <1>3, <1>4, <1>7, <1>9 DEF Places!Free, On
<1>11. m \notin Places!Attached \cup NoUser
  BY <1>2, <1>9, Roots
<1>12. QED
  BY <1>5, <1>6, <1>8, <1>10, <1>11 DEF Places!Mount, On

LEMMA NextImplements == Tree /\ [Next]_vars => [Places!Next \/ lost' # {}]_(Places!places)
<1> SUFFICES ASSUME Tree, [Next]_vars, lost' = {}
             PROVE  Places!Next \/ UNCHANGED Places!places
  OBVIOUS
<1>1. ASSUME NEW t \in Threads, Step(t)
      PROVE  Places!Next \/ UNCHANGED Places!places
  <2>1. Typed /\ MadeOnce /\ RemovalsAreAllowed
    BY DEF Tree
  <2>2. CASE attach_mnt(t)
    <3>1. new[t] \in Mounts
      BY <2>1, <2>2, Flow, Roots DEF MadeOnce, MountPc
    <3>2. PICK m \in Mounts : m = new[t]
      BY <3>1
    <3>3. Places!Mount(m)
      BY <1>1, <2>2, <3>2, InsertMounts
    <3>4. QED
      BY <3>3 DEF Places!Next
  <2>3. CASE dont_mount(t)
    <3>1. /\ path[t].dentry \in IsDir \ cant_mount
          /\ \A m \in Mounts : path[t].dentry # RootOf[m]
      BY <2>1, <2>3, Flow DEF RemovalsAreAllowed
    <3>2. /\ cant_mount' = cant_mount \cup {path[t].dentry}
          /\ mounted' = mounted /\ mnt_parent' = mnt_parent /\ mnt_mountpoint' = mnt_mountpoint
      BY <2>3 DEF dont_mount, tree
    <3>3. path[t].dentry \in Dentries
      BY <3>1, ConfigAssumption
    <3>4. Places!Remove(path[t].dentry)
      BY <3>1, <3>2 DEF Places!Remove
    <3>5. QED
      BY <3>3, <3>4 DEF Places!Next
  <2>4. CASE ~attach_mnt(t) /\ ~dont_mount(t)
    <3>1. mounted' = mounted /\ cant_mount' = cant_mount
      BY <1>1, <2>4, Writes
    <3>2. \A m \in mounted : /\ mnt_parent'[m] = mnt_parent[m]
                             /\ mnt_mountpoint'[m] = mnt_mountpoint[m]
      BY <1>1, MountsStay DEF attached
    <3>3. QED
      BY <3>1, <3>2 DEF Places!places
  <2>5. QED
    BY <2>2, <2>3, <2>4
<1>2. CASE UNCHANGED vars
  BY <1>2 DEF vars, tree, Places!places
<1>3. QED
  BY <1>1, <1>2 DEF Next, Step

LEMMA InitImplements == Init => Places!Init
<1> SUFFICES ASSUME Init
             PROVE  [m \in mounted |-> [mnt |-> mnt_parent[m], dentry |-> mnt_mountpoint[m]]] = <<>>
                    /\ cant_mount = {}
  BY DEF Places!Init
<1>1. mounted = {} /\ cant_mount = {}
  BY DEF Init
<1>2. QED
  BY <1>1

\* Mounting implements MountPlaces until an insert into mount_hashtable is
\* lost: however calls interleave, sleep on inode locks, climb the stack of
\* mounts and fail, a mount lands in one step on a free place of the tree that
\* has not been removed, and stays there.
THEOREM MountsTakePlaces == Spec => ImplementsMounts
<1>1. Init => Tree /\ Places!Init
  BY InitTree, InitImplements
<1>2. Tree /\ [Next]_vars => Tree' /\ [Places!Next \/ lost' # {}]_(Places!places)
  BY NextTree, NextImplements
<1>3. QED
  BY <1>1, <1>2, PTL DEF Spec, ImplementsMounts

-----------------------------------------------------------------------------
(* The table. *)

\* A place of the tree is not the root of a mount that is not in it yet.
LEMMA NotARoot ==
  ASSUME Tree, NEW t \in Threads, pc[t] # "idle",
         NEW u \in Threads, pc[u] \in MountPc \ {"put_mp", "unlock"}
  PROVE  path[t].dentry # RootOf[new[u]]
<1>1. path[t].mnt = Fs[path[t].dentry] /\ path[t].mnt \in attached \cup {RootMnt}
  BY DEF Tree, PathsAreAttached
<1>2. new[u] \in NewMounts /\ new[u] \notin attached
  BY DEF Tree, MadeOnce
<1>3. Fs[RootOf[new[u]]] = new[u] /\ new[u] # RootMnt
  BY <1>2, Roots
<1>4. QED
  BY <1>1, <1>2, <1>3

\* Flags go down only with the last count of an entry.
LEMMA WritesOfFlags ==
  ASSUME Tree, NEW t \in Threads, Step(t), NEW d \in flagged, d \notin flagged'
  PROVE  /\ put_mountpoint(t) /\ mp[t] \in MountpointIds
         /\ d = path[t].dentry /\ m_dentry[mp[t]] = d /\ m_dentry'[mp[t]] = NoDentry
         /\ m_count[mp[t]] = 1
<1>1. Typed /\ EntriesAreHeld
  BY DEF Tree
<1>2. put_mountpoint(t)
  BY DEF Step, Continue, do_mount, rmdir_lock, traverse_mounts, traverse_done,
         vfs_create_mount, do_new_mount_fails, lock_place, lock_dead, lock_covered, lock_top,
         get_place_shared, get_place_garbage, get_place_flag, get_place_add, get_place_fails, graft_refused,
         get_root_flag, get_root_add, get_root_fails, mnt_set_mountpoint, commit_tree, attach_mnt,
         unlock_mount, dont_mount, rmdir_unlock, SharedMountpoint, AddMountpoint,
         d_set_mounted, table
<1>3. mp[t] # NoMp /\ m_dentry[mp[t]] = path[t].dentry
  BY <1>1, <1>2, Flow DEF EntriesAreHeld, EntryPc
<1>4. mp[t] \in MountpointIds
  BY <1>1, <1>3 DEF Typed
<1>5. QED
  BY <1>1, <1>2, <1>3, <1>4 DEF put_mountpoint, Typed

\* get_mountpoint adds an entry only where it found none, and no one adds
\* another in the meantime.
LEMMA NextOneEntry ==
  ASSUME Tree, OneEntry, EntriesAreMissing, NEW t \in Threads, Step(t)
  PROVE  OneEntry'
<1>1. Typed
  BY DEF Tree
\* An entry that is in the table afterwards was there, or is the one added.
<1>2. ASSUME NEW i \in MountpointIds, m_dentry'[i] # NoDentry
      PROVE  \/ m_dentry'[i] = m_dentry[i]
             \/ /\ get_place_add(t) /\ i = <<new[t], "place">> /\ m_dentry'[i] = path[t].dentry
                /\ m_dentry'[i] \in flagged /\ MountpointsOf(m_dentry'[i]) = {}
             \/ /\ get_root_add(t) /\ i = <<new[t], "root">> /\ m_dentry'[i] = RootOf[new[t]]
                /\ m_dentry'[i] \in flagged /\ MountpointsOf(m_dentry'[i]) = {}
  <2>1. get_place_add(t) => path[t].dentry \in flagged /\ MountpointsOf(path[t].dentry) = {}
    BY <1>1, Flow DEF EntriesAreMissing
  <2>2. get_root_add(t) => RootOf[new[t]] \in flagged /\ MountpointsOf(RootOf[new[t]]) = {}
    BY <1>1, Flow DEF EntriesAreMissing
  <2>3. QED
    BY <1>2, <2>1, <2>2, WritesOfEntry
<1>3. ASSUME NEW i \in MountpointIds, m_dentry'[i] # NoDentry
      PROVE  m_dentry'[i] \in flagged'
  <2>1. m_dentry'[i] \in flagged
    BY <1>2, <1>3 DEF OneEntry
  <2>2. ASSUME m_dentry'[i] \notin flagged'
        PROVE  FALSE
    <3>1. /\ put_mountpoint(t) /\ mp[t] \in MountpointIds
          /\ m_dentry[mp[t]] = m_dentry'[i] /\ m_dentry'[mp[t]] = NoDentry
      BY <2>1, <2>2, WritesOfFlags
    <3>2. m_dentry[i] = m_dentry'[i]
      BY <1>1, <1>2, <1>3, <3>1, Flow
    <3>3. i = mp[t]
      BY <1>3, <3>1, <3>2 DEF OneEntry
    <3>4. QED
      BY <1>3, <3>1, <3>3
  <2>3. QED
    BY <2>2
<1>4. ASSUME NEW i \in MountpointIds, NEW j \in MountpointIds,
             m_dentry'[i] # NoDentry, m_dentry'[j] = m_dentry'[i]
      PROVE  i = j
  <2>1. CASE m_dentry'[i] = m_dentry[i] /\ m_dentry'[j] = m_dentry[j]
    BY <1>4, <2>1 DEF OneEntry
  <2>2. CASE m_dentry'[i] # m_dentry[i] /\ m_dentry'[j] # m_dentry[j]
    BY <1>1, <1>2, <1>4, <2>2, Flow
  <2>3. CASE m_dentry'[i] = m_dentry[i] /\ m_dentry'[j] # m_dentry[j]
    <3>1. MountpointsOf(m_dentry'[j]) = {}
      BY <1>2, <1>4, <2>3
    <3>2. QED
      BY <1>4, <2>3, <3>1 DEF MountpointsOf
  <2>4. CASE m_dentry'[i] # m_dentry[i] /\ m_dentry'[j] = m_dentry[j]
    <3>1. MountpointsOf(m_dentry'[i]) = {}
      BY <1>2, <1>4, <2>4
    <3>2. QED
      BY <1>4, <2>4, <3>1 DEF MountpointsOf
  <2>5. QED
    BY <2>1, <2>2, <2>3, <2>4
<1>5. QED
  BY <1>3, <1>4 DEF OneEntry

\* Whose entry is missing holds the place, or has a root nobody gets to.
LEMMA NextEntriesAreMissing ==
  ASSUME Tree, OneEntry, EntriesAreMissing, NEW t \in Threads, Step(t)
  PROVE  EntriesAreMissing'
<1>1. Typed /\ MadeOnce
  BY DEF Tree
\* A dentry that t does not work on.
<1>2. ASSUME NEW d \in flagged, MountpointsOf(d) = {}, d # NoDentry,
             put_mountpoint(t) \/ get_place_add(t) => d # path[t].dentry,
             get_root_add(t) => d # RootOf[new[t]]
      PROVE  d \in flagged' /\ \A i \in MountpointIds : m_dentry'[i] # d
  <2>1. d \in flagged'
    BY <1>2, WritesOfFlags
  <2>2. \A i \in MountpointIds : m_dentry'[i] # d
    BY <1>2, WritesOfEntry DEF MountpointsOf
  <2>3. QED
    BY <2>1, <2>2
<1>3. ASSUME NEW u \in Threads, u # t, pc'[u] \in {"add_mp", "add_root"}
      PROVE  /\ pc[u] = pc'[u] /\ path'[u] = path[u] /\ new'[u] = new[u]
             /\ pc[u] \in MountPc \ {"put_mp", "unlock"} /\ pc[u] # "idle"
             /\ path[u].dentry # NoDentry /\ RootOf[new[u]] # NoDentry
  <2>1. pc[u] = pc'[u] /\ path'[u] = path[u] /\ new'[u] = new[u]
    BY <1>1, <1>3, OthersAreStill
  <2>2. pc[u] \in MountPc \ {"put_mp", "unlock"} /\ pc[u] # "idle"
    BY <1>3, <2>1 DEF MountPc
  <2>3. path[u].dentry \in Dentries /\ new[u] \in NewMounts
    BY <2>2 DEF Tree, PathsAreAttached, MadeOnce
  <2>4. QED
    BY <2>1, <2>2, <2>3, Roots
<1>4. ASSUME NEW u \in Threads, u # t, pc'[u] = "add_mp"
      PROVE  path'[u].dentry \in flagged' /\ \A i \in MountpointIds : m_dentry'[i] # path'[u].dentry
  <2>1. path[u].dentry \in flagged /\ MountpointsOf(path[u].dentry) = {}
    BY <1>3, <1>4 DEF EntriesAreMissing
  <2>2. put_mountpoint(t) \/ get_place_add(t) => path[u].dentry # path[t].dentry
    BY <1>1, <1>3, <1>4, Flow, OneHolder DEF LockedPc
  <2>3. get_root_add(t) => path[u].dentry # RootOf[new[t]]
    <3>1. get_root_add(t) => pc[t] \in MountPc \ {"put_mp", "unlock"}
      BY <1>1, Flow DEF MountPc
    <3>2. QED
      BY <1>3, <1>4, <3>1, NotARoot
  <2>4. path[u].dentry \in flagged' /\ \A i \in MountpointIds : m_dentry'[i] # path[u].dentry
    <3>1. PICK d \in flagged : d = path[u].dentry
      BY <2>1
    <3>2. d \in flagged' /\ \A i \in MountpointIds : m_dentry'[i] # d
      BY <1>2, <1>3, <1>4, <2>1, <2>2, <2>3, <3>1
    <3>3. QED
      BY <3>1, <3>2
  <2>5. QED
    BY <1>3, <1>4, <2>4
<1>5. ASSUME NEW u \in Threads, u # t, pc'[u] = "add_root"
      PROVE  RootOf[new'[u]] \in flagged' /\ \A i \in MountpointIds : m_dentry'[i] # RootOf[new'[u]]
  <2>1. RootOf[new[u]] \in flagged /\ MountpointsOf(RootOf[new[u]]) = {}
    BY <1>3, <1>5 DEF EntriesAreMissing
  <2>2. put_mountpoint(t) \/ get_place_add(t) => RootOf[new[u]] # path[t].dentry
    BY <1>1, <1>3, <1>5, Flow, NotARoot
  <2>3. get_root_add(t) => RootOf[new[u]] # RootOf[new[t]]
    <3>1. get_root_add(t) => new[t] \in NewMounts
      BY <1>1, Flow DEF MadeOnce, MountPc
    <3>2. new[u] \in NewMounts /\ new[u] # NoMnt
      BY <1>1, <1>3, <1>5, Roots DEF MadeOnce
    <3>3. QED
      BY <1>1, <1>5, <3>1, <3>2, Roots DEF MadeOnce
  <2>4. PICK d \in flagged : d = RootOf[new[u]]
    BY <2>1
  <2>5. d \in flagged' /\ \A i \in MountpointIds : m_dentry'[i] # d
    BY <1>2, <1>3, <1>5, <2>1, <2>2, <2>3, <2>4
  <2>6. QED
    BY <1>3, <1>5, <2>4, <2>5
\* d_set_mounted flags a dentry that has no entry.
<1>6. ASSUME NEW d, d_set_mounted(d), d # NoDentry
      PROVE  d \in flagged' /\ MountpointsOf(d) = {} /\ m_dentry' = m_dentry
  BY <1>6 DEF d_set_mounted, OneEntry, MountpointsOf
<1>7. ASSUME pc'[t] = "add_mp"
      PROVE  path'[t].dentry \in flagged' /\ \A i \in MountpointIds : m_dentry'[i] # path'[t].dentry
  <2>1. get_place_flag(t)
    BY <1>1, <1>7, Flow DEF Step, Continue
  <2>2. path[t].dentry # NoDentry
    BY <1>1, <2>1, Flow, Roots DEF Tree, PathsAreAttached
  <2>3. path' = path /\ d_set_mounted(path[t].dentry)
    BY <2>1 DEF get_place_flag, local
  <2>4. QED
    BY <1>6, <2>2, <2>3 DEF MountpointsOf
<1>8. ASSUME pc'[t] = "add_root"
      PROVE  RootOf[new'[t]] \in flagged' /\ \A i \in MountpointIds : m_dentry'[i] # RootOf[new'[t]]
  <2>1. get_root_flag(t)
    BY <1>1, <1>8, Flow DEF Step, Continue
  <2>2. RootOf[new[t]] # NoDentry
    BY <1>1, <2>1, Flow, Roots DEF MadeOnce, MountPc
  <2>3. new' = new /\ d_set_mounted(RootOf[new[t]])
    BY <2>1 DEF get_root_flag, local
  <2>4. QED
    BY <1>6, <2>2, <2>3 DEF MountpointsOf
<1>9. QED
  <2>1. \A u \in Threads : /\ pc'[u] = "add_mp" => path'[u].dentry \in flagged'
                           /\ pc'[u] = "add_root" => RootOf[new'[u]] \in flagged'
    BY <1>4, <1>5, <1>7, <1>8
  <2>2. \A u \in Threads : \A i \in MountpointIds :
          /\ pc'[u] = "add_mp" => m_dentry'[i] # path'[u].dentry
          /\ pc'[u] = "add_root" => m_dentry'[i] # RootOf[new'[u]]
    BY <1>4, <1>5, <1>7, <1>8
  <2>3. QED
    BY <2>1, <2>2 DEF EntriesAreMissing, MountpointsOf

\* Only mnt_set_mountpoint adds to the mounts at a place, and none moves.
LEMMA MountsMove ==
  ASSUME Tree, NEW t \in Threads, Step(t), NEW d
  PROVE  /\ ~mnt_set_mountpoint(t) => MountsAt(d)' = MountsAt(d)
         /\ mnt_set_mountpoint(t) =>
              /\ path[t].dentry # d => MountsAt(d)' = MountsAt(d)
              /\ path[t].dentry = d => /\ MountsAt(d)' = MountsAt(d) \cup {new[t]}
                                       /\ new[t] \notin MountsAt(d)
<1>1. Typed /\ MadeOnce /\ EntriesAreHeld /\ NoMnt \notin NewMounts
  BY Roots DEF Tree, NewMounts
\* A mount a call is about to set is not attached.
<1>2. ASSUME vfs_create_mount(t) \/ mnt_set_mountpoint(t)
      PROVE  new[t] \in Mounts /\ new[t] \notin Attached
  <2>1. new[t] \in NewMounts /\ new[t] \notin attached /\ pc[t] \notin InsertPc
    BY <1>1, <1>2, Flow DEF MadeOnce, MountPc, InsertPc
  <2>2. \A u \in Threads : pc[u] \in InsertPc => new[u] # new[t]
    BY <1>1, <2>1 DEF MadeOnce
  <2>3. QED
    BY <2>1, <2>2, Roots DEF Attached, InsertPc
<1>3. \A m \in Attached : m \in Mounts
  BY <1>1, Roots DEF Attached, attached, Typed, MadeOnce, MountPc
<1>4. \A m \in Attached : mnt_mountpoint'[m] = mnt_mountpoint[m]
  <2>1. \/ mnt_mountpoint' = mnt_mountpoint
        \/ /\ vfs_create_mount(t) \/ mnt_set_mountpoint(t)
           /\ \E y : mnt_mountpoint' = [mnt_mountpoint EXCEPT ![new[t]] = y]
    BY Writes DEF vfs_create_mount, mnt_set_mountpoint
  <2>2. QED
    BY <1>1, <1>2, <1>3, <2>1 DEF Typed
<1>5. ASSUME mnt_set_mountpoint(t)
      PROVE  Attached' = Attached \cup {new[t]} /\ mnt_mountpoint'[new[t]] = path[t].dentry
  <2>1. pc[t] = "set_mp" /\ pc'[t] = "commit" /\ new' = new /\ attached' = attached
    BY <1>1, <1>5, Flow DEF mnt_set_mountpoint, local, attached
  <2>2. \A u \in Threads : pc'[u] \in InsertPc <=> pc[u] \in InsertPc \/ u = t
    BY <1>1, <2>1, OthersAreStill DEF InsertPc
  <2>3. Attached' = Attached \cup {new[t]}
    BY <2>1, <2>2 DEF Attached, InsertPc
  <2>4. m_dentry[mp[t]] = path[t].dentry
    BY <1>1, <2>1 DEF EntriesAreHeld, EntryPc
  <2>5. mnt_mountpoint'[new[t]] = path[t].dentry
    BY <1>1, <1>2, <1>5, <2>4 DEF mnt_set_mountpoint, Typed
  <2>6. QED
    BY <2>3, <2>5
<1>6. ASSUME ~mnt_set_mountpoint(t)
      PROVE  Attached' = Attached
  <2>1. CASE attach_mnt(t)
    <3>1. pc[t] = "insert" /\ pc'[t] = "put_mp" /\ new' = new /\ attached' = attached \cup {new[t]}
      <4>1. pc[t] = "insert" /\ pc'[t] = "put_mp" /\ new' = new
        BY <1>1, <2>1, Flow DEF attach_mnt
      <4>2. new[t] \in NewMounts /\ new[t] \in attached'
        BY <1>1, <2>1, <4>1 DEF attach_mnt, attached, MadeOnce, MountPc
      <4>3. attached' = attached \cup {new[t]}
        BY <4>2, MountsStay
      <4>4. QED
        BY <4>1, <4>3
    <3>2. \A u \in Threads : pc'[u] \in InsertPc <=> pc[u] \in InsertPc /\ u # t
      BY <1>1, <3>1, OthersAreStill DEF InsertPc
    <3>3. QED
      BY <3>1, <3>2 DEF Attached, InsertPc
  <2>2. CASE ~attach_mnt(t)
    <3>1. attached' = attached
      BY <2>2, Writes
    <3>2. /\ pc'[t] \in InsertPc <=> pc[t] \in InsertPc
          /\ pc[t] \in InsertPc => new' = new
      BY <1>1, <1>6, <2>2, Flow, Writes DEF Step, Continue, InsertPc
    <3>3. \A u \in Threads : /\ pc'[u] \in InsertPc <=> pc[u] \in InsertPc
                             /\ pc[u] \in InsertPc => new'[u] = new[u]
      BY <1>1, <3>2, OthersAreStill
    <3>4. QED
      BY <3>1, <3>3 DEF Attached, InsertPc
  <2>3. QED
    BY <2>1, <2>2
<1>7. CASE ~mnt_set_mountpoint(t)
  BY <1>4, <1>6, <1>7 DEF MountsAt
<1>8. CASE mnt_set_mountpoint(t)
  BY <1>2, <1>4, <1>5, <1>8 DEF MountsAt
<1>9. QED
  BY <1>7, <1>8

\* The users of an entry come with get_mountpoint and go with put_mountpoint.
LEMMA UsersChange ==
  ASSUME Tree, NEW t \in Threads, Step(t), NEW i \in MountpointIds
  PROVE  \/ UsersOf(i)' = UsersOf(i) /\ (mp'[t] = i <=> mp[t] = i)
         \/ /\ get_place_shared(t) /\ mp'[t] = i
            /\ UsersOf(i)' = UsersOf(i) \cup {t} /\ t \notin UsersOf(i)
         \/ /\ get_place_add(t) /\ i = <<new[t], "place">>
            /\ UsersOf(i)' = UsersOf(i) \cup {t} /\ t \notin UsersOf(i)
         \/ /\ put_mountpoint(t) /\ mp[t] = i
            /\ UsersOf(i)' = UsersOf(i) \ {t} /\ t \in UsersOf(i)
<1>1. Typed /\ EntriesAreHeld /\ NoMp \notin MountpointIds
  BY Roots DEF Tree
<1>2. \A u \in Threads : u # t => mp'[u] = mp[u]
  BY <1>1, OthersAreStill
<1>3. \/ mp'[t] = mp[t]
      \/ get_place_shared(t) /\ mp[t] = NoMp
      \/ get_place_add(t) /\ mp[t] = NoMp /\ mp'[t] = <<new[t], "place">>
      \/ put_mountpoint(t) /\ mp'[t] = NoMp
  <2>1. get_place_shared(t) \/ get_place_add(t) => mp[t] = NoMp
    BY <1>1, Flow DEF EntriesAreHeld, EntryPc
  <2>2. get_place_add(t) => mp'[t] = <<new[t], "place">>
    BY <1>1 DEF get_place_add, Typed
  <2>3. put_mountpoint(t) => mp'[t] = NoMp
    BY <1>1 DEF put_mountpoint, Typed
  <2>4. QED
    BY <2>1, <2>2, <2>3, Writes
<1>4. CASE (mp'[t] = i) = (mp[t] = i)
  BY <1>2, <1>4 DEF UsersOf
<1>5. CASE mp'[t] = i /\ mp[t] # i
  <2>1. UsersOf(i)' = UsersOf(i) \cup {t} /\ t \notin UsersOf(i)
    BY <1>2, <1>5 DEF UsersOf
  <2>2. QED
    BY <1>1, <1>3, <1>5, <2>1
<1>6. CASE mp'[t] # i /\ mp[t] = i
  <2>1. UsersOf(i)' = UsersOf(i) \ {t} /\ t \in UsersOf(i)
    BY <1>2, <1>6 DEF UsersOf
  <2>2. QED
    BY <1>1, <1>3, <1>6, <2>1
<1>7. QED
  BY <1>4, <1>5, <1>6

LEMMA FiniteCounts ==
  ASSUME FiniteSystem, Tree, NEW d, NEW i
  PROVE  /\ IsFiniteSet(MountsAt(d)) /\ Cardinality(MountsAt(d)) \in Nat
         /\ IsFiniteSet(UsersOf(i)) /\ Cardinality(UsersOf(i)) \in Nat
         /\ MountsAt(d) # {} => Cardinality(MountsAt(d)) >= 1
         /\ UsersOf(i) # {} => Cardinality(UsersOf(i)) >= 1
<1>1. MountsAt(d) \subseteq Mounts /\ UsersOf(i) \subseteq Threads
  BY Roots DEF MountsAt, Attached, attached, UsersOf, Tree, Typed, MadeOnce, MountPc
<1>2. IsFiniteSet(MountsAt(d)) /\ IsFiniteSet(UsersOf(i))
  BY <1>1, FS_Subset DEF FiniteSystem
<1>3. Cardinality(MountsAt(d)) \in Nat /\ Cardinality(UsersOf(i)) \in Nat
  BY <1>2, FS_CardinalityType
<1>4. /\ MountsAt(d) # {} => Cardinality(MountsAt(d)) # 0
      /\ UsersOf(i) # {} => Cardinality(UsersOf(i)) # 0
  BY <1>2, FS_EmptySet
<1>5. QED
  BY <1>2, <1>3, <1>4

\* An entry goes only when its user is alone: no mount is left at its place.
LEMMA NextMountsHaveEntries ==
  ASSUME FiniteSystem, Tree, Table, NEW t \in Threads, Step(t)
  PROVE  MountsHaveEntries'
<1>1. Typed /\ EntriesAreHeld /\ MountsHaveEntries /\ PathsAreAttached /\ NoDentry \notin Dentries
  BY Roots DEF Tree, Table
<1>2. ASSUME NEW i \in MountpointIds, m_dentry[i] # NoDentry, MountsAt(m_dentry[i]) # {}
      PROVE  m_dentry'[i] = m_dentry[i]
  <2>1. ASSUME put_mountpoint(t), i = mp[t], m_count[i] = 1
        PROVE  FALSE
    <3>1. UsersOf(i) # {}
      BY <2>1 DEF UsersOf
    <3>2. m_count[i] = Cardinality(MountsAt(m_dentry[i])) + Cardinality(UsersOf(i)) + leaked[i]
                       + (IF i[2] = "root" THEN 1 ELSE 0)
      BY <1>2 DEF Table, CountsAreExact
    <3>5. leaked[i] \in Nat
      BY DEF Table, CountsAreExact
    <3>3. /\ Cardinality(MountsAt(m_dentry[i])) \in Nat /\ Cardinality(MountsAt(m_dentry[i])) >= 1
          /\ Cardinality(UsersOf(i)) \in Nat /\ Cardinality(UsersOf(i)) >= 1
      BY <1>2, <3>1, FiniteCounts
    <3>4. QED
      BY <2>1, <3>2, <3>3, <3>5
  <2>2. QED
    BY <1>2, <2>1, WritesOfEntry
<1> SUFFICES ASSUME NEW m \in attached'
             PROVE  \E i \in MountpointIds : m_dentry'[i] = mnt_mountpoint'[m]
  BY DEF MountsHaveEntries, MountpointsOf
<1>3. CASE m \in attached
  <2>1. PICK i \in MountpointIds : m_dentry[i] = mnt_mountpoint[m]
    BY <1>1, <1>3 DEF MountsHaveEntries, MountpointsOf
  <2>2. m_dentry[i] # NoDentry /\ m \in MountsAt(m_dentry[i])
    BY <1>1, <1>3, <2>1, Roots DEF MountsAt, Attached, attached, Typed
  <2>3. QED
    BY <1>2, <1>3, <2>1, <2>2, MountsStay
<1>4. CASE m \notin attached
  <2>1. /\ attach_mnt(t) /\ pc[t] = "insert" /\ m = new[t]
        /\ mnt_mountpoint'[m] = path[t].dentry
    BY <1>4, MountsStay
  <2>2. mp[t] \in MountpointIds /\ m_dentry[mp[t]] = path[t].dentry /\ m_dentry' = m_dentry
    BY <1>1, <2>1 DEF EntriesAreHeld, EntryPc, attach_mnt, table, Typed
  <2>3. QED
    BY <2>1, <2>2
<1>5. QED
  BY <1>3, <1>4

\* What becomes of one count.
LEMMA WritesOfCount ==
  ASSUME Tree, m_count \in [MountpointIds -> Nat], leaked \in [MountpointIds -> Nat],
         NEW t \in Threads, Step(t)
  PROVE  /\ DOMAIN m_count' = MountpointIds
         /\ leaked' \in [MountpointIds -> Nat]
         /\ get_place_garbage(t) \/ leaked' = leaked
         /\ \A i \in MountpointIds :
              \/ /\ m_count'[i] = m_count[i]
                 /\ leaked'[i] = leaked[i]
                 /\ ~(get_place_shared(t) /\ mp'[t] = i)
                 /\ ~(get_place_add(t) /\ i = <<new[t], "place">>)
                 /\ ~(get_root_add(t) /\ i = <<new[t], "root">>)
                 /\ ~(mnt_set_mountpoint(t) /\ mp[t] = i)
                 /\ ~(put_mountpoint(t) /\ mp[t] = i)
              \/ get_place_shared(t) /\ mp'[t] = i /\ m_count'[i] = m_count[i] + 1
              \/ /\ get_place_garbage(t) /\ m_dentry[i] # NoDentry
                 /\ m_count'[i] = m_count[i] + 1 /\ leaked'[i] = leaked[i] + 1
              \/ get_place_add(t) /\ i = <<new[t], "place">> /\ m_count'[i] = 1
              \/ get_root_add(t) /\ i = <<new[t], "root">> /\ m_count'[i] = 1
              \/ mnt_set_mountpoint(t) /\ mp[t] = i /\ m_count'[i] = m_count[i] + 1
              \/ put_mountpoint(t) /\ mp[t] = i /\ m_count'[i] = m_count[i] - 1
<1>1. Typed
  BY DEF Tree
<1>9. get_place_garbage(t) \/ leaked' = leaked
  BY Writes
<1>2. CASE get_place_shared(t)
  <2>1. PICK j \in MountpointIds : /\ SharedMountpoint(path[t].dentry, j)
                                   /\ mp' = [mp EXCEPT ![t] = j]
    BY <1>2 DEF get_place_shared
  <2>2. mp'[t] = j /\ m_count' = [m_count EXCEPT ![j] = @ + 1]
    BY <1>1, <2>1 DEF SharedMountpoint, Typed
  <2>3. /\ ~get_place_add(t) /\ ~get_root_add(t) /\ ~mnt_set_mountpoint(t)
        /\ ~put_mountpoint(t) /\ leaked' = leaked
    BY <1>1, <1>2, Flow DEF get_place_shared
  <2>4. QED
    BY <1>2, <2>2, <2>3
<1>3. CASE get_place_add(t)
  <2>1. /\ ~get_place_shared(t) /\ ~get_root_add(t) /\ ~mnt_set_mountpoint(t) /\ ~put_mountpoint(t)
        /\ leaked' = leaked
    BY <1>1, <1>3, Flow DEF get_place_add, AddMountpoint, table
  <2>2. m_count' = [m_count EXCEPT ![<<new[t], "place">>] = 1]
    BY <1>3 DEF get_place_add, AddMountpoint
  <2>3. QED
    BY <1>3, <2>1, <2>2
<1>4. CASE get_root_add(t)
  <2>1. /\ ~get_place_shared(t) /\ ~get_place_add(t) /\ ~mnt_set_mountpoint(t) /\ ~put_mountpoint(t)
        /\ leaked' = leaked
    BY <1>1, <1>4, Flow DEF get_root_add, AddMountpoint, table
  <2>2. m_count' = [m_count EXCEPT ![<<new[t], "root">>] = 1]
    BY <1>4 DEF get_root_add, AddMountpoint
  <2>3. QED
    BY <1>4, <2>1, <2>2
<1>5. CASE mnt_set_mountpoint(t)
  <2>1. /\ ~get_place_shared(t) /\ ~get_place_add(t) /\ ~get_root_add(t) /\ ~put_mountpoint(t)
        /\ leaked' = leaked
    BY <1>1, <1>5, Flow DEF mnt_set_mountpoint, AddMountpoint, table
  <2>2. m_count' = [m_count EXCEPT ![mp[t]] = @ + 1]
    BY <1>5 DEF mnt_set_mountpoint
  <2>3. QED
    BY <1>5, <2>1, <2>2
<1>6. CASE put_mountpoint(t)
  <2>1. /\ ~get_place_shared(t) /\ ~get_place_add(t) /\ ~get_root_add(t) /\ ~mnt_set_mountpoint(t)
        /\ leaked' = leaked
    BY <1>1, <1>6, Flow DEF put_mountpoint, AddMountpoint, table
  <2>2. m_count' = [m_count EXCEPT ![mp[t]] = @ - 1]
    BY <1>6 DEF put_mountpoint
  <2>3. QED
    BY <1>6, <2>1, <2>2
<1>10. CASE get_place_garbage(t)
  <2>1. PICK j \in MountpointIds : /\ SharedMountpoint(path[t].dentry, j)
                                   /\ leaked' = [leaked EXCEPT ![j] = @ + 1]
    BY <1>10 DEF get_place_garbage
  <2>2. m_count' = [m_count EXCEPT ![j] = @ + 1] /\ m_dentry[j] = path[t].dentry
    BY <2>1 DEF SharedMountpoint, MountpointsOf
  <2>3. path[t].dentry # NoDentry
    BY <1>1, <1>10, Flow, Roots DEF Tree, PathsAreAttached
  <2>4. /\ ~get_place_shared(t) /\ ~get_place_add(t) /\ ~get_root_add(t)
        /\ ~mnt_set_mountpoint(t) /\ ~put_mountpoint(t)
    <3>1. pc[t] = "get_mp" /\ pc'[t] # "graft"
      BY <1>1, <1>10, Flow
    <3>2. QED
      BY <1>1, <3>1, Flow
  <2>5. QED
    BY <1>10, <2>1, <2>2, <2>3, <2>4
<1>7. CASE /\ ~get_place_garbage(t) /\ ~get_place_shared(t) /\ ~get_place_add(t) /\ ~get_root_add(t)
           /\ ~mnt_set_mountpoint(t) /\ ~put_mountpoint(t)
  <2>1. m_count' = m_count
    BY <1>7 DEF Step, Continue, do_mount, rmdir_lock, traverse_mounts, traverse_done,
         vfs_create_mount, do_new_mount_fails, lock_place, lock_dead, lock_covered, lock_top,
         get_place_flag, get_place_fails, graft_refused, get_root_flag, get_root_fails,
         commit_tree, attach_mnt, unlock_mount, dont_mount, rmdir_unlock, d_set_mounted, table
  <2>2. QED
    BY <1>7, <1>9, <2>1
<1>8. QED
  BY <1>2, <1>3, <1>4, <1>5, <1>6, <1>7, <1>10

\* Nothing is mounted where an entry is still to be added, and nobody uses it.
LEMMA NewEntriesAreUnused ==
  ASSUME FiniteSystem, Tree, Table, NEW t \in Threads, Step(t), NEW i \in MountpointIds
  PROVE  /\ m_dentry[i] = NoDentry => Cardinality(UsersOf(i)) = 0
         /\ get_place_add(t) => Cardinality(MountsAt(path[t].dentry)) = 0
         /\ get_root_add(t) => Cardinality(MountsAt(RootOf[new[t]])) = 0
<1>1. /\ Typed /\ EntriesAreHeld /\ PathsAreAttached /\ PlacesStayFree /\ GraftsAreAllowed
      /\ ParentsAreAttached /\ MadeOnce
      /\ NoDentry \notin Dentries /\ NoMp \notin MountpointIds
  BY Roots DEF Tree
<1>2. m_dentry[i] = NoDentry => UsersOf(i) = {}
  BY <1>1 DEF EntriesAreHeld, UsersOf, PathsAreAttached, EntryPc
<1>3. get_place_add(t) => MountsAt(path[t].dentry) = {}
  <2>1. ASSUME get_place_add(t), NEW m \in attached
        PROVE  mnt_mountpoint[m] # path[t].dentry
    <3>1. MountpointsOf(path[t].dentry) = {}
      BY <1>1, <2>1, Flow DEF Table, EntriesAreMissing
    <3>2. QED
      BY <2>1, <3>1 DEF Table, MountsHaveEntries
  <2>2. ASSUME get_place_add(t), NEW u \in Threads, pc[u] \in InsertPc
        PROVE  mnt_mountpoint[new[u]] # path[t].dentry
    <3>1. pc[t] = "add_mp" /\ u # t
      BY <1>1, <2>2, Flow DEF InsertPc
    <3>2. path[u].dentry # path[t].dentry
      BY <2>2, <3>1, OneHolder DEF LockedPc, InsertPc
    <3>3. QED
      BY <1>1, <2>2, <3>2 DEF GraftsAreAllowed
  <2>3. QED
    BY <2>1, <2>2 DEF MountsAt, Attached, InsertPc
<1>4. get_root_add(t) => MountsAt(RootOf[new[t]]) = {}
  <2>1. ASSUME get_root_add(t)
        PROVE  /\ pc[t] \in MountPc \ {"put_mp", "unlock"} /\ Fs[RootOf[new[t]]] = new[t]
               /\ new[t] \notin attached /\ new[t] # RootMnt
    BY <1>1, <2>1, Flow, Roots DEF MadeOnce, MountPc
  <2>2. ASSUME get_root_add(t), NEW m \in attached
        PROVE  mnt_mountpoint[m] # RootOf[new[t]]
    BY <1>1, <2>1, <2>2 DEF ParentsAreAttached
  <2>3. ASSUME get_root_add(t), NEW u \in Threads, pc[u] \in InsertPc
        PROVE  mnt_mountpoint[new[u]] # RootOf[new[t]]
    <3>1. path[u].dentry # RootOf[new[t]]
      BY <2>1, <2>3, NotARoot DEF InsertPc
    <3>2. QED
      BY <1>1, <2>3, <3>1 DEF GraftsAreAllowed
  <2>4. QED
    BY <2>2, <2>3 DEF MountsAt, Attached, InsertPc
<1>5. QED
  BY <1>2, <1>3, <1>4, FS_EmptySet

\* Every use comes with a count and every count goes with a use.
LEMMA NextCountsAreExact ==
  ASSUME FiniteSystem, Tree, Table, NEW t \in Threads, Step(t)
  PROVE  CountsAreExact'
<1>1. /\ Typed /\ EntriesAreHeld /\ EntriesAreAddedOnce /\ PathsAreAttached
      /\ NoDentry \notin Dentries
      /\ m_count \in [MountpointIds -> Nat] /\ leaked \in [MountpointIds -> Nat] /\ OneEntry
  BY Roots DEF Tree, Table, CountsAreExact
<1> DEFINE Rooted(i) == IF i[2] = "root" THEN 1 ELSE 0
<1>2. ASSUME NEW i \in MountpointIds, m_dentry[i] # NoDentry
      PROVE  m_count[i] = Cardinality(MountsAt(m_dentry[i])) + Cardinality(UsersOf(i)) + leaked[i]
                          + Rooted(i)
  BY <1>2 DEF Table, CountsAreExact
<1>3. \A i \in MountpointIds : Rooted(i) \in Nat /\ leaked[i] \in Nat
  BY <1>1
<1>4. \A i \in MountpointIds : mp[t] = i => m_dentry[i] = path[t].dentry /\ m_dentry[i] # NoDentry
  BY <1>1, Roots DEF EntriesAreHeld, EntryPc, PathsAreAttached
<1>5. m_count' \in [MountpointIds -> Nat]
  <2>1. ASSUME NEW i \in MountpointIds
        PROVE  m_count'[i] \in Nat
    <3>1. m_count[i] \in Nat
      BY <1>1
    <3>2. CASE put_mountpoint(t) /\ mp[t] = i /\ m_count'[i] = m_count[i] - 1
      <4>1. t \in UsersOf(i)
        BY <3>2 DEF UsersOf
      <4>2. /\ Cardinality(UsersOf(i)) >= 1 /\ Cardinality(UsersOf(i)) \in Nat
            /\ Cardinality(MountsAt(m_dentry[i])) \in Nat
        BY <4>1, FiniteCounts
      <4>3. m_count[i] >= 1
        BY <1>2, <1>3, <1>4, <3>2, <4>2
      <4>4. QED
        BY <3>1, <3>2, <4>3
    <3>3. QED
      BY <1>1, <3>1, <3>2, WritesOfCount
  <2>2. m_count' = [i \in MountpointIds |-> m_count'[i]]
    <3>1. \E g : m_count' = m_count \/ \E j : m_count' = [m_count EXCEPT ![j] = g]
      BY DEF Step, Continue, do_mount, rmdir_lock, traverse_mounts, traverse_done,
         vfs_create_mount, do_new_mount_fails, lock_place, lock_dead, lock_covered, lock_top,
         get_place_shared, get_place_garbage, get_place_flag, get_place_add, get_place_fails, graft_refused,
         get_root_flag, get_root_add, get_root_fails, mnt_set_mountpoint, commit_tree, attach_mnt,
         put_mountpoint, unlock_mount, dont_mount, rmdir_unlock, d_set_mounted,
         SharedMountpoint, AddMountpoint, table
    <3>2. QED
      BY <1>1, <3>1
  <2>3. QED
    BY <2>1, <2>2
<1>6. ASSUME NEW i \in MountpointIds, NEW d, d # NoDentry, m_dentry'[i] = d
      PROVE  m_count'[i] = Cardinality(MountsAt(d)') + Cardinality(UsersOf(i)') + leaked'[i] + Rooted(i)
  <2>1. /\ IsFiniteSet(MountsAt(d)) /\ Cardinality(MountsAt(d)) \in Nat
        /\ IsFiniteSet(UsersOf(i)) /\ Cardinality(UsersOf(i)) \in Nat
    BY FiniteCounts
  <2>2. /\ UsersOf(i)' = UsersOf(i) \cup {t} /\ t \notin UsersOf(i) =>
             Cardinality(UsersOf(i)') = Cardinality(UsersOf(i)) + 1
        /\ UsersOf(i)' = UsersOf(i) \ {t} /\ t \in UsersOf(i) =>
             Cardinality(UsersOf(i)') = Cardinality(UsersOf(i)) - 1
        /\ MountsAt(d)' = MountsAt(d) \cup {new[t]} /\ new[t] \notin MountsAt(d) =>
             Cardinality(MountsAt(d)') = Cardinality(MountsAt(d)) + 1
    <3>1. t \notin UsersOf(i) => Cardinality(UsersOf(i) \cup {t}) = Cardinality(UsersOf(i)) + 1
      BY <2>1, FS_AddElement
    <3>2. t \in UsersOf(i) => Cardinality(UsersOf(i) \ {t}) = Cardinality(UsersOf(i)) - 1
      BY <2>1, FS_RemoveElement
    <3>3. new[t] \notin MountsAt(d) =>
            Cardinality(MountsAt(d) \cup {new[t]}) = Cardinality(MountsAt(d)) + 1
      BY <2>1, FS_AddElement
    <3>4. QED
      BY <3>1, <3>2, <3>3
  <2>3. m_dentry[i] = d =>
          m_count[i] = Cardinality(MountsAt(d)) + Cardinality(UsersOf(i)) + leaked[i] + Rooted(i)
    BY <1>2, <1>6
  <2>4. CASE get_place_add(t) /\ i = <<new[t], "place">>
    <3>1. /\ d = path[t].dentry /\ m_dentry[i] = NoDentry /\ Rooted(i) = 0
          /\ leaked[i] = 0 /\ leaked' = leaked
      <4>1. m_dentry[i] = NoDentry
        BY <1>1, <2>4, Flow DEF EntriesAreAddedOnce
      <4>2. d = path[t].dentry
        BY <1>6, <2>4, <4>1, WritesOfEntry
      <4>3. leaked' = leaked
        BY <1>1, <2>4, Flow, Writes
      <4>4. QED
        BY <2>4, <4>1, <4>2, <4>3 DEF Table, LeaksAreKept
    <3>2. Cardinality(MountsAt(d)) = 0 /\ Cardinality(UsersOf(i)) = 0
      BY <2>4, <3>1, NewEntriesAreUnused
    <3>3. MountsAt(d)' = MountsAt(d) /\ m_count'[i] = 1
      BY <1>1, <2>4, Flow, MountsMove, WritesOfCount
    <3>4. UsersOf(i)' = UsersOf(i) \cup {t} /\ t \notin UsersOf(i)
      <4>1. mp'[t] = i /\ mp[t] # i
        BY <1>1, <1>4, <2>4, <3>1 DEF get_place_add, Typed
      <4>2. QED
        BY <1>1, <2>4, <4>1, Flow, UsersChange
    <3>5. QED
      BY <2>2, <3>1, <3>2, <3>3, <3>4
  <2>5. CASE get_root_add(t) /\ i = <<new[t], "root">>
    <3>1. /\ d = RootOf[new[t]] /\ m_dentry[i] = NoDentry /\ Rooted(i) = 1
          /\ leaked[i] = 0 /\ leaked' = leaked
      <4>1. m_dentry[i] = NoDentry
        BY <1>1, <2>5, Flow DEF EntriesAreAddedOnce
      <4>2. d = RootOf[new[t]]
        BY <1>6, <2>5, <4>1, WritesOfEntry
      <4>3. leaked' = leaked
        BY <1>1, <2>5, Flow, Writes
      <4>4. QED
        BY <2>5, <4>1, <4>2, <4>3 DEF Table, LeaksAreKept
    <3>2. Cardinality(MountsAt(d)) = 0 /\ Cardinality(UsersOf(i)) = 0
      BY <2>5, <3>1, NewEntriesAreUnused
    <3>3. MountsAt(d)' = MountsAt(d) /\ m_count'[i] = 1 /\ UsersOf(i)' = UsersOf(i)
      BY <1>1, <2>5, Flow, MountsMove, WritesOfCount, UsersChange
    <3>4. QED
      BY <3>1, <3>2, <3>3
  <2>6. CASE ~(get_place_add(t) /\ i = <<new[t], "place">>) /\ ~(get_root_add(t) /\ i = <<new[t], "root">>)
    <3>1. m_dentry[i] = d
      BY <1>6, <2>6, WritesOfEntry
    <3>2. m_count[i] = Cardinality(MountsAt(d)) + Cardinality(UsersOf(i)) + leaked[i] + Rooted(i)
      BY <2>3, <3>1
    <3>8. get_place_garbage(t) =>
            /\ ~get_place_shared(t) /\ ~get_place_add(t) /\ ~mnt_set_mountpoint(t)
            /\ ~put_mountpoint(t)
      <4>1. get_place_garbage(t) => pc[t] = "get_mp" /\ pc'[t] # "graft"
        BY <1>1, Flow
      <4>2. QED
        BY <1>1, <4>1, Flow
    <3>9. ~get_place_garbage(t) => leaked' = leaked
      BY Writes
    <3>10. CASE get_place_garbage(t) /\ m_count'[i] = m_count[i] + 1 /\ leaked'[i] = leaked[i] + 1
      <4>1. MountsAt(d)' = MountsAt(d) /\ UsersOf(i)' = UsersOf(i)
        BY <3>8, <3>10, MountsMove, UsersChange
      <4>2. QED
        BY <1>3, <2>1, <3>2, <3>10, <4>1
    <3>3. CASE get_place_shared(t) /\ mp'[t] = i
      <4>1. /\ m_count'[i] = m_count[i] + 1 /\ MountsAt(d)' = MountsAt(d)
            /\ UsersOf(i)' = UsersOf(i) \cup {t} /\ t \notin UsersOf(i)
        <5>1. ~mnt_set_mountpoint(t) /\ ~put_mountpoint(t) /\ mp[t] # i
          BY <1>1, <3>3, Flow DEF EntriesAreHeld, EntryPc, MountpointIds, NoMp
        <5>2. QED
          BY <1>1, <2>6, <3>3, <5>1, Flow, MountsMove, WritesOfCount, UsersChange
      <4>2. QED
        BY <2>1, <2>2, <3>2, <3>3, <3>8, <3>9, <4>1, <1>3
    <3>4. CASE mnt_set_mountpoint(t) /\ mp[t] = i
      <4>1. /\ m_count'[i] = m_count[i] + 1 /\ UsersOf(i)' = UsersOf(i)
            /\ MountsAt(d)' = MountsAt(d) \cup {new[t]} /\ new[t] \notin MountsAt(d)
        <5>1. path[t].dentry = d
          BY <1>4, <3>1, <3>4
        <5>2. ~get_place_shared(t) /\ ~get_place_add(t) /\ ~put_mountpoint(t)
          BY <1>1, <3>4, Flow
        <5>3. QED
          BY <1>1, <2>6, <3>4, <5>1, <5>2, MountsMove, WritesOfCount, UsersChange
      <4>2. QED
        BY <2>1, <2>2, <3>2, <3>4, <3>8, <3>9, <4>1, <1>3
    <3>5. CASE put_mountpoint(t) /\ mp[t] = i
      <4>1. ~get_place_shared(t) /\ ~get_place_add(t) /\ ~mnt_set_mountpoint(t)
        BY <1>1, <3>5, Flow
      <4>2. m_count'[i] = m_count[i] - 1 /\ MountsAt(d)' = MountsAt(d)
        BY <1>1, <2>6, <3>5, <3>8, <4>1, MountsMove, WritesOfCount
      <4>3. UsersOf(i)' = UsersOf(i) \ {t} /\ t \in UsersOf(i)
        <5>1. mp'[t] # i /\ mp[t] = i
          BY <1>1, <3>5, Roots DEF put_mountpoint, Typed
        <5>2. QED
          BY <4>1, <5>1, UsersChange
      <4>4. QED
        BY <2>1, <2>2, <3>2, <3>5, <3>8, <3>9, <4>2, <4>3, <1>3
    <3>6. CASE /\ ~(get_place_shared(t) /\ mp'[t] = i) /\ ~(mnt_set_mountpoint(t) /\ mp[t] = i)
               /\ ~(put_mountpoint(t) /\ mp[t] = i)
               /\ ~(get_place_garbage(t) /\ m_count'[i] = m_count[i] + 1 /\ leaked'[i] = leaked[i] + 1)
      <4>1. m_count'[i] = m_count[i] /\ leaked'[i] = leaked[i]
        BY <1>1, <2>6, <3>6, WritesOfCount
      <4>2. UsersOf(i)' = UsersOf(i)
        BY <2>6, <3>6, UsersChange
      <4>3. MountsAt(d)' = MountsAt(d)
        <5>1. mnt_set_mountpoint(t) => path[t].dentry # d
          <6>1. mnt_set_mountpoint(t) => /\ mp[t] \in MountpointIds
                                         /\ m_dentry[mp[t]] = path[t].dentry
            BY <1>1, Flow DEF EntriesAreHeld, EntryPc, Typed
          <6>2. QED
            BY <1>1, <1>6, <3>1, <3>6, <6>1 DEF OneEntry
        <5>2. QED
          BY <5>1, MountsMove
      <4>4. QED
        BY <3>2, <4>1, <4>2, <4>3
    <3>7. QED
      BY <3>3, <3>4, <3>5, <3>6, <3>10
  <2>7. QED
    BY <2>4, <2>5, <2>6
<1>7. QED
  <2>1. ASSUME NEW i \in MountpointIds, m_dentry'[i] # NoDentry
        PROVE  m_count'[i] = Cardinality({m \in Attached' : mnt_mountpoint'[m] = m_dentry'[i]})
                             + Cardinality({u \in Threads : mp'[u] = i})
                             + leaked'[i] + Rooted(i)
    <3>1. PICK d : d = m_dentry'[i]
      OBVIOUS
    <3>2. m_count'[i] = Cardinality(MountsAt(d)') + Cardinality(UsersOf(i)') + leaked'[i]
                        + Rooted(i)
      BY <1>6, <2>1, <3>1
    <3>3. QED
      BY <3>1, <3>2 DEF MountsAt, UsersOf
  <2>2. leaked' \in [MountpointIds -> Nat]
    BY <1>1, WritesOfCount
  <2>3. QED
    BY <1>5, <2>1, <2>2 DEF CountsAreExact, MountsAt, UsersOf

\* The last put of an entry finds no leaked count.
LEMMA NextLeaksAreKept ==
  ASSUME FiniteSystem, Tree, Table, NEW t \in Threads, Step(t)
  PROVE  LeaksAreKept'
<1>1. /\ Typed /\ EntriesAreHeld /\ LeaksAreKept /\ PathsAreAttached
      /\ m_count \in [MountpointIds -> Nat] /\ leaked \in [MountpointIds -> Nat]
  BY DEF Tree, Table, CountsAreExact
<1> SUFFICES ASSUME NEW i \in MountpointIds, m_dentry'[i] = NoDentry
             PROVE  leaked'[i] = 0
  BY DEF LeaksAreKept
<1>2. CASE m_dentry[i] = NoDentry
  <2>1. leaked[i] = 0
    BY <1>1, <1>2 DEF LeaksAreKept
  <2>2. CASE get_place_garbage(t)
    <3>1. PICK j \in MountpointIds : /\ SharedMountpoint(path[t].dentry, j)
                                     /\ leaked' = [leaked EXCEPT ![j] = @ + 1]
      BY <2>2 DEF get_place_garbage
    <3>2. m_dentry[j] = path[t].dentry /\ path[t].dentry # NoDentry
      BY <1>1, <2>2, <3>1, Flow, Roots DEF SharedMountpoint, MountpointsOf, PathsAreAttached
    <3>3. QED
      BY <1>1, <1>2, <2>1, <3>1, <3>2
  <2>3. QED
    BY <2>1, <2>2, Writes
<1>3. CASE m_dentry[i] # NoDentry
  <2>1. put_mountpoint(t) /\ i = mp[t] /\ m_count[i] = 1
    <3>1. get_place_add(t) => path[t].dentry # NoDentry
      BY <1>1, Flow, Roots DEF PathsAreAttached
    <3>2. QED
      BY <1>3, <3>1, WritesOfEntry
  <2>2. leaked' = leaked
    BY <1>1, <2>1, Flow, Writes
  <2>3. t \in UsersOf(i)
    BY <2>1 DEF UsersOf
  <2>4. m_count[i] = Cardinality(MountsAt(m_dentry[i])) + Cardinality(UsersOf(i)) + leaked[i]
                     + (IF i[2] = "root" THEN 1 ELSE 0)
    BY <1>3 DEF Table, CountsAreExact
  <2>5. /\ Cardinality(MountsAt(m_dentry[i])) \in Nat
        /\ Cardinality(UsersOf(i)) \in Nat /\ Cardinality(UsersOf(i)) >= 1
    BY <2>3, FiniteCounts
  <2>6. leaked[i] \in Nat
    BY <1>1
  <2>7. leaked[i] = 0
    BY <2>1, <2>4, <2>5, <2>6
  <2>8. QED
    BY <2>2, <2>7
<1>4. QED
  BY <1>2, <1>3

-----------------------------------------------------------------------------
(* What follows. *)

LEMMA InitIInv == FiniteSystem /\ Init => IInv
<1> SUFFICES ASSUME FiniteSystem, Init
             PROVE  IInv
  OBVIOUS
<1>1. Tree
  BY InitTree
<1>2. OneEntry /\ EntriesAreMissing /\ MountsHaveEntries
  BY DEF Init, OneEntry, EntriesAreMissing, MountsHaveEntries, attached
<1>3. CountsAreExact /\ LeaksAreKept
  BY DEF Init, CountsAreExact, LeaksAreKept
<1>4. QED
  BY <1>1, <1>2, <1>3 DEF IInv, Table

LEMMA NextIInv ==
  ASSUME FiniteSystem
  PROVE  IInv /\ [Next]_vars => IInv'
<1> SUFFICES ASSUME IInv, [Next]_vars
             PROVE  IInv'
  OBVIOUS
<1>1. Tree'
  BY NextTree DEF IInv
<1>2. Table'
  <2>1. CASE Next
    <3>1. PICK t \in Threads : Step(t)
      BY <2>1 DEF Next, Step
    <3>2. Tree /\ Table /\ OneEntry /\ EntriesAreMissing
      BY DEF IInv, Table
    <3>3. QED
      BY <3>1, <3>2, NextOneEntry, NextEntriesAreMissing, NextMountsHaveEntries,
         NextCountsAreExact, NextLeaksAreKept DEF Table
  <2>2. CASE UNCHANGED vars
    BY <2>2 DEF vars, tree, table, local, IInv, Table, OneEntry, EntriesAreMissing,
         MountsHaveEntries, CountsAreExact, LeaksAreKept, MountpointsOf, MountsAt, UsersOf,
         Attached, attached
  <2>3. QED
    BY <2>1, <2>2
<1>3. QED
  BY <1>1, <1>2 DEF IInv

\* Every variable keeps its type: no put takes a count below zero.
THEOREM MountTypeCorrect ==
  ASSUME FiniteSystem
  PROVE  Spec => []TypeOK
<1>1. Init => IInv
  BY InitIInv
<1>2. IInv /\ [Next]_vars => IInv'
  BY NextIInv
<1>3. IInv => TypeOK
  BY DEF IInv, Tree, Typed, Table, CountsAreExact, TypeOK
<1>4. QED
  BY <1>1, <1>2, <1>3, PTL DEF Spec

\* A dentry has one entry in the table of mountpoints, whose count is the
\* number of its users and of the calls that leaked one: no put frees an
\* entry in use.
THEOREM EntriesAreCounted ==
  ASSUME FiniteSystem
  PROVE  Spec => []TableIsExact
<1>1. Init => IInv
  BY InitIInv
<1>2. IInv /\ [Next]_vars => IInv'
  BY NextIInv
<1>3. IInv => TableIsExact
  <2> SUFFICES ASSUME IInv, NEW i \in MountpointIds, m_dentry[i] # NoDentry
               PROVE  /\ MountpointsOf(m_dentry[i]) = {i}
                      /\ m_count[i] = Cardinality(MountsAt(m_dentry[i])) + Cardinality(UsersOf(i))
                                      + leaked[i] + (IF i[2] = "root" THEN 1 ELSE 0)
    BY DEF TableIsExact, MountsAt, UsersOf
  <2>1. MountpointsOf(m_dentry[i]) = {i}
    BY DEF IInv, Table, OneEntry, MountpointsOf
  <2>2. QED
    BY <2>1 DEF IInv, Table, CountsAreExact
<1>4. QED
  BY <1>1, <1>2, <1>3, PTL DEF Spec

\* A walk never goes past a mount: DCACHE_MOUNTED is up on every dentry with
\* something mounted on it, and the entry a call holds is in the table.
THEOREM WalksSeeMounts ==
  ASSUME FiniteSystem
  PROVE  Spec => []MountsAreSeen
<1>1. Init => IInv
  BY InitIInv
<1>2. IInv /\ [Next]_vars => IInv'
  BY NextIInv
<1>3. IInv => MountsAreSeen
  <2> SUFFICES ASSUME IInv
               PROVE  MountsAreSeen
    OBVIOUS
  <2>1. ASSUME NEW m \in attached
        PROVE  mnt_mountpoint[m] \in flagged
    <3>1. PICK i \in MountpointIds : m_dentry[i] = mnt_mountpoint[m]
      BY DEF IInv, Table, MountsHaveEntries, MountpointsOf
    <3>2. mnt_mountpoint[m] # NoDentry
      BY Roots DEF IInv, Tree, Typed, attached
    <3>3. QED
      BY <3>1, <3>2 DEF IInv, Table, OneEntry
  <2>2. QED
    BY <2>1 DEF MountsAreSeen, IInv, Tree, EntriesAreHeld
<1>4. QED
  BY <1>1, <1>2, <1>3, PTL DEF Spec

-----------------------------------------------------------------------------
(***************************************************************************)
(* What a walk may count on: PathWalk assumes a forest of mounts           *)
(* (ForestAssumption), and mounting keeps one.                             *)
(***************************************************************************)
RootPlace(m) == [mnt |-> m, dentry |-> RootOf[m]]

\* As lookup_mnt finds it: a mount that is not in the table is nowhere.
PlaceOf(m) ==
  IF m \in mounted THEN [mnt |-> mnt_parent[m], dentry |-> mnt_mountpoint[m]]
  ELSE RootPlace(m)

MountsAreAForest ==
  /\ lost = {} =>
       \A m, n \in Mounts :
         PlaceOf(m) = PlaceOf(n) =>
           m = n \/ PlaceOf(m) = RootPlace(m) \/ PlaceOf(n) = RootPlace(n)
  /\ \E depth \in [Mounts -> 0 .. Cardinality(Mounts)] :
       \A m \in Mounts : PlaceOf(m) # RootPlace(m) => depth[PlaceOf(m).mnt] < depth[m]

\* No two mounts share a place while none was lost, and a mount is deeper than
\* its parent, lost or not.
PlacesAreApart ==
  lost = {} => \A m, n \in attached : mnt_mountpoint[m] = mnt_mountpoint[n] => m = n

Deepens(depth) ==
  /\ depth \in [Mounts -> Nat]
  /\ \A m \in Mounts : depth[m] <= Cardinality(attached)
  /\ \A m \in attached : depth[mnt_parent[m]] < depth[m]

Grown == PlacesAreApart /\ \E depth \in [Mounts -> Nat] : Deepens(depth)

LEMMA NextGrown ==
  ASSUME FiniteSystem, Tree, Grown, [Next]_vars
  PROVE  Grown'
<1>1. CASE UNCHANGED vars
  BY <1>1 DEF vars, tree, attached, Grown, PlacesAreApart, Deepens
<1>2. ASSUME NEW t \in Threads, Step(t)
      PROVE  Grown'
  <2>1. /\ attached \subseteq NewMounts /\ NewMounts \subseteq Mounts /\ RootMnt \notin NewMounts
        /\ \A m \in attached : mnt_parent[m] \in attached \cup {RootMnt}
        /\ \A m \in attached : /\ mnt_parent'[m] = mnt_parent[m]
                              /\ mnt_mountpoint'[m] = mnt_mountpoint[m]
    BY <1>2, MountsStay DEF Tree, Typed, ParentsAreAttached, NewMounts, attached
  <2>2. CASE attached' = attached
    <3>1. PlacesAreApart'
      BY <1>2, <2>1, <2>2, Writes DEF Grown, PlacesAreApart
    <3>2. \A depth : Deepens(depth) => Deepens(depth)'
      BY <2>1, <2>2 DEF Deepens
    <3> QED
      BY <3>1, <3>2 DEF Grown
  <2>3. CASE attached' # attached
    <3> DEFINE m == new[t]
    <3>1. /\ pc[t] = "insert" /\ m \in NewMounts /\ m \notin attached
          /\ attached' = attached \cup {m}
          /\ mnt_parent' = mnt_parent /\ mnt_mountpoint' = mnt_mountpoint
          /\ mnt_parent[m] = path[t].mnt /\ mnt_mountpoint[m] = path[t].dentry
      BY <1>2, <2>3, MountsStay
    <3>2. /\ path[t].mnt \in attached \cup {RootMnt}
          /\ lost = {} => \A k \in attached : mnt_mountpoint[k] # path[t].dentry
          /\ lost' = {} => lost = {}
      BY <1>2, <3>1, Writes DEF Tree, PathsAreAttached, PlacesStayFree, InsertPc
    <3> HIDE DEF m
    <3>3. PlacesAreApart'
      BY <3>1, <3>2 DEF Grown, PlacesAreApart
    <3>4. /\ Cardinality(attached) \in Nat
          /\ Cardinality(attached') = Cardinality(attached) + 1
      <4>1. IsFiniteSet(attached)
        BY <2>1, FS_Subset DEF FiniteSystem, NewMounts
      <4> QED
        BY <3>1, <4>1, FS_AddElement, FS_CardinalityType
    <3>5. PICK depth \in [Mounts -> Nat] : Deepens(depth)
      BY DEF Grown
    <3> DEFINE p == path[t].mnt
    <3>6. /\ m \in Mounts /\ p \in Mounts /\ p # m /\ depth[p] \in Nat
          /\ depth[p] <= Cardinality(attached)
      BY <2>1, <3>1, <3>2, <3>5, ConfigAssumption DEF Deepens
    <3>7. PICK deeper \in [Mounts -> Nat] :
            /\ deeper[m] = depth[p] + 1
            /\ \A k \in Mounts : k # m => deeper[k] = depth[k]
      <4> DEFINE x == [depth EXCEPT ![m] = depth[p] + 1]
      <4>1. /\ x \in [Mounts -> Nat] /\ x[m] = depth[p] + 1
            /\ \A k \in Mounts : k # m => x[k] = depth[k]
        BY <3>6
      <4> HIDE DEF x
      <4> QED
        BY <4>1
    <3> HIDE DEF p
    <3>8. \A k \in Mounts : deeper[k] <= Cardinality(attached')
      BY <3>4, <3>5, <3>6, <3>7 DEF Deepens
    <3>9. ASSUME NEW k \in attached'
          PROVE  deeper[mnt_parent'[k]] < deeper[k]
      <4>1. CASE k = m
        <5>1. mnt_parent'[k] = p /\ deeper[p] = depth[p]
          BY <3>1, <3>6, <3>7, <4>1 DEF p
        <5> QED
          BY <3>6, <3>7, <4>1, <5>1
      <4>2. CASE k # m
        <5>1. /\ k \in attached /\ k \in Mounts /\ mnt_parent'[k] = mnt_parent[k]
              /\ mnt_parent[k] # m /\ mnt_parent[k] \in Mounts
          BY <2>1, <3>1, <3>9, <4>2, ConfigAssumption
        <5>2. depth[mnt_parent[k]] < depth[k]
          BY <3>5, <5>1 DEF Deepens
        <5> QED
          BY <3>7, <4>2, <5>1, <5>2
      <4> QED
        BY <4>1, <4>2
    <3>10. Deepens(deeper)'
      BY <3>7, <3>8, <3>9 DEF Deepens
    <3> QED
      BY <3>3, <3>7, <3>10 DEF Grown
  <2> QED
    BY <2>2, <2>3
<1> QED
  BY <1>1, <1>2 DEF Next, Step

\* However calls that mount and remove interleave, the mounts are a forest no
\* deeper than their number (lookup_mnt, attach_recursive_mnt), inserts lost or
\* not: the climbs of a walk over them end.  And until one is lost a place
\* holds one mount.
THEOREM MountsStayAForest ==
  ASSUME FiniteSystem
  PROVE  Spec => []MountsAreAForest
<1>1. Init => Tree /\ Grown
  <2> SUFFICES ASSUME Init
               PROVE  Grown
    BY InitTree
  <2>1. attached = {}
    BY DEF Init, attached
  <2> DEFINE depth == [m \in Mounts |-> 0]
  <2>2. depth \in [Mounts -> Nat] /\ \A m \in Mounts : depth[m] = 0
    OBVIOUS
  <2> HIDE DEF depth
  <2>3. Deepens(depth)
    BY <2>1, <2>2, FS_EmptySet DEF Deepens
  <2> QED
    BY <2>1, <2>2, <2>3 DEF Grown, PlacesAreApart
<1>2. Tree /\ Grown /\ [Next]_vars => Tree' /\ Grown'
  BY NextTree, NextGrown
<1>3. Tree /\ Grown => MountsAreAForest
  <2> SUFFICES ASSUME Tree, Grown
               PROVE  MountsAreAForest
    OBVIOUS
  <2>1. /\ attached \subseteq Mounts /\ mnt_parent \in [Mounts -> Mounts]
        /\ IsFiniteSet(Mounts) /\ IsFiniteSet(attached)
    BY FS_Subset DEF Tree, Typed, NewMounts, FiniteSystem, attached
  <2>2. Cardinality(attached) \in Nat /\ Cardinality(Mounts) \in Nat
        /\ Cardinality(attached) <= Cardinality(Mounts)
    BY <2>1, FS_Subset, FS_CardinalityType
  <2>3. ASSUME lost = {}, NEW m \in Mounts, NEW n \in Mounts, PlaceOf(m) = PlaceOf(n),
               PlaceOf(m) # RootPlace(m), PlaceOf(n) # RootPlace(n)
        PROVE  m = n
    BY <2>3 DEF PlaceOf, Grown, PlacesAreApart, attached
  <2>4. PICK depth \in [Mounts -> Nat] : Deepens(depth)
    BY DEF Grown
  <2>5. depth \in [Mounts -> 0 .. Cardinality(Mounts)]
    <3>1. \A m \in Mounts : depth[m] \in 0 .. Cardinality(Mounts)
      BY <2>2, <2>4 DEF Deepens
    <3> QED
      BY <3>1
  <2>6. \A m \in Mounts : PlaceOf(m) # RootPlace(m) => depth[PlaceOf(m).mnt] < depth[m]
    BY <2>4 DEF PlaceOf, Deepens, attached
  <2> QED
    BY <2>3, <2>5, <2>6 DEF MountsAreAForest
<1> QED
  BY <1>1, <1>2, <1>3, PTL DEF Spec
=============================================================================
