----------------------------- MODULE MountTree ------------------------------
(***************************************************************************)
(* Mounting: the mount tree, the table of mountpoints and the inode lock   *)
(* of the mountpoint (mnt/namespace.c), with the path traversal that finds *)
(* the place (private/namei.c) and the rmdir that may take it away         *)
(* (api/rmdir.c).                                                          *)
(*                                                                         *)
(* namespace_lock, lock_mount_hash, mntget and mntput are stubs here: what *)
(* keeps two mounts apart is only the inode lock of the place they mount   *)
(* on, held from do_lock_mount to unlock_mount.  umount changes nothing:   *)
(* can_umount and do_umount are stubs.  Every mount makes a superblock of  *)
(* its own (sget_fc never finds an old one), so a dentry belongs to one    *)
(* mount.  Reference counts of dentries are the subject of Dput.  No       *)
(* dentry a walk reaches is unhashed (__d_drop is a stub), so d_unlinked   *)
(* never makes get_mountpoint say ENOENT.                                  *)
(***************************************************************************)
EXTENDS Naturals, FiniteSets

CONSTANTS
  Threads,     \* the tasks that call mount and rmdir
  Dentries,    \* directories and files of all the file systems
  Mounts,      \* bound: the mounts that can ever be made
  RootMnt,     \* the mount made at boot
  Fs,          \* the mount whose file system a dentry belongs to
  RootOf,      \* mnt_root
  IsDir,       \* d_is_dir
  NoUser,      \* mounts whose superblock has SB_NOUSER
  m_hash,      \* the bucket of mount_hashtable for a mount and a dentry
  NoMnt, NoDentry, NoOwner

NewMounts == Mounts \ {RootMnt}

\* A mount uses at most two struct mountpoint: the one of the place it is
\* mounted on and the one attach_recursive_mnt makes of its own root.
MountpointIds == NewMounts \X {"place", "root"}
NoMp == <<NoMnt, "none">>

ASSUME ConfigAssumption ==
  /\ RootMnt \in Mounts
  /\ Fs \in [Dentries -> Mounts] /\ RootOf \in [Mounts -> Dentries]
  /\ \A m \in Mounts : Fs[RootOf[m]] = m
  /\ IsDir \subseteq Dentries /\ NoUser \subseteq Mounts
  /\ DOMAIN m_hash = Mounts \X Dentries
  /\ NoMnt \notin Mounts /\ NoDentry \notin Dentries /\ NoOwner \notin Threads

VARIABLES
  fresh,           \* mounts not made yet
  mounted,         \* mounts in mount_hashtable
  lost,            \* history: mounts that the insert of another one dropped
  mnt_parent, mnt_mountpoint,   \* of each mount
  m_dentry,        \* of each mountpoint in mountpoint_hashtable, else NoDentry
  m_count,         \* its count of users
  flagged,         \* dentries with DCACHE_MOUNTED
  leaked,          \* history: counts of each mountpoint nobody will put
  cant_mount,      \* dentries with DCACHE_CANT_MOUNT
  i_rwsem,         \* the thread that holds the inode lock of a dentry
  pc,
  path,            \* the caller's struct path
  new,             \* the mount a thread is making
  mp,              \* the mountpoint do_lock_mount returned to it
  chain            \* the bucket's mounts as hlist_add_head_rcu read its head

\* Where a call that mounts is, and one that removes a directory.  A thread
\* that went on with a wild pointer is "undefined".
MountPc == {"traverse", "create", "lock", "locked", "get_mp", "add_mp", "graft",
            "add_root", "set_mp", "commit", "insert", "put_mp", "unlock"}
RmdirPc == {"rmdir", "rmdir_unlock"}

tree == <<mounted, lost, mnt_parent, mnt_mountpoint>>
table == <<m_dentry, m_count, flagged, leaked>>
local == <<path, new, mp, chain>>
vars == <<fresh, tree, table, cant_mount, i_rwsem, pc, local>>

Init ==
  /\ fresh = NewMounts
  /\ mounted = {} /\ lost = {}
  /\ mnt_parent = [m \in Mounts |-> m]
  /\ mnt_mountpoint = RootOf
  /\ m_dentry = [i \in MountpointIds |-> NoDentry]
  /\ m_count = [i \in MountpointIds |-> 0]
  /\ leaked = [i \in MountpointIds |-> 0]
  /\ flagged = {} /\ cant_mount = {}
  /\ i_rwsem = [d \in Dentries |-> NoOwner]
  /\ pc = [t \in Threads |-> "idle"]
  /\ path = [t \in Threads |-> [mnt |-> NoMnt, dentry |-> NoDentry]]
  /\ new = [t \in Threads |-> NoMnt]
  /\ mp = [t \in Threads |-> NoMp]
  /\ chain = [t \in Threads |-> {}]

\* Nothing is said of a program whose behaviour has become undefined.
Defined == \A t \in Threads : pc[t] # "undefined"

Go(t, from, to) == Defined /\ pc[t] = from /\ pc' = [pc EXCEPT ![t] = to]

inode_lock(t, d) == i_rwsem[d] = NoOwner /\ i_rwsem' = [i_rwsem EXCEPT ![d] = t]
inode_unlock(d) == i_rwsem' = [i_rwsem EXCEPT ![d] = NoOwner]

\* lookup_mnt: what is mounted on a path.
Covering(p) ==
  {m \in mounted : mnt_parent[m] = p.mnt /\ mnt_mountpoint[m] = p.dentry}

\* lookup_mountpoint: the entries of the table for a dentry.
MountpointsOf(d) == {i \in MountpointIds : m_dentry[i] = d}

\* The bucket of mount_hashtable that a mount belongs to.
Bucket(m) ==
  {n \in mounted : m_hash[mnt_parent[n], mnt_mountpoint[n]]
                    = m_hash[mnt_parent[m], mnt_mountpoint[m]]}

Cross(t) ==
  \E m \in Covering(path[t]) :
     path' = [path EXCEPT ![t] = [mnt |-> m, dentry |-> RootOf[m]]]

-----------------------------------------------------------------------------
(***************************************************************************)
(* do_mount: the walk reaches a dentry of some mounted file system and     *)
(* then follows the mounts on top of it.                                   *)
(***************************************************************************)
do_mount(t) ==
  /\ Go(t, "idle", "traverse")
  /\ \E d \in Dentries :
       /\ Fs[d] \in mounted \cup {RootMnt}
       /\ path' = [path EXCEPT ![t] = [mnt |-> Fs[d], dentry |-> d]]
  /\ \E m \in fresh :
       /\ fresh' = fresh \ {m}
       /\ new' = [new EXCEPT ![t] = m]
  /\ UNCHANGED <<tree, table, cant_mount, i_rwsem, mp, chain>>

\* __traverse_mounts: one mount crossed, only if the dentry is flagged.
traverse_mounts(t) ==
  /\ Defined /\ pc[t] = "traverse"
  /\ path[t].dentry \in flagged
  /\ Cross(t)
  /\ UNCHANGED <<fresh, tree, table, cant_mount, i_rwsem, pc, new, mp, chain>>

traverse_done(t) ==
  /\ path[t].dentry \in flagged => Covering(path[t]) = {}
  /\ Go(t, "traverse", "create")
  /\ UNCHANGED <<fresh, tree, table, cant_mount, i_rwsem, local>>

\* do_new_mount: an option, the file system or vfs_create_mount may fail;
\* otherwise the mount is there, its own parent, mounted on its own root.
vfs_create_mount(t) ==
  /\ Go(t, "create", "lock")
  /\ mnt_parent' = [mnt_parent EXCEPT ![new[t]] = new[t]]
  /\ mnt_mountpoint' = [mnt_mountpoint EXCEPT ![new[t]] = RootOf[new[t]]]
  /\ UNCHANGED <<fresh, mounted, lost, table, cant_mount, i_rwsem, local>>

do_new_mount_fails(t) ==
  /\ Go(t, "create", "idle")
  /\ UNCHANGED <<fresh, tree, table, cant_mount, i_rwsem, local>>

(***************************************************************************)
(* do_lock_mount: climb to the top of the stack on the path, one inode     *)
(* lock at a time, and get the mountpoint under the last of them.          *)
(***************************************************************************)
lock_place(t) ==
  /\ Go(t, "lock", "locked")
  /\ inode_lock(t, path[t].dentry)
  /\ UNCHANGED <<fresh, tree, table, cant_mount, local>>

\* ENOENT without inode_unlock (mutant).
lock_dead_locked(t) ==
  /\ path[t].dentry \in cant_mount
  /\ Go(t, "locked", "idle")
  /\ UNCHANGED <<fresh, tree, table, cant_mount, i_rwsem, local>>

lock_dead(t) ==
  /\ path[t].dentry \in cant_mount
  /\ Go(t, "locked", "idle")
  /\ inode_unlock(path[t].dentry)
  /\ UNCHANGED <<fresh, tree, table, cant_mount, local>>

lock_covered(t) ==
  /\ path[t].dentry \notin cant_mount
  /\ Go(t, "locked", "lock")
  /\ Cross(t)
  /\ inode_unlock(path[t].dentry)
  /\ UNCHANGED <<fresh, tree, table, cant_mount, new, mp, chain>>

\* cant_mount is not looked at again (mutant).
lock_top_blind(t) ==
  /\ Covering(path[t]) = {}
  /\ Go(t, "locked", "get_mp")
  /\ UNCHANGED <<fresh, tree, table, cant_mount, i_rwsem, local>>

lock_top(t) ==
  /\ path[t].dentry \notin cant_mount
  /\ Covering(path[t]) = {}
  /\ Go(t, "locked", "get_mp")
  /\ UNCHANGED <<fresh, tree, table, cant_mount, i_rwsem, local>>

(***************************************************************************)
(* get_mountpoint(d): share the entry of a flagged dentry, or flag the     *)
(* dentry and then add an entry.  d_set_mounted never says EBUSY.  On the  *)
(* way through a found entry its `ret' is never assigned                   *)
(* (namespace.c:147): do_lock_mount finds whatever is there.               *)
(***************************************************************************)
SharedMountpoint(d, i) ==
  /\ d \in flagged
  /\ i \in MountpointsOf(d)
  /\ m_count' = [m_count EXCEPT ![i] = @ + 1]
  /\ UNCHANGED <<m_dentry, flagged>>

d_set_mounted(d) ==
  /\ d \in flagged => MountpointsOf(d) = {}
  /\ flagged' = flagged \cup {d}
  /\ UNCHANGED <<m_dentry, m_count, leaked>>

AddMountpoint(d, i) ==
  /\ m_dentry' = [m_dentry EXCEPT ![i] = d]
  /\ m_count' = [m_count EXCEPT ![i] = 1]
  /\ UNCHANGED <<flagged, leaked>>

\* `ret' happens to be 0: the call goes on with the entry it found.
get_place_shared(t) ==
  /\ Go(t, "get_mp", "graft")
  /\ \E i \in MountpointIds :
       /\ SharedMountpoint(path[t].dentry, i)
       /\ mp' = [mp EXCEPT ![t] = i]
  /\ UNCHANGED <<fresh, tree, leaked, cant_mount, i_rwsem, path, new, chain>>

\* Any other value: the inode is unlocked, the count of the entry stays, and
\* ERR_PTR(ret) is an error for the caller if it lies in the range of IS_ERR,
\* a pointer that graft_tree and unlock_mount follow if it does not.
get_place_garbage(t) ==
  /\ \E to \in {"idle", "undefined"} : Go(t, "get_mp", to)
  /\ \E i \in MountpointIds :
       /\ SharedMountpoint(path[t].dentry, i)
       /\ leaked' = [leaked EXCEPT ![i] = @ + 1]
  /\ inode_unlock(path[t].dentry)
  /\ UNCHANGED <<fresh, tree, cant_mount, local>>

get_place_flag(t) ==
  /\ Go(t, "get_mp", "add_mp")
  /\ d_set_mounted(path[t].dentry)
  /\ UNCHANGED <<fresh, tree, cant_mount, i_rwsem, local>>

get_place_add(t) ==
  /\ Go(t, "add_mp", "graft")
  /\ AddMountpoint(path[t].dentry, <<new[t], "place">>)
  /\ mp' = [mp EXCEPT ![t] = <<new[t], "place">>]
  /\ UNCHANGED <<fresh, tree, cant_mount, i_rwsem, path, new, chain>>

\* ENOMEM for an entry: nothing was flagged yet.
get_place_fails(t) ==
  /\ path[t].dentry \in flagged => MountpointsOf(path[t].dentry) = {}
  /\ Go(t, "get_mp", "idle")
  /\ inode_unlock(path[t].dentry)
  /\ UNCHANGED <<fresh, tree, table, cant_mount, local>>

(***************************************************************************)
(* graft_tree and attach_recursive_mnt.  The entry of the new mount's own  *)
(* root is never put back: its count stays.                                *)
(***************************************************************************)
MayGraft(t) ==
  /\ new[t] \notin NoUser
  /\ (m_dentry[mp[t]] \in IsDir) = (RootOf[new[t]] \in IsDir)

graft_refused(t) ==
  /\ Go(t, "graft", "put_mp")
  /\ ~MayGraft(t)
  /\ UNCHANGED <<fresh, tree, table, cant_mount, i_rwsem, local>>

get_root_flag(t) ==
  /\ Go(t, "graft", "add_root")
  /\ MayGraft(t)
  /\ d_set_mounted(RootOf[new[t]])
  /\ UNCHANGED <<fresh, tree, cant_mount, i_rwsem, local>>

get_root_add(t) ==
  /\ Go(t, "add_root", "set_mp")
  /\ AddMountpoint(RootOf[new[t]], <<new[t], "root">>)
  /\ UNCHANGED <<fresh, tree, cant_mount, i_rwsem, local>>

get_root_fails(t) ==
  /\ Go(t, "graft", "put_mp")
  /\ MayGraft(t)
  /\ UNCHANGED <<fresh, tree, table, cant_mount, i_rwsem, local>>

\* m_count++ forgotten (mutant).
mnt_set_mountpoint_uncounted(t) ==
  /\ Go(t, "set_mp", "commit")
  /\ mnt_parent' = [mnt_parent EXCEPT ![new[t]] = path[t].mnt]
  /\ mnt_mountpoint' = [mnt_mountpoint EXCEPT ![new[t]] = m_dentry[mp[t]]]
  /\ UNCHANGED <<fresh, mounted, lost, table, cant_mount, i_rwsem, local>>

mnt_set_mountpoint(t) ==
  /\ Go(t, "set_mp", "commit")
  /\ m_count' = [m_count EXCEPT ![mp[t]] = @ + 1]
  /\ mnt_parent' = [mnt_parent EXCEPT ![new[t]] = path[t].mnt]
  /\ mnt_mountpoint' = [mnt_mountpoint EXCEPT ![new[t]] = m_dentry[mp[t]]]
  /\ UNCHANGED <<fresh, mounted, lost, m_dentry, flagged, leaked, cant_mount,
                 i_rwsem, local>>

\* hlist_add_head_rcu reads the head of the bucket and then replaces it, with
\* no lock: lock_mount_hash is a stub, and not called here.  Mounts that came
\* in between are no longer reached from the new head.
commit_tree(t) ==
  /\ Go(t, "commit", "insert")
  /\ chain' = [chain EXCEPT ![t] = Bucket(new[t])]
  /\ UNCHANGED <<fresh, tree, table, cant_mount, i_rwsem, path, new, mp>>

attach_mnt(t) ==
  /\ Go(t, "insert", "put_mp")
  /\ mounted' = (mounted \ Bucket(new[t])) \cup chain[t] \cup {new[t]}
  /\ lost' = lost \cup (Bucket(new[t]) \ chain[t])
  /\ chain' = [chain EXCEPT ![t] = {}]
  /\ UNCHANGED <<fresh, mnt_parent, mnt_mountpoint, table, cant_mount, i_rwsem,
                 path, new, mp>>

\* Two users put at once (mutant).
put_mountpoint_twice(t) ==
  /\ Go(t, "put_mp", "unlock")
  /\ m_count' = [m_count EXCEPT ![mp[t]] = @ - 2]
  /\ \/ /\ m_count[mp[t]] <= 2
        /\ flagged' = flagged \ {m_dentry[mp[t]]}
        /\ m_dentry' = [m_dentry EXCEPT ![mp[t]] = NoDentry]
     \/ /\ m_count[mp[t]] > 2
        /\ UNCHANGED <<flagged, m_dentry>>
  /\ mp' = [mp EXCEPT ![t] = NoMp]
  /\ UNCHANGED <<fresh, tree, leaked, cant_mount, i_rwsem, path, new, chain>>

\* Every put takes the entry away (mutant).
put_mountpoint_clears(t) ==
  /\ Go(t, "put_mp", "unlock")
  /\ m_count' = [m_count EXCEPT ![mp[t]] = @ - 1]
  /\ flagged' = flagged \ {m_dentry[mp[t]]}
  /\ m_dentry' = [m_dentry EXCEPT ![mp[t]] = NoDentry]
  /\ mp' = [mp EXCEPT ![t] = NoMp]
  /\ UNCHANGED <<fresh, tree, leaked, cant_mount, i_rwsem, path, new, chain>>

\* unlock_mount: the last user takes the entry out of the table.
put_mountpoint(t) ==
  /\ Go(t, "put_mp", "unlock")
  /\ m_count' = [m_count EXCEPT ![mp[t]] = @ - 1]
  /\ \/ /\ m_count[mp[t]] = 1
        /\ flagged' = flagged \ {m_dentry[mp[t]]}
        /\ m_dentry' = [m_dentry EXCEPT ![mp[t]] = NoDentry]
     \/ /\ m_count[mp[t]] # 1
        /\ UNCHANGED <<flagged, m_dentry>>
  /\ mp' = [mp EXCEPT ![t] = NoMp]
  /\ UNCHANGED <<fresh, tree, leaked, cant_mount, i_rwsem, path, new, chain>>

unlock_mount(t) ==
  /\ Go(t, "unlock", "idle")
  /\ inode_unlock(path[t].dentry)
  /\ UNCHANGED <<fresh, tree, table, cant_mount, local>>

(***************************************************************************)
(* vfs_rmdir of a directory, under its inode lock.  is_local_mountpoint is *)
(* a stub that says no.                                                    *)
(***************************************************************************)
rmdir_lock(t) ==
  /\ Go(t, "idle", "rmdir")
  /\ \E d \in IsDir \ (cant_mount \cup {RootOf[m] : m \in Mounts}) :
       /\ Fs[d] \in mounted \cup {RootMnt}
       /\ inode_lock(t, d)
       /\ path' = [path EXCEPT ![t] = [mnt |-> Fs[d], dentry |-> d]]
  /\ UNCHANGED <<fresh, tree, table, cant_mount, new, mp, chain>>

dont_mount(t) ==
  /\ Go(t, "rmdir", "rmdir_unlock")
  /\ cant_mount' = cant_mount \cup {path[t].dentry}
  /\ UNCHANGED <<fresh, tree, table, i_rwsem, local>>

rmdir_unlock(t) ==
  /\ Go(t, "rmdir_unlock", "idle")
  /\ inode_unlock(path[t].dentry)
  /\ UNCHANGED <<fresh, tree, table, cant_mount, local>>

-----------------------------------------------------------------------------

\* What a call does once it has begun.
Continue(t) ==
  \/ traverse_mounts(t) \/ traverse_done(t)
  \/ vfs_create_mount(t) \/ do_new_mount_fails(t)
  \/ lock_place(t) \/ lock_dead(t) \/ lock_covered(t) \/ lock_top(t)
  \/ get_place_shared(t) \/ get_place_garbage(t)
  \/ get_place_flag(t) \/ get_place_add(t) \/ get_place_fails(t)
  \/ graft_refused(t) \/ get_root_flag(t) \/ get_root_add(t) \/ get_root_fails(t)
  \/ mnt_set_mountpoint(t) \/ commit_tree(t) \/ attach_mnt(t)
  \/ put_mountpoint(t) \/ unlock_mount(t)
  \/ dont_mount(t) \/ rmdir_unlock(t)

Next == \E t \in Threads : do_mount(t) \/ rmdir_lock(t) \/ Continue(t)

Spec == Init /\ [][Next]_vars

\* The scheduler runs a task that can run; a task that waits for an inode
\* lock gets it, for the bounded mounts and removals compete only finitely.
FairSpec == Spec /\ \A t \in Threads : WF_vars(Continue(t))

TypeOK ==
  /\ fresh \subseteq NewMounts /\ mounted \subseteq NewMounts
  /\ lost \subseteq NewMounts
  /\ mnt_parent \in [Mounts -> Mounts]
  /\ mnt_mountpoint \in [Mounts -> Dentries]
  /\ m_dentry \in [MountpointIds -> Dentries \cup {NoDentry}]
  /\ m_count \in [MountpointIds -> Nat] /\ leaked \in [MountpointIds -> Nat]
  /\ flagged \subseteq Dentries /\ cant_mount \subseteq Dentries
  /\ i_rwsem \in [Dentries -> Threads \cup {NoOwner}]
  /\ pc \in [Threads -> {"idle", "undefined"} \cup MountPc \cup RmdirPc]
  /\ path \in [Threads -> [mnt : Mounts \cup {NoMnt},
                           dentry : Dentries \cup {NoDentry}]]
  /\ new \in [Threads -> NewMounts \cup {NoMnt}]
  /\ mp \in [Threads -> MountpointIds \cup {NoMp}]
  /\ chain \in [Threads -> SUBSET NewMounts]

\* The mounts whose call put them in the table, whether walks still find them
\* there or not.
attached == mounted \cup lost

\* The mounts that hold a count on their mountpoint.
Attached ==
  attached \cup {new[t] : t \in {u \in Threads : pc[u] \in {"commit", "insert"}}}

\* "Exactly one processes may set d_mounted" (namespace.c:156), although
\* d_set_mounted never reports that another one did: a dentry has one entry
\* in the table of mountpoints, so its users share one count.  And m_count is
\* the number of mounts made at the place (a lost one keeps its count), of
\* calls that work on it, of calls that failed on get_mountpoint's unassigned
\* `ret' there, and one more for good on the root of a mount, whose entry
\* attach_recursive_mnt never puts.  So no put frees an entry in use.
TableIsExact ==
  \A i \in MountpointIds : m_dentry[i] # NoDentry =>
    /\ MountpointsOf(m_dentry[i]) = {i}
    /\ m_count[i] = Cardinality({m \in Attached : mnt_mountpoint[m] = m_dentry[i]})
                  + Cardinality({t \in Threads : mp[t] = i})
                  + leaked[i]
                  + (IF i[2] = "root" THEN 1 ELSE 0)

\* A walk never goes past a mount: as long as something is mounted on a
\* dentry its DCACHE_MOUNTED flag is up, whichever calls failed on the same
\* place in between; and a call holds an entry that is in the table.  (What
\* the flag leads a walk to is another matter once an insert was lost.)
MountsAreSeen ==
  /\ \A m \in attached : mnt_mountpoint[m] \in flagged
  /\ \A t \in Threads : mp[t] # NoMp => m_dentry[mp[t]] = path[t].dentry

\* The mount tree as MountPlaces sees it.
Places == INSTANCE MountPlaces WITH
  on <- [m \in mounted |-> [mnt |-> mnt_parent[m], dentry |-> mnt_mountpoint[m]]],
  removed <- cant_mount

\* Until two inserts into one bucket of mount_hashtable overlap and one is
\* lost, which nothing in the code prevents, every step of the code is one
\* step of MountPlaces or none.  So a mount that walked, slept on the inode
\* lock, climbed and lost the race for the place still lands where nothing
\* else is, and stays there; its parent is the attached mount the place
\* belongs to, so the mounts are a tree; and it never lands on a directory
\* removed since the walk found it ("protect against concurrent removal of
\* the new mountpoint", namespace.c:195).  The inode lock of the place is
\* enough for all of this; it is not enough for the bucket.
ImplementsMounts ==
  Places!Init /\ [][Places!Next \/ lost' # {}]_(Places!places)

\* Every call returns, whatever path it takes, and leaves no inode locked,
\* unless one of them followed the pointer made of get_mountpoint's `ret'.
CallsReturn ==
  \A t \in Threads : pc[t] # "idle" ~>
     \/ pc[t] = "idle" /\ \A d \in Dentries : i_rwsem[d] # t
     \/ ~Defined
=============================================================================
