------------------------------- MODULE DirOps -------------------------------
(***************************************************************************)
(* The calls that look up, create and remove names: namei_create with its  *)
(* three callers (api/{mknod,mkdir,symlink}.c), rmdir, the lookups of      *)
(* rename, open's last component (lookup_open) and the lookup of a path    *)
(* component (lookup_fast, lookup_slow), with the i_rwsem of every         *)
(* directory, the dentry cache and S_DEAD.                                 *)
(*                                                                         *)
(* One name per directory is enough for calls to meet, so the tree is a    *)
(* chain: entry k is a name in directory k-1, and names directory k if it  *)
(* is one.  Directory 0 is the root.  What a directory holds on disk and   *)
(* the inode operations on it belong to the file system, which is not in   *)
(* the repository: fs_lookup, fs_create and fs_rmdir are what the callers  *)
(* rely on.  It is one that does not revalidate dentries.                  *)
(***************************************************************************)
EXTENDS Naturals, Sequences, FiniteSets

CONSTANTS
  Threads,
  Depth,        \* length of the chain
  MaxDentries,  \* bound: dentries hashed for one name
  Ops,          \* the calls a run allows
  Renamed,      \* bound: the entries renames look up
  Slashed,      \* bound: the calls, with their entry, given a '/' behind the name
  Faults,       \* whether d_alloc, i_op->lookup and inode operations may fail
  NoThread

Creators == {"mknod", "mkdir", "symlink"}
Opens    == {"open", "creat"}            \* without and with O_CREAT

ASSUME DirAssumption ==
  /\ Depth \in Nat \ {0} /\ MaxDentries \in Nat \ {0}
  /\ Ops \subseteq Creators \cup Opens \cup {"walk", "rmdir", "rename"}
  /\ Renamed \subseteq 1 .. Depth /\ Slashed \subseteq Ops \X (1 .. Depth)
  /\ Faults \in BOOLEAN
  /\ NoThread \notin Threads

Dirs    == 0 .. Depth
Entries == 1 .. Depth
Kinds   == {"file", "dir"}

VARIABLES
  disk,         \* what each entry is: "none", "file" or "dir"
  hashed,       \* hashed dentries of each entry, the newest last
  dead,         \* directories marked S_DEAD
  owner,        \* exclusive owner of each directory's i_rwsem
  readers,      \* its shared owners
  unlocked,     \* history: entries looked up on disk without the lock
  missed,       \* history: entries looked up on disk although they were cached
  left,         \* history: directories whose lock a call has returned with
  pc, op,       \* where a thread is, in which call
  at,           \* the entry it works on
  slash,        \* whether a '/' follows the name
  dent          \* the dentry it found: an index of hashed, 0 for none

history == <<unlocked, missed, left>>
shared == <<disk, hashed, dead, owner, readers, history>>
locals == <<op, at, slash, dent>>
vars == <<shared, pc, locals>>

\* The dentry d_lookup finds: hlist_bl_add_head puts the newest first.
Found(k)  == Len(hashed[k])
Cached(k) == IF Found(k) = 0 THEN "none" ELSE hashed[k][Found(k)]

\* d_same_name compares with strcmp a name that goes on behind its length: one
\* with a '/' behind it is never found.
d_lookup(t) == IF slash[t] THEN 0 ELSE Found(at[t])

\* The kind of the dentry a thread holds.
Kind(t) == hashed[at[t]][dent[t]]

Init ==
  /\ disk \in [Entries -> {"none"} \cup Kinds]
  /\ \A k \in Entries : k > 1 /\ disk[k] # "none" => disk[k - 1] = "dir"
  /\ \E known \in SUBSET Entries :
       /\ \A k \in known : k > 1 => k - 1 \in known /\ disk[k - 1] = "dir"
       /\ hashed = [k \in Entries |->
            IF k \notin known THEN << >>
            ELSE <<IF disk[k] = "none" THEN "negative" ELSE disk[k]>>]
  /\ dead = {}
  /\ owner = [d \in Dirs |-> NoThread]
  /\ readers = [d \in Dirs |-> {}]
  /\ pc = [t \in Threads |-> "idle"]
  /\ op = [t \in Threads |-> "none"]
  /\ at = [t \in Threads |-> 1]
  /\ slash = [t \in Threads |-> FALSE]
  /\ dent = [t \in Threads |-> 0]
  /\ unlocked = {} /\ missed = {} /\ left = {}

\* Thread t goes on.  Nothing does once an inode operation is about to be
\* called without a dentry.
Go(t, from, to) ==
  /\ \A u \in Threads : pc[u] # "null"
  /\ pc[t] = from
  /\ pc' = [pc EXCEPT ![t] = to]

\* The call returns, and its locals are gone.
Return(t, from) ==
  /\ Go(t, from, "idle")
  /\ op' = [op EXCEPT ![t] = "none"]
  /\ at' = [at EXCEPT ![t] = 1]
  /\ slash' = [slash EXCEPT ![t] = FALSE]
  /\ dent' = [dent EXCEPT ![t] = 0]

Parent(t) == at[t] - 1

-----------------------------------------------------------------------------
(* inode_lock, inode_lock_nested, inode_lock_shared: an rwsem (external).  *)

\* A writer that does not wait for the readers (mutant).
LockExcl_any(t, d) ==
  /\ owner[d] = NoThread
  /\ owner' = [owner EXCEPT ![d] = t]
  /\ UNCHANGED readers

LockExcl(t, d) ==
  /\ owner[d] = NoThread /\ readers[d] = {}
  /\ owner' = [owner EXCEPT ![d] = t]
  /\ UNCHANGED readers

LockShared(t, d) ==
  /\ owner[d] = NoThread
  /\ readers' = [readers EXCEPT ![d] = @ \cup {t}]
  /\ UNCHANGED owner

UnlockExcl(d) == owner' = [owner EXCEPT ![d] = NoThread] /\ UNCHANGED readers

UnlockShared(t, d) ==
  readers' = [readers EXCEPT ![d] = @ \ {t}] /\ UNCHANGED owner

-----------------------------------------------------------------------------
(* The file system's inode operations.                                     *)

\* i_op->lookup adds the dentry it is given to the cache, positive or not.
fs_lookup(k) ==
  /\ Found(k) < MaxDentries
  /\ hashed' = [hashed EXCEPT ![k] =
       Append(@, IF disk[k] = "none" THEN "negative" ELSE disk[k])]

\* i_op->{create,mknod,mkdir,symlink}: refuses a name that exists, else makes
\* it and instantiates the dentry; n = 0 is a dentry that is not hashed.  A
\* bound: it makes no directory under the name of a removed one.
fs_create(k, n, kind) ==
  \/ /\ disk[k] = "none" /\ (kind = "dir" => k \notin dead)
     /\ disk' = [disk EXCEPT ![k] = kind]
     /\ hashed' = IF n = 0 THEN hashed ELSE [hashed EXCEPT ![k][n] = kind]
  \/ /\ disk[k] # "none" \/ (kind = "dir" /\ k \in dead) \/ Faults
     /\ UNCHANGED <<disk, hashed>>

\* i_op->rmdir wants an empty directory; the VFS then sets S_DEAD.  The
\* dentry stays hashed and positive: d_delete_notify is empty.
fs_rmdir(k) ==
  \/ /\ disk[k] = "dir"
     /\ k < Depth => disk[k + 1] = "none"
     /\ disk' = [disk EXCEPT ![k] = "none"]
     /\ dead' = dead \cup {k}
  \/ /\ disk[k] # "dir" \/ (k < Depth /\ disk[k + 1] # "none") \/ Faults
     /\ UNCHANGED <<disk, dead>>

-----------------------------------------------------------------------------
(* A call begins once the path to its parent has been walked, which only   *)
(* finds directories the cache knows.  A bound: none begins below a        *)
(* directory with two dentries, whose children each have their own.        *)

Reachable(k) == k > 1 => Found(k - 1) = 1 /\ Cached(k - 1) = "dir"

\* open with O_CREAT answers EISDIR to a '/' before it takes the lock.
MayBegin(o, k, s) ==
  /\ Reachable(k)
  /\ o = "rename" => k \in Renamed
  /\ s => <<o, k>> \in Slashed /\ o # "creat"

begin(t, o, k, s) ==
  /\ MayBegin(o, k, s)
  /\ Go(t, "idle", CASE o \in {"walk", "open"} -> "fast"
                     [] o = "rename" -> "dcache"
                     [] OTHER -> "lock")
  /\ op' = [op EXCEPT ![t] = o]
  /\ at' = [at EXCEPT ![t] = k]
  /\ slash' = [slash EXCEPT ![t] = s]
  /\ dent' = [dent EXCEPT ![t] = 0]
  /\ UNCHANGED shared

\* inode_lock_nested(parent) of create and rmdir, inode_lock of open.
lock(t) ==
  /\ Go(t, "lock", IF op[t] \in Opens THEN "open_lookup" ELSE "dcache")
  /\ LockExcl(t, Parent(t))
  /\ UNCHANGED <<disk, hashed, dead, history, locals>>

unlock(t) ==
  /\ Return(t, "unlock")
  /\ UnlockExcl(Parent(t))
  /\ UNCHANGED <<disk, hashed, dead, history>>

-----------------------------------------------------------------------------
(* lookup_one_qstr_excl: what the cache knows, else (but not in a removed  *)
(* directory) what the disk says.                                          *)

Asked(t) == IF Parent(t) \in dead THEN "refused" ELSE "lookup"

\* Negative dentries taken for a miss (mutant).
excl_lookup_dcache_positive(t) ==
  /\ Go(t, "dcache", IF d_lookup(t) > 0 /\ Cached(at[t]) \in Kinds
                     THEN "decide" ELSE Asked(t))
  /\ dent' = [dent EXCEPT ![t] = d_lookup(t)]
  /\ UNCHANGED <<shared, op, at, slash>>

excl_lookup_dcache(t) ==
  /\ Go(t, "dcache", IF d_lookup(t) > 0 THEN "decide" ELSE Asked(t))
  /\ dent' = [dent EXCEPT ![t] = d_lookup(t)]
  /\ UNCHANGED <<shared, op, at, slash>>

excl_lookup_disk(t) ==
  /\ Go(t, "lookup", "decide")
  /\ fs_lookup(at[t])
  /\ dent' = [dent EXCEPT ![t] = Found(at[t]) + 1]
  /\ unlocked' = IF owner[Parent(t)] = t THEN unlocked ELSE unlocked \cup {at[t]}
  /\ missed' = IF slash[t] /\ Found(at[t]) > 0 THEN missed \cup {at[t]} ELSE missed
  /\ UNCHANGED <<disk, dead, owner, readers, left, op, at, slash>>

\* A dead directory, no memory, or an error of i_op->lookup.  namei_create
\* unlocks and returns 0 with no dentry: its caller carries on.
excl_lookup_fails(t) ==
  /\ pc[t] = "refused" \/ (pc[t] = "lookup" /\ Faults)
  /\ \/ /\ op[t] \in Creators
        /\ Go(t, pc[t], "null")
        /\ UnlockExcl(Parent(t))
        /\ UNCHANGED locals
     \/ /\ op[t] = "rmdir"
        /\ Go(t, pc[t], "unlock")
        /\ UNCHANGED <<owner, readers, locals>>
     \/ /\ op[t] \in {"rename", "rename_to"}
        /\ Return(t, pc[t])
        /\ UNCHANGED <<owner, readers>>
  /\ UNCHANGED <<disk, hashed, dead, history>>

-----------------------------------------------------------------------------
(* namei_create and its callers.                                           *)

\* Behind a '/' only mkdir, which asks for a directory, may create.
create_decide(t) ==
  /\ op[t] \in Creators
  /\ Go(t, "decide", IF Kind(t) \in Kinds \/ (slash[t] /\ op[t] # "mkdir")
                     THEN "unlock" ELSE "create")
  /\ UNCHANGED <<shared, locals>>

\* The dentry is not instantiated (mutant).
mknod_uninstantiated(t) ==
  /\ op[t] = "mknod"
  /\ Go(t, "create", "unlock")
  /\ fs_create(at[t], 0, "file")
  /\ UNCHANGED <<dead, owner, readers, history, locals>>

\* vfs_mknod, then done_path_create unlocks the parent and drops it ...
mknod(t) ==
  /\ op[t] = "mknod"
  /\ Go(t, "create", "unlock")
  /\ fs_create(at[t], dent[t], "file")
  /\ UNCHANGED <<dead, owner, readers, history, locals>>

\* ... but vfs_mkdir and vfs_symlink are the end of their calls.
mkdir(t) ==
  /\ op[t] \in {"mkdir", "symlink"}
  /\ fs_create(at[t], dent[t], IF op[t] = "mkdir" THEN "dir" ELSE "file")
  /\ Return(t, "create")
  /\ left' = left \cup {Parent(t)}
  /\ UNCHANGED <<dead, owner, readers, unlocked, missed>>

-----------------------------------------------------------------------------
(* parent_rmdir and vfs_rmdir.                                             *)

\* A negative dentry, or what may_delete refuses.
rmdir_decide(t) ==
  /\ op[t] = "rmdir"
  /\ Go(t, "decide", IF Kind(t) # "dir" \/ Parent(t) \in dead
                     THEN "unlock" ELSE "lock_victim")
  /\ UNCHANGED <<shared, locals>>

rmdir_lock_victim(t) ==
  /\ Go(t, "lock_victim", "rmdir")
  /\ LockExcl(t, at[t])
  /\ UNCHANGED <<disk, hashed, dead, history, locals>>

rmdir(t) ==
  /\ Go(t, "rmdir", "unlock_victim")
  /\ fs_rmdir(at[t])
  /\ UNCHANGED <<hashed, owner, readers, history, locals>>

\* The directory stays locked (mutant).
rmdir_unlock_victim_forgotten(t) ==
  /\ Go(t, "unlock_victim", "unlock")
  /\ UNCHANGED <<shared, locals>>

rmdir_unlock_victim(t) ==
  /\ Go(t, "unlock_victim", "unlock")
  /\ UnlockExcl(at[t])
  /\ UNCHANGED <<disk, hashed, dead, history, locals>>

-----------------------------------------------------------------------------
(* __rename: two lookups, and no lock.  A positive dentry for the old name *)
(* is followed by the lookup of the new one, which ends the call: it has   *)
(* no i_op->rename.                                                        *)

rename_decide(t) ==
  /\ pc[t] = "decide"
  /\ \/ /\ op[t] = "rename" /\ Kind(t) \in Kinds
        /\ Go(t, "decide", "dcache")
        /\ \E k \in Entries, s \in BOOLEAN :
             /\ Reachable(k) /\ (s => <<"rename", k>> \in Slashed)
             /\ at' = [at EXCEPT ![t] = k]
             /\ slash' = [slash EXCEPT ![t] = s]
        /\ dent' = [dent EXCEPT ![t] = 0]
        /\ op' = [op EXCEPT ![t] = "rename_to"]
     \/ /\ op[t] = "rename_to" \/ (op[t] = "rename" /\ Kind(t) \notin Kinds)
        /\ Return(t, "decide")
  /\ UNCHANGED shared

-----------------------------------------------------------------------------
(* open with O_CREAT, under the exclusive lock.                            *)

\* IS_DEADDIR is not looked at (mutant).
creat_lookup_undead(t) ==
  /\ \/ /\ Cached(at[t]) \in Kinds
        /\ Go(t, "open_lookup", "unlock")
     \/ /\ Cached(at[t]) \notin Kinds
        /\ Go(t, "open_lookup", "open_create")
  /\ dent' = [dent EXCEPT ![t] = Found(at[t])]
  /\ UNCHANGED <<shared, op, at, slash>>

\* lookup_open up to the create.  What d_alloc_parallel allocates is never
\* in lookup, so i_op->lookup is not called: a miss is taken for absence.
creat_lookup(t) ==
  /\ \/ /\ Parent(t) \in dead \/ Cached(at[t]) \in Kinds
        /\ Go(t, "open_lookup", "unlock")
     \/ /\ Parent(t) \notin dead
        /\ Cached(at[t]) \notin Kinds
        /\ Go(t, "open_lookup", "open_create")
  /\ dent' = [dent EXCEPT ![t] = Found(at[t])]
  /\ UNCHANGED <<shared, op, at, slash>>

creat(t) ==
  /\ Go(t, "open_create", "unlock")
  /\ fs_create(at[t], dent[t], "file")
  /\ UNCHANGED <<dead, owner, readers, history, locals>>

-----------------------------------------------------------------------------
(* The lookup of a path component, and of open's last one without O_CREAT. *)

\* lookup_fast takes no lock.  In RCU mode it compares by length and finds a
\* name with a '/' behind it, in ref-walk it does not.
lookup_fast(t) ==
  /\ \/ Found(at[t]) > 0 /\ Return(t, "fast")
     \/ d_lookup(t) = 0 /\ Go(t, "fast", "lock_shared") /\ UNCHANGED locals
  /\ UNCHANGED shared

lock_shared(t) ==
  /\ Go(t, "lock_shared", "slow")
  /\ LockShared(t, Parent(t))
  /\ UNCHANGED <<disk, hashed, dead, history, locals>>

\* __lookup_slow allocates a dentry; lookup_open looks in the cache first.
\* Neither asks the disk.
lookup_slow(t) ==
  /\ Go(t, "slow", "unlock_shared")
  /\ dent' = [dent EXCEPT ![t] =
       IF op[t] = "open" /\ Parent(t) \notin dead THEN d_lookup(t) ELSE 0]
  /\ UNCHANGED <<shared, op, at, slash>>

\* The shared lock is kept (mutant).
unlock_shared_forgotten(t) ==
  /\ Return(t, "unlock_shared")
  /\ UNCHANGED shared

unlock_shared(t) ==
  /\ UnlockShared(t, Parent(t))
  /\ Return(t, "unlock_shared")
  /\ UNCHANGED <<disk, hashed, dead, history>>

-----------------------------------------------------------------------------

Continue(t) ==
  \/ lock(t) \/ unlock(t)
  \/ excl_lookup_dcache(t) \/ excl_lookup_disk(t) \/ excl_lookup_fails(t)
  \/ create_decide(t) \/ mknod(t) \/ mkdir(t)
  \/ rmdir_decide(t) \/ rmdir_lock_victim(t) \/ rmdir(t) \/ rmdir_unlock_victim(t)
  \/ rename_decide(t)
  \/ creat_lookup(t) \/ creat(t)
  \/ lookup_fast(t) \/ lock_shared(t) \/ lookup_slow(t) \/ unlock_shared(t)

Next ==
  \E t \in Threads :
    \/ \E o \in Ops, k \in Entries, s \in BOOLEAN : begin(t, o, k, s)
    \/ Continue(t)

Spec == Init /\ [][Next]_vars

\* A call goes on, and a semaphore that is free again and again is got.
FairSpec == Spec /\ \A t \in Threads : SF_vars(Continue(t))

-----------------------------------------------------------------------------

Pcs == {"idle", "lock", "unlock", "dcache", "lookup", "refused", "decide", "create",
        "null", "lock_victim", "rmdir", "unlock_victim", "open_lookup",
        "open_create", "fast", "lock_shared", "slow", "unlock_shared"}

\* Values, and that an i_rwsem is never held both ways.
TypeOK ==
  /\ disk \in [Entries -> {"none"} \cup Kinds]
  /\ \A k \in Entries : hashed[k] \in Seq({"negative"} \cup Kinds)
  /\ dead \subseteq Entries
  /\ owner \in [Dirs -> Threads \cup {NoThread}]
  /\ readers \in [Dirs -> SUBSET Threads]
  /\ \A d \in Dirs : owner[d] # NoThread => readers[d] = {}
  /\ pc \in [Threads -> Pcs]
  /\ op \in [Threads -> Ops \cup {"none", "rename_to"}]
  /\ at \in [Threads -> Entries]
  /\ slash \in [Threads -> BOOLEAN]
  /\ \A t \in Threads : dent[t] \in 0 .. Found(at[t])
  /\ unlocked \subseteq Entries /\ missed \subseteq Entries /\ left \subseteq Dirs

\* A name never gets a second hashed dentry, so two calls that look it up
\* work on the same one.  Two lookups can add one: rename's, which has no
\* lock, and that of a name with a '/' behind it, which misses the cached one.
OneDentryPerName == \A k \in Entries \ (unlocked \cup missed) : Len(hashed[k]) <= 1

\* What the newest dentry of a name says of it is true, in removed directories
\* too; but a removed directory keeps a positive dentry, and what rename
\* looked up without a lock may be out of date.
CacheMatchesDisk ==
  \A k \in Entries \ unlocked :
    Found(k) > 0 /\ k \notin dead =>
      Cached(k) = IF disk[k] = "none" THEN "negative" ELSE disk[k]

\* What a call decided on is still so when it acts on it: the name to create
\* is free, also in a removed directory; the directory to remove is there and
\* nobody works in it.  This is not said of names rename looked up without a
\* lock, nor of a directory that was removed once (its name is removed again
\* through the dentry it keeps).
DecisionsHold ==
  \A t \in Threads : at[t] \notin unlocked =>
    /\ pc[t] = "create" => Kind(t) = "negative" /\ disk[at[t]] = "none"
    /\ pc[t] = "rmdir" /\ at[t] \notin dead =>
         disk[at[t]] = "dir" /\ readers[at[t]] = {}

\* A removed directory gets no new dentries, but for rename's unlocked lookup
\* ("Don't create child dentry for a dead directory", lookup_one_qstr_excl),
\* and no open creates in it.  mknod, mkdir and symlink do when they find a
\* negative dentry from before the removal: nothing asks IS_DEADDIR then.
DeadDirsGetNoDentries ==
  [][\A k \in Entries : k - 1 \in dead =>
       /\ k \notin unlocked' => Len(hashed'[k]) = Len(hashed[k])
       /\ disk[k] = "none" /\ disk'[k] # "none" =>
            \E t \in Threads : pc'[t] # pc[t] /\ op[t] \in Creators /\ dent[t] # 0]_vars

\* A directory is locked by a call that is at work in it (or removes it), or
\* else it was left locked by a mkdir or symlink that had returned.
LocksAreUsedOrLeft ==
  /\ TypeOK
  /\ \A d \in Dirs : \A t \in Threads :
       /\ owner[d] = t /\ d \notin left =>
            pc[t] # "idle" /\ (d = Parent(t) \/ d = at[t])
       /\ t \in readers[d] => pc[t] # "idle" /\ d = Parent(t)

\* Every call returns, unless a directory was left locked or a create called
\* the file system without a dentry: rmdir takes the parent before the
\* directory itself, nothing else holds two, and each unlocks what it locked.
CallsReturn ==
  \A t \in Threads :
    pc[t] # "idle" ~> (pc[t] = "idle" \/ left # {} \/ \E u \in Threads : pc[u] = "null")

\* The errors of the final lookup of a create are reported (comment in
\* __namei_create): no inode operation is called without a dentry.
CreateReportsErrors == \A t \in Threads : pc[t] # "null"

=============================================================================
