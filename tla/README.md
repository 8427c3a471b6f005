# A verification project for linux-vfs

linux-vfs carries the virtual file system layer of Linux to a small real-time
kernel. It is unfinished: many functions are stubs that call `pr_todo()`. It has
no tests. Its comments are mostly Linux's, and say what Linux does, which is not
always what the code here does. The models follow the code, stubs included.

Paths below are relative to the repository: `src/private/namei.c`,
`include/linux/vfs/private/file_ref.h`, and so on.

## 1. Inventory

| part | state | operations | what is hard | modelled in |
|---|---|---|---|---|
| File reference count (`file_ref.h`, `file/file.c`) | one 32-bit atomic, cut in zones | get, put, put on close, free | lock-free races of get and put; zones and wrap-around; the last put in two atomics | `FileRef` |
| Descriptor table (`file/filedesc.c`, `file/fd.c`, `api/{open,close,read,write,lseek}.c`) | entries (NULL, reserved, file), `file_lock`, `f_pos` | open, close, read, write, lseek | most accesses take no lock; failed opens; full table; `f_pos` copied and stored back | `FdTable` |
| Names: create, open, remove, look up (`namei.c`, `namei-lookup.c`, `namei-may.c`, `api/{mknod,mkdir,symlink,rmdir,rename}.c`) | `i_rwsem` of each directory, dentry cache, `S_DEAD`, the disk | mknod, mkdir, symlink, rmdir, rename (lookups), open with and without O_CREAT, component lookup | cache against disk; names the cache does not find again; removal between walk and lock; lost errors; locks not released | `DirOps` |
| Dentries (`dentry/*.c`) | `d_lockref`, hash, inode, parent | d_alloc, d_add, d_instantiate, dget, d_lookup, dput | put racing put; lock order `i_lock` before `d_lock`; killing up the tree | `Dput` |
| Path walk and open (`namei.c`, `namei-dots.c`, `api/open.c`) | `nameidata`: path, link stack, saved names, RCU section; what an open made | lookup, last component for callers, open with every end of the walk | nested and trailing links; lifetime of link bodies; growth of the stack; retries, which miss names the first try found and create again; piled mounts | `PathWalk`, `PathOpen`, `PathRef` |
| Mounts (`mnt/namespace.c`, `api/mount.c`) | mount hash, mountpoint table, `DCACHE_MOUNTED`, `DCACHE_CANT_MOUNT` | mount, crossing, removal of a place | two mounts on a place, or in a bucket, with stub locks; an unassigned return value; counted entries; rmdir meanwhile | `MountTree`, `MountPlaces` |
| `__d_lookup_rcu` (`dcache.c`) | sequence counts | lookup without locks | retry on change, but nothing changes a name or parent yet | no |
| Open flags (`api/open.c`, `fcntl.h`) | none | `build_open_how`, `build_open_flags` | combinations of flags; a refused one is not noticed | `OpenFlags` |
| Directory reading (`api/readdir.c`, `libfs/dir.c`) | `f_pos`, the caller's buffer, `i_rwsem` | getdents, llseek | records that do not fit, errors in the middle, shared `f_pos`, names that come and go | `DirRead` |
| Names from users (`filename.c`) | a struct, sometimes a second block | getname, putname | user memory read twice; text that must outlive the walk; callers that never put | `PathOpen` |
| Root and working directory (`cwd.c`, `path.c`) | two paths with references | chroot, chdir | references of replaced paths | no |
| File systems, superblocks, options (`filesystems.c`, `super.c`, `mnt/fs_*.c`, `mnt/kern_mount.c`) | a list without a lock; no sharing of superblocks | register, get tree, parse | two registrations at once | no |
| Iterators (`uio/iov_iter.c`) | offset, count | copy | bounds | no |
| Inodes, libfs, block device, page cache, sync, notification | none that survives the stubs | stubs and one-line helpers | nothing yet | no |

How they meet: a system call under `src/api` takes a descriptor through the
table (a reference on a file) or a name through the path walk (a path, under
RCU or with references). The walk asks the dentry cache, then, with the
directory's `i_rwsem`, the file system; at each step it follows mounts. Calls
that change a directory take its `i_rwsem` after the walk, look the last
component up again and act. mount climbs to the top of a stack under the
`i_rwsem` of each place. Everything ends in `path_put`/`dput` and `fput`.

Concurrency is that of tasks on several processors: every lock-free access, and
every stretch under a lock, can meet every other. Nothing is persisted, so
there is no crash to recover from; the failures are allocation failures,
errors of the file system and retries of a walk (ECHILD, ESTALE).

What makes each part correct is stated as the properties of section 3;
`PROJECT.json` lists the hazards they answer, each at its line.

## 2. Modules

- `FileRefOps` - the zones of the counter, increment, decrement, sign. The unit
  `Scale` is 2^28 in the code; 1 gives a 4-bit counter of the same layout.
- `FileRef` - one file. An action is one atomic operation; `local` is the `cnt` a
  thread keeps between two. `MayGet` and `MayPut` say what callers do: references
  are anonymous, and after the release up to `MaxStray` calls may still be made.
- `FileLife` - what a user of a file may rely on (get, put, free once, only
  without references). It is the specification, not a translation of code.
- `FileRefProofs`, `FdTableProofs`, `DirOpsProofs`, `DputProofs`, `MountTreeProofs`,
  `PathOpenProofs`, `PathRefProofs`, `DirReadProofs` - theorems about the module of that name (section 4).
  They extend the model and add nothing to it.
- `FdTable` - the table and open, close, read, write, lseek, one action per access.
  `Promises` is what callers promise: no two opens scan at once ("open"), open finds a
  free entry ("room"), a descriptor is an index of the table ("range":
  `filedesc_file_get` indexes it unchecked, `filedesc.c:70`), and nobody looks a
  descriptor up while close reads and clears its entry ("close"; transfers that have
  their reference go on, and outlive the close). The code asks for none of these
  and breaks without them, so a run names those it assumes. `NoFd`, an int outside
  the table, stands for all descriptors "range" rules out. Without "range" the first close or
  read of one is `"out of bounds"`: two steps, which is why no run of its own shows it.
- `DirOps` - a chain of names, entry k in directory k-1; enough, because calls meet
  only on one name or on a directory and its child. The file system (external)
  is `fs_lookup`, `fs_create`, `fs_rmdir`: what callers rely on, with failures; it
  does not revalidate dentries. A name may be followed by a '/' (`slash`): `d_same_name`
  compares with `strcmp` a name that goes on behind its length (`dcache.c:45`), so the
  cached dentry is missed and a second one hashed, under the lock (`missed`).
  Calls that find a negative dentry from before a removal create in the removed
  directory, since `IS_DEADDIR` is asked only after a miss (`namei.c:965`).
- `Dput` - a tree of dentries; `refs` are references held outside dput.
- `MountTree` - mounts, table, flags, inode locks of places; rmdir as the rival. What
  `get_mountpoint` returns for an entry it found is a local nothing was assigned to
  (`namespace.c:147`): the call goes on, fails and leaves its count (`leaked`), or
  follows a wild pointer (`undefined`). `hlist_add_head_rcu` reads the head of a bucket and
  replaces it in two steps without a lock, so a mount that returned 0 may be lost
  from the hash table (`lost`). The other lists `__attach_mnt` adds to are read by no
  code, so what is lost from them is not modelled.
- `MountPlaces` - what mounting promises: a mount goes, in one step, to a free place
  that exists. It is the specification, not a translation of code; `MountTree`
  implements it with each mount's parent and mountpoint as its place.
- `PathWalk` - the steps of a walk on `nameidata`, over a tree given by constants:
  what the dentry cache knows. A walk in ref-mode, which is every retry, passes over
  cached names: those with a '/' behind them, and those `d_revalidate` turns down with 0
  (`missed`).
- `OpenFlags` - sets of `O_` flags and what `build_open_flags` makes of them.
- `PathOpen` - the calls around a walk: getname and putname, lookups, and open, which
  handles the last component itself, creates, opens and tries again. It has the
  specification; `DirOps` has the locks and rivals of the same code, and `FdTable` its
  descriptor.
- `PathRef` - the same questions answered by recursive functions on the path, without a
  stack: the reference the walk and the open are compared with.
- `DirRead` - readers of one directory through one shared file, and writers. A name is
  its offset; the file system (external) never moves one. `given`, `again`, `lost` and
  `disturbed` are history.
- `MC*` - constants of the runs. Operators marked as mutants stand beside the
  definition they are a wrong version of; nothing uses them.

Atomicity: a stretch under a lock that every other user takes is one action;
accesses that some user makes without the lock are actions of their own.
Locks (`i_rwsem`, `d_lock`, `i_lock`), `lockref` and the file system are
external. Where C is undefined (a store through a slot that was never filled
in), the model records it in `undefined` and stops.

## 3. Runs

| run | shows | bounds |
|---|---|---|
| `FileRef` | TypeOK; `ReleasedOnce`; `LastPutFrees`; the counter implements `FileLife` | 3 threads, 3 references, 2 stray operations, 5-bit counter: every race of a get, a put and a close, on either side of the release |
| `FileRefOverflow` | `NoSilentRelease`: past MAXREF a release in use is preceded by a warning | 4-bit counter, 10 references, beyond its MAXREF of 7 and up to saturation |
| `FdTable` | `CountsAreExact`, `DescriptorsAreUnique`, `PositionIsExact`, `NothingUndefined`, `ClosedFilesAreFreed`, `CallsReturn`, under all four promises, with transfers that outlive the close of their descriptor | 2 threads, 2 files, 2 entries, 1 byte |
| `FdTableClose` | violation: without "close", a get on a released file | 1 entry |
| `DirOps` | `OneDentryPerName`, `CacheMatchesDisk`, `DecisionsHold`, `LocksAreUsedOrLeft`, `DeadDirsGetNoDentries`, `CallsReturn`, with failures, in removed directories too | 2 threads, 2 levels, 2 dentries for a name; any initial disk and consistent cache; renames look up the lower name (any name to go to); mknod, mkdir and rmdir of the lower name may have a '/' behind it (`Slashed`); no call begins below a directory with two dentries, and none makes a directory under the name of a removed one; mkdir stands for symlink, whose code is the same here |
| `DirLostError` | violation: a create goes on without a dentry | mknod and rmdir |
| `Dput` | `UnusedIsKilled`, `DputReturns`, negative dentries | 2 threads, root with a chain of two and a sibling, 2 references each |
| `DputAny` | `CountIsExact`, `KilledOnceUnused` (no child or user leans on a killed dentry, and one thread kills it), `LocksAreReleased`, with inodes, contended `i_lock`, `d_lookup` | a chain of three |
| `DputPositive` | violation: a kill waits for its own `d_lock` | as above |
| `MountTree` | `ImplementsMounts`, `TableIsExact`, `MountsAreSeen`, `TypeOK`, `CallsReturn` | 2 threads, 3 mounts to make (one refused), a directory and a file whose places share a bucket; `ret` is zero, an error or a wild pointer; walks start at a mounted file system |
| `PathWalk` | lookups and opens, with retries that find the cached names or pass over them: `ResolvesAsSpecified`, `OpensAsAsked`, `StackInBounds`, `NamesAreLive`, `NamesAreKept`, `WalkCleansUp`, `CallsReturn` | chosen paths: all of one component and pairs that begin with a directory, a link or "..", with and without a slash at the end, and twelve longer ones through links in links and loops; two roots; six sets of lookup flags, ten of open flags; any failure at any step; 4 links, 1 embedded level, so that the stack grows and the limit is met; names of up to 2 components fit beside the struct, up to 4 in a block, so that every way through getname is taken |
| `DirRead` | `ListingIsASnapshot`, `NothingSkipped`, `GivenOnce`, `EndIsTheEnd`, `TypeOK`, `CallsReturn` | 2 threads, 5 offsets (the dots, three files), 2 getdents calls, buffers that hold one short record or three, one record twice as long, one name with a '/'; a listing takes more than one call |

Most properties relate two calls and need at most two of them to break; three
threads are used where a third could matter (a get between two puts). Bounds
are constants named in the modules.

Every property of a passing run has a mutant: a wrong version of one definition
(a dropped lock, check, reset or count, an off-by-one) with which TLC finds the
property violated under the same configuration.

Deadlock is checked only for `FileRef`, `FileRefOverflow`, `DirRead` and
`PathWalk` (whose calls end in a step that repeats); the other
systems can stop for good by design of the code: `FdTable` when every file
object is used up and all calls returned or `undefined`, `DirOps` when a directory
was left locked, `Dput` with positive dentries, `MountTree` when its mounts are
made. There `CallsReturn` and `DputReturns` say that no call is stuck.

### Fairness

Weak fairness of a thread that is inside a call: it is kernel code on a
scheduler that runs what can run. `PathOpen` is one task's sequential code.
`FdTable`, `DirOps`, `Dput` and `DirRead` use strong fairness
of a call's steps: a thread that waits for a lock that is free again and again
gets it (the spinlocks and rwsems of the target queue their waiters). No
fairness is assumed of the beginning of calls, nor of the users of `i_lock`
outside dput before they take it.

### What fails

- `FdTableClose`: `filedesc_file_get(.., true)` clears the entry without `file_lock`,
  so `__fget_light` can take a reference on a file whose last one was just put.
- `DirLostError`: `__namei_create` returns 0 when its final lookup fails, with no
  dentry, and the parent already unlocked and put; the same happens for a last
  component that is not a name.
- `DputPositive`: `dentry_unlink_inode` is a stub and should release `d_lock` and
  `i_lock`; `__dentry_kill` then takes `d_lock` again.

Seen while reading and kept in the models, without a run of their own: `d_lookup`
takes no reference although its comment says so (`d_lookup.c:56`), and a walk that
stays in RCU mode returns a path without references (`complete_walk` is a stub),
which its callers put; mkdir and symlink never unlock the parent; a miss in the
cache counts as absence in open and in the walk, because dentries are never in
lookup, so an open never sees a file that is only on disk; O_EXCL is looked at by
nobody, so an exclusive create of a name the cache knows succeeds, against the
comment there (`namei.c:1191` "for an O_EXCL open we want to return EEXIST"); a
file created after a miss has a dentry that was never hashed (`d_alloc.c:71`), so
when a retry follows (ESTALE) `i_op->create` is called again for it, and the call
ends with EEXIST though nobody asked for O_EXCL; a dentry `d_revalidate` turns
down with 0 is replaced by a negative one, and an open with O_CREAT creates over
it (`namei.c:1174`), while without O_CREAT and in lookups it is ENOENT:
`lookup_fast` makes `ERR_PTR(0)` of it (`namei-lookup.c:138`), a miss, and
"non-racy lookup" it is "going to fall back to" (`namei-lookup.c:95`) never asks
the disk. `__d_lookup` compares names with `strcmp`, `__d_lookup_rcu` by length,
although the two are to be kept "in sync" (`dcache.c:248`): what the first try of
a walk found as "d" in "d/x" the retry does not; do_open does not look at
LOOKUP_DIRECTORY ("require a directory", `private/namei.h:23`), so an open with
O_DIRECTORY of a file, or of a file's name with a slash, opens the file; one with
O_NOFOLLOW ("don't follow links", `fcntl.h:37`) of a link opens the link; a create
of a last component that is not a name returns 0 without a dentry
(`namei.c:1028`); the last `d_off` of a full buffer may fail to be stored after
`f_pos` moved (`readdir.c:159`); rename looks names up without the lock
(`rename.c:13` against `namei.c:951`); a name with a '/' behind it gets a second
dentry in mkdir, mknod and rmdir; mknod, mkdir and symlink create in a removed
directory through a negative dentry from before the removal; a removed directory's
dentry stays positive; `d_set_mounted` never says EBUSY (`namespace.c:156`); a
mount on a place whose entry is in the table already takes the value of an
unassigned local for its error (`namespace.c:147`, 182); two mounts in one bucket
of `mount_hashtable` at once may lose one that returned 0 (`namespace.c:374`);
rmdir removes a directory something is mounted on, since `is_local_mountpoint` is
a stub; a failed mount, slot or file is not given back; the entry
`attach_recursive_mnt` gets for the new root is never put; a walk's retry does not
reset `total_link_count`, so a path of many links may be refused.

Seen and not modelled: `set_fs_root` tests a local path it never assigned, and
`set_fs_pwd` swaps the working directory in two unlocked steps;
relative paths leave `nd->path` unset; unlink looks up under a dentry that is
never set; the grown link stack is
never freed (`restore_nameidata` is a stub); a name longer than 19 bytes
overruns `d_iname`. The error of `__build_openflags` is overwritten: `PathOpen` follows
such an open to where its flags are undefined and claims nothing after it.
`vfs_path_parent_lookup` never puts its name: `NamesAreKept` says that its text is
still there, which is what lets its callers read the last component.

## 4. Proofs

Each proof module holds the theorems of one model, for every value of its
constants that the named assumptions of that model allow: any number of threads,
any tree, any table, any path, any bound. Every safety invariant and every action
property that a passing run checks is a theorem; only liveness is not. Each is
proved in the same way: an inductive invariant made of named parts, TLC-checked on
the instance of the run before it was proved (but for what `PathRefProofs` adds,
whose `Meaning` speaks of all numbers and all queries), one lemma for what a step
changes (`OthersAreStill`, `Touched`, `Guarded`, `StackSteps`, ...), one lemma for each
part of the invariant, which goes
through the actions, and the properties read off at the end.

| module | theorems | assumed beyond the model's own assumptions |
|---|---|---|
| `FileRefProofs` | `TypeCorrect`, `ReleaseIsUnique`, `NoReleaseBeforeWarning`, `CounterImplementsLife` | `CountFits`, `StrayFits`, see below |
| `DirReadProofs` | `ReadTypeCorrect`, `ListingsAreSnapshots`, `EndsAreReal`, `NothingIsSkipped`, `NamesAreGivenOnce` | nothing |
| `FdTableProofs` | `FdTypeCorrect`, `PositionsAreExact`; `ReferencesAreCounted`, `DescriptorsAreGivenOnce`, `PromisesSuffice` | nothing for the first two; for the others `PromisesKept` (all four promises, as in the run) and `CountsFit` (a finite number of threads, at most MAXREF) |
| `MountTreeProofs` | `MountsTakePlaces`; `MountTypeCorrect`, `EntriesAreCounted`, `WalksSeeMounts`, `MountsStayAForest` | nothing for the first; finitely many mounts and threads for what counts them |
| `PathOpenProofs` | `StackIsInBounds`, `TextsAreLive`, `WalksCleanUp`, `NamesOutliveTheirCalls` | nothing |
| `PathRefProofs` | `LookupsResolve`, `OpensMeanTheirNames`; `MeaningIsKept`, on which both rest | nothing |
| `DputProofs` | `CountsAreExact`, `KillsAreSafe`, `NoLockIsKept` | nothing; that threads and dentries are finite (`FiniteSystem`) is an assumption of `Dput` |
| `DirOpsProofs` | `NamesHaveOneDentry`, `CacheIsRight`, `DecisionsAreGood`, `LocksAreAccounted`, `NoCircleOfWaiting`, `DeadDirsAreLeftAlone` | nothing |

### File reference count

- `TypeCorrect`: `Spec => []TypeOK`.
- `ReleaseIsUnique`: `Spec => []ReleasedOnce`, assuming `CountFits` (references fit
  below the sign bit) and `StrayFits` (calls after the release fit in the dead zone,
  2^29 of them in the code).
- `NoReleaseBeforeWarning`: `Spec => []NoSilentRelease` with `StrayFits` alone, for any
  number of references.
- `CounterImplementsLife`: `Spec => ImplementsLife`, with both assumptions.

`ReleasedOnce` is not inductive: it does not say what the counter holds. The
invariant `IInv` does. Before the release the counter is exactly the references
less one (`Exact`), one thread at most is between the read and the cmpxchg of
`file_ref_put_close` and nobody in the saturation path (`OneCloser`, `NotReleased`);
after it the counter is as far from DEAD as stray operations moved it
(`Released`); and the free belongs to the one winner (`FreedOnce`). Then a put
that sees NOREF under the cmpxchg has no reference left to race with, and stray
operations cannot bring the counter to NOREF or ONEREF again. The step of each
action is a lemma (`IncCore`, `PutCore`, ...). For `NoReleaseBeforeWarning` the
invariant is "warned, or the same with the counter at most one past MAXREF".

### Directory reading

`LockIsHeld` says which steps run under the `i_rwsem`, so between `lock_shared` and
the store of `f_pos` the directory cannot change and a listing stays a snapshot. A
new name is always ahead of every reader (`NamesComeAhead`). That no name is
skipped is a statement about all calls of the past: every name below `f_pos` is
accounted for (`Accounted`: given, in a buffer about to be returned, lost by the one
error, or removed). `GivenOnce` needs that calls do not overlap (`OneAtATime`); the
name a call is about to give is then beyond all that were given.

### Descriptor table

The counter of a live file is one less than its entries, its running calls and its
loss by a failed open together (`Counts`). To keep that, the invariant says where a
file can be: a call without one (`NoFileYet`), an open before `fd_install` and a
close after it cleared the entry are alone with theirs (`Unpublished`), a transfer
that has found its file and has no reference yet, and a close that is about to clear
the entry, find that file still in it (`EntryStays`, from the promises "range" and
"close" in `ClosesAlone`; a transfer that has its reference is not covered and does
not need to be), a scan finds the entry it will take still free (`ScanFinds`, from
"open" and "room"), and a reserved entry has one open that will fill it
(`ReservedOnce`). The four promises are enough (`PromisesSuffice`), and `FdTableClose` shows
what happens without one of them. Positions need
none of them: `PositionsAgree` follows one transfer from its copy of `f_pos` to the
store.

### Mount tree

Namespace locks are stubs, so what keeps two mounts off one place is the inode lock
of the place (`PlacesAreLocked`), from the check under it to the insert
(`PlacesStayFree`). It does not keep two inserts out of one bucket: the later one
drops what came between its two steps, and a place whose mount is lost looks free.
So `MountsTakePlaces` says "until a mount is lost": as long as `lost` is empty
`attach_mnt` is the one step that `MountPlaces` calls `Mount`, `dont_mount` its
`Remove`, and every other step changes nothing `MountPlaces` sees. The rest is said of
all mounts made, lost or not (`attached`), and always.

The table of mountpoints has an invariant of its own: one entry for a dentry
(`OneEntry`), added once by a call that found none (`EntriesAreMissing`), counted by
the mounts made there, the calls that hold it, the calls that left a count on the
unassigned `ret` and the extra one of a root (`CountsAreExact`), and in the table
while such a count is left (`LeaksAreKept`). The value of `ret` is a choice in the
model; after a wild pointer nothing is claimed (`Defined`).

`MountsStayAForest` says that the climbs over piled mounts, up in
`__traverse_mounts` and down in `choose_mountpoint`, end. Its invariant (`Grown`)
carries a depth for each mount: a commit adds a mount that nothing is mounted on
yet, one deeper than its parent, and nothing else moves one. A lost mount keeps its
parent and its depth; that a place holds one mount ends with the first loss. It is what
`ForestAssumption` asks of the constant tree of `PathWalk`.

### Path walk and open

`link_path_walk` counts the names it will come back to and `nd` counts the links
whose bodies it holds, and both index one array. The invariant says how they
differ: by one exactly when the name being walked is a trailing link's (`Base`,
`Levels`), in a stack that has room for both (`Room`) and in which links lie in the
order in which they were picked (`Numbered`). So it is known in which body each
saved name lies (`Texts`), and that this body is held (`BodiesAreHeld`). A walk that
ends gives all back (`Reader`, `Levels`), and the name of the call lives until the call
is done (`Named`; `Parents` for the last component a caller still reads).

The model's assumptions that matter here: roots are directories, the file an open
makes is not in the tree before (`NewAssumption`), and the mounts are a forest
(`ForestAssumption`, which `MountsStayAForest` justifies). The climbs and `PathRef`'s
`Resolve` are recursive functions that call themselves last. That such a definition
has a value is proved without the library's induction theorems: the value is what
the chain of calls ends with (`TailRecursion`), so the function satisfies its
equation. Where the climbs end, at a mount that nothing covers and at a place, is
then proved by taking the least of the depths a counterexample could have
(`Least`, from the depth in `ForestAssumption`).

### What a name means

`LookupsResolve` and `OpensMeanTheirNames` compare the walk, with its stack, its
flags and its mounts, to `PathRef`, which has none of these. The invariant
(`Meaning`) says that at every step of a walk that has passed over no cached name
there is a query of `PathRef` for what is left to do that resolves to what the
call's own question resolves to (`Asks`):

- its list is the component being walked, the rest of its text and then the saved
  names, the one saved last first (`Spoken`, `Unrolls`);
- the walk's flags are the query's, but for what the slash after a trailing name
  adds on the way (`Flagged`);
- in the middle of a component the walk knows what `PathRef` asks of it (`Stands`,
  `Reached`).

Once an open has created its file there is no such query, because the file is not
in the tree; then the answer itself is known (`Making`). A retry starts with the
links of earlier tries counted, while what the name means does not depend on
them. So the invariant holds for every number n of links from `MAXSYMLINKS` up: n =
`MAXSYMLINKS` gives what this try answers, and n = `MAXSYMLINKS` + `arg.begun` what
the name means to a file created on an earlier one (`Created`): what an open made,
on whichever try, is the name it was asked for, unless the cache had turned
another file down there (`MadeOver`).

A walk that has passed over a name (`missed`) means nothing any more. What is
known of it is the other invariant, `Missed`: it is a retry or an open that
creates, and it can only end, with ENOENT at the negative dentry, with EEXIST,
with a file created over the name, or with an error of the file system.
`NextMeaning` has one lemma for each action; most use `Advancing`, that a query
that does not stop resolves to what the next one does. `Answered` holds what a
walk that ended says.

### Dentries

`CountIsExact` is not inductive, because a thread drops `d_lock` between finding the
count zero and the kill. What holds is that a count at zero stays there: every way
to raise it needs a reference, and there is none left. So whoever decides over the
dentry still finds zero, and is the only one to decide (`Deciders`); only the
thread that found the lock taken decides over a count that may not be zero, and it
has the lock (`Locked`). A killed dentry leans on its parent until its killer has
told it (`Tellers`), and what is not alive is not used (`Unused`). Counts are claimed as
long as `d_lookup`, which takes no reference, was not called; that no lock is kept
(`Owned`) is claimed always.

### Names

A call changes a name, on disk or in the cache, only with its directory
exclusively locked (`Locked`); so what another holder of the same lock knows of the
name stays true (`Guarded`), and each call's knowledge is a conjunct of `Works`: a miss
in the cache stays a miss until the disk is asked, a dentry found negative is
still the only one when the create acts, a directory is not yet dead when the
open creates in it. The one step that changes the cache outside the lock, rename's lookup,
is remembered in `unlocked` and the name exempt from then on. A lookup that misses
the cached dentry because of a '/' has the lock: it is remembered in `missed`, after
which the name may have more than one dentry and the claims are about the newest,
the one `d_lookup` finds. `Named` ties cache and disk in every directory, removed or
not, and says that a removed directory keeps its positive dentry, which is what keeps
creates from its name. `Owned` says that nobody has a lock for another reason, from
which `NoCircleOfWaiting` follows: a call that waits for a directory has only
directories above it. What `CallsReturn` adds to it is the fairness of the locks.

### Only model-checked

- Liveness under fairness, and ENABLED: `LastPutFrees`, `CallsReturn`,
  `ClosedFilesAreFreed`, `UnusedIsKilled`, `DputReturns`.

Recursive functions that call themselves last are reasoned about as above; induction
over data with the library's theorems is out of the provers' reach.

## 5. Not modelled

- Root and working directory: what `chroot` does depends on a local that is never
  assigned, and what `chdir` puts on which mode the walk ended in.
- File systems, superblocks and mount options: sequential code without a retry; its
  one race, two registrations of file systems at start-up, is a hazard without a
  property.
- `__d_lookup_rcu`'s sequence counts: nothing changes a name or a parent (`d_move` is a
  stub), so they have nothing to detect. That it compares names by length, unlike
  `d_same_name`, is in `PathWalk`.
- Cached negative dentries in `PathWalk` and `PathOpen`: there a name that is not in the
  tree has no dentry. `DirOps` has negative ones. An open with O_CREAT that finds one
  creates in a hashed dentry, and its retry would find the file and open it.
- A file system that revalidates in `DirOps`; `PathWalk` and `PathOpen` have `d_revalidate`
  with all its answers. That it turns down the dentries `d_alloc_parallel` allocates
  anew, again and again (`namei-lookup.c:53`, `namei.c:1176`), is left out.
- unlink, stat, dup, fcntl, umount, moving a mount: stubs, or code that reads what
  nothing set.
- Relative paths: `path_init` does not say where they start.
- Inodes, libfs, iterators, block device, page cache, sync, notification: stubs and
  one-line helpers without state of their own.

## 6. Plan

Done: `FileRef` with `FileLife`, `FdTable`, `DirOps`, `Dput`, `MountTree` with
`MountPlaces`, `PathWalk` with `OpenFlags`, `PathOpen` and `PathRef`, `DirRead`.

All their safety invariants and action properties are proved (section 4), but for the
three runs that show a violation.

Left:
1. lemmas about `OpenFlags`: which flags are refused, and what a walk is asked for;
2. relative paths, the working directory and the unlocked registration of file
   systems, once the code says what they mean.

An abstract directory that `DirOps` implements was considered and left out: the
code's creates do not agree with one (an open takes a miss in the cache for
absence), so it would have to describe those exceptions and nothing else.
