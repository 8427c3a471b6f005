---------------------------- MODULE DirOpsProofs ----------------------------
(***************************************************************************)
(* What holds of directories for any depth of the tree, any number of      *)
(* threads and any order of their calls: who has a lock, what the cache    *)
(* says, and that what a call decided is still so when it acts.            *)
(*                                                                         *)
(* A call changes a name, on disk or in the cache, only while it has its   *)
(* directory exclusively (Locked); so what another such call knows of the  *)
(* name stays true (Guarded, Works).  The one exception is an unlocked     *)
(* lookup, which leaves the name in unlocked.                              *)
(***************************************************************************)
EXTENDS DirOps, SequenceTheorems, TLAPS

States == {"negative"} \cup Kinds

Typed ==
  /\ TypeOK
  /\ hashed \in [Entries -> Seq(States)]
  /\ dent \in [Threads -> Nat]

Locking  == Creators \cup {"rmdir", "creat"}
Renaming == {"rename", "rename_to"}

\* Where a call has the directory of its name exclusively, the directory it
\* removes, and the directory of its name shared.
Excl(t) ==
  \/ pc[t] \in {"unlock", "create", "lock_victim", "rmdir", "unlock_victim",
                "open_lookup", "open_create"}
  \/ pc[t] \in {"dcache", "lookup", "refused", "decide"} /\ op[t] \notin Renaming
Victim(t) == pc[t] \in {"rmdir", "unlock_victim"}
Shared(t) == pc[t] \in {"slow", "unlock_shared"}

\* Which call is where.
Called ==
  \A t \in Threads :
    /\ pc[t] \in {"lock", "unlock"} => op[t] \in Locking
    /\ pc[t] \in {"dcache", "lookup", "refused", "decide"} => op[t] \in Creators \cup Renaming \cup {"rmdir"}
    /\ pc[t] \in {"create", "null"} => op[t] \in Creators
    /\ pc[t] \in {"lock_victim", "rmdir", "unlock_victim"} => op[t] = "rmdir"
    /\ pc[t] \in {"open_lookup", "open_create"} => op[t] = "creat"

Locked ==
  \A t \in Threads :
    /\ Excl(t) => owner[Parent(t)] = t
    /\ Victim(t) => owner[at[t]] = t
    /\ Shared(t) => t \in readers[Parent(t)]

\* No lock is held for another reason.
Owned ==
  \A t \in Threads, d \in Dirs :
    /\ owner[d] = t /\ d \notin left =>
         (Excl(t) /\ d = Parent(t)) \/ (Victim(t) /\ d = at[t])
    /\ t \in readers[d] => Shared(t) /\ d = Parent(t)

\* The newest dentry of a name says what is there, or is what a removed
\* directory has kept.
Told(k) == IF disk[k] = "none" THEN "negative" ELSE disk[k]

Named(k) ==
  k \notin unlocked =>
    /\ k \notin missed => Len(hashed[k]) <= 1
    /\ Found(k) > 0 =>
         \/ Cached(k) = Told(k)
         \/ k \in dead /\ Cached(k) = "dir" /\ disk[k] = "none"
    /\ k \in dead => Found(k) > 0

Names == \A k \in Entries : Named(k)

\* What a call knows of its name.
Works(t) ==
  /\ pc[t] = "lookup" /\ owner[Parent(t)] = t =>
       /\ Parent(t) \notin dead
       /\ at[t] \notin unlocked /\ ~slash[t] => Found(at[t]) = 0
  /\ pc[t] \in {"decide", "create", "lock_victim", "rmdir"} =>
       /\ dent[t] >= 1
       /\ at[t] \notin unlocked /\ op[t] \notin Renaming => dent[t] = Found(at[t])
  /\ pc[t] = "create" /\ at[t] \notin unlocked =>
       Cached(at[t]) = "negative" /\ disk[at[t]] = "none"
  /\ pc[t] \in {"lock_victim", "rmdir"} /\ at[t] \notin unlocked =>
       /\ Cached(at[t]) = "dir"
       /\ at[t] \notin dead => disk[at[t]] = "dir"
  /\ pc[t] = "open_create" =>
       /\ Parent(t) \notin dead
       /\ at[t] \notin unlocked => dent[t] = Found(at[t]) /\ Cached(at[t]) \notin Kinds

IInv == Typed /\ Called /\ Locked /\ Owned /\ Names /\ \A t \in Threads : Works(t)

-----------------------------------------------------------------------------
(***************************************************************************)
(* The steps.                                                              *)
(***************************************************************************)
Step(t) == Continue(t) \/ \E o \in Ops, k \in Entries, s \in BOOLEAN : begin(t, o, k, s)

LEMMA Numbers ==
  ASSUME NEW k \in Entries
  PROVE  /\ k \in Nat /\ k - 1 \in Nat /\ k - 1 # k
         /\ k \in Dirs /\ k - 1 \in Dirs
BY DirAssumption DEF Entries, Dirs

\* What a file system makes of a name it is asked to create.
LEMMA Creates ==
  ASSUME Typed, NEW k \in Entries, NEW n \in 0 .. Found(k), NEW kind \in Kinds,
         fs_create(k, n, kind)
  PROVE  /\ disk' \in [Entries -> {"none"} \cup Kinds]
         /\ hashed' \in [Entries -> Seq(States)]
         /\ \A j \in Entries : Len(hashed'[j]) = Len(hashed[j])
         /\ \A j \in Entries \ {k} : disk'[j] = disk[j] /\ hashed'[j] = hashed[j]
         /\ \/ disk' = disk /\ hashed' = hashed
            \/ /\ disk'[k] = kind
               /\ n # 0 => hashed'[k][n] = kind
<1>1. /\ disk \in [Entries -> {"none"} \cup Kinds]
      /\ hashed \in [Entries -> Seq(States)] /\ hashed[k] \in Seq(States)
      /\ kind \in States
  BY DEF Typed, TypeOK, States
<1>2. CASE UNCHANGED <<disk, hashed>>
  BY <1>1, <1>2
<1>3. CASE disk' = [disk EXCEPT ![k] = kind] /\ hashed' = hashed /\ n = 0
  BY <1>1, <1>3
<1>4. CASE disk' = [disk EXCEPT ![k] = kind] /\ n # 0 /\ hashed' = [hashed EXCEPT ![k][n] = kind]
  <2> DEFINE new == [hashed[k] EXCEPT ![n] = kind]
  <2>1. n \in 1 .. Len(hashed[k])
    BY <1>1, <1>4 DEF Found
  <2>2. new \in Seq(States) /\ Len(new) = Len(hashed[k]) /\ new[n] = kind
    BY <1>1, <2>1, ExceptSeq
  <2>3. hashed' = [hashed EXCEPT ![k] = new]
    BY <1>4
  <2> HIDE DEF new
  <2> QED
    BY <1>1, <1>4, <2>2, <2>3
<1> QED
  BY <1>2, <1>3, <1>4 DEF fs_create

\* A lookup on disk adds a dentry, which says what is there.
LEMMA LooksUp ==
  ASSUME Typed, NEW k \in Entries, fs_lookup(k)
  PROVE  /\ hashed' \in [Entries -> Seq(States)]
         /\ \A j \in Entries \ {k} : hashed'[j] = hashed[j]
         /\ Len(hashed'[k]) = Found(k) + 1
         /\ hashed'[k][Len(hashed'[k])] = IF disk[k] = "none" THEN "negative" ELSE disk[k]
<1> DEFINE new == Append(hashed[k], IF disk[k] = "none" THEN "negative" ELSE disk[k])
<1>1. /\ hashed \in [Entries -> Seq(States)] /\ hashed[k] \in Seq(States)
      /\ (IF disk[k] = "none" THEN "negative" ELSE disk[k]) \in States
  BY DEF Typed, TypeOK, States
<1>2. new \in Seq(States) /\ Len(new) = Len(hashed[k]) + 1
      /\ new[Len(new)] = IF disk[k] = "none" THEN "negative" ELSE disk[k]
  BY <1>1, AppendProperties
<1>3. hashed' = [hashed EXCEPT ![k] = new]
  BY DEF fs_lookup
<1> HIDE DEF new
<1> QED
  BY <1>1, <1>2, <1>3 DEF Found

\* A call knows only of itself.
LEMMA OthersAreStill ==
  ASSUME Typed, NEW t \in Threads, Step(t), NEW u \in Threads, u # t
  PROVE  /\ pc'[u] = pc[u] /\ op'[u] = op[u] /\ at'[u] = at[u]
         /\ slash'[u] = slash[u] /\ dent'[u] = dent[u]
<1> USE DEF Typed, TypeOK, Go, Return, shared, locals
<1>1. CASE \E o \in Ops, k \in Entries, s \in BOOLEAN : begin(t, o, k, s)
  BY <1>1 DEF begin
<1>2. CASE lock(t) \/ unlock(t)
  BY <1>2 DEF lock, unlock
<1>3. CASE excl_lookup_dcache(t) \/ excl_lookup_disk(t) \/ excl_lookup_fails(t)
  BY <1>3 DEF excl_lookup_dcache, excl_lookup_disk, excl_lookup_fails
<1>4. CASE create_decide(t) \/ mknod(t) \/ mkdir(t)
  BY <1>4 DEF create_decide, mknod, mkdir
<1>5. CASE rmdir_decide(t) \/ rmdir_lock_victim(t) \/ rmdir(t) \/ rmdir_unlock_victim(t)
  BY <1>5 DEF rmdir_decide, rmdir_lock_victim, rmdir, rmdir_unlock_victim
<1>6. CASE rename_decide(t)
  BY <1>6 DEF rename_decide
<1>7. CASE creat_lookup(t) \/ creat(t)
  BY <1>7 DEF creat_lookup, creat
<1>8. CASE lookup_fast(t) \/ lock_shared(t) \/ lookup_slow(t) \/ unlock_shared(t)
  BY <1>8 DEF lookup_fast, lock_shared, lookup_slow, unlock_shared
<1> QED
  BY <1>1, <1>2, <1>3, <1>4, <1>5, <1>6, <1>7, <1>8 DEF Step, Continue

\* Only five steps touch what a directory holds, each for the name the call
\* is about.
Touches(t) ==
  excl_lookup_disk(t) \/ mknod(t) \/ mkdir(t) \/ rmdir(t) \/ creat(t)

LEMMA Untouched ==
  ASSUME NEW t \in Threads, Step(t), ~Touches(t)
  PROVE  UNCHANGED <<disk, hashed, dead, unlocked, missed, left>>
<1> USE DEF shared, history
<1>1. CASE \E o \in Ops, k \in Entries, s \in BOOLEAN : begin(t, o, k, s)
  BY <1>1 DEF begin
<1>2. CASE lock(t) \/ unlock(t)
  BY <1>2 DEF lock, unlock
<1>3. CASE excl_lookup_dcache(t) \/ excl_lookup_fails(t)
  BY <1>3 DEF excl_lookup_dcache, excl_lookup_fails
<1>4. CASE create_decide(t) \/ rmdir_decide(t) \/ rename_decide(t)
  BY <1>4 DEF create_decide, rmdir_decide, rename_decide
<1>5. CASE rmdir_lock_victim(t) \/ rmdir_unlock_victim(t)
  BY <1>5 DEF rmdir_lock_victim, rmdir_unlock_victim
<1>6. CASE creat_lookup(t)
  BY <1>6 DEF creat_lookup
<1>7. CASE lookup_fast(t) \/ lock_shared(t) \/ lookup_slow(t) \/ unlock_shared(t)
  BY <1>7 DEF lookup_fast, lock_shared, lookup_slow, unlock_shared
<1> QED
  BY <1>1, <1>2, <1>3, <1>4, <1>5, <1>6, <1>7 DEF Step, Continue, Touches

LEMMA Touched ==
  ASSUME Typed, NEW t \in Threads, Touches(t)
  PROVE  /\ disk' \in [Entries -> {"none"} \cup Kinds]
         /\ hashed' \in [Entries -> Seq(States)]
         /\ \A k \in Entries : Len(hashed[k]) <= Len(hashed'[k])
         /\ dead \subseteq dead' /\ dead' \subseteq Entries
         /\ unlocked \subseteq unlocked' /\ unlocked' \subseteq Entries
         /\ missed \subseteq missed' /\ missed' \subseteq Entries
         /\ left \subseteq left' /\ left' \subseteq Dirs
         /\ \A k \in Entries : k # at[t] =>
              /\ disk'[k] = disk[k] /\ hashed'[k] = hashed[k]
              /\ k \in dead' <=> k \in dead
              /\ k \in unlocked' <=> k \in unlocked
              /\ k \in missed' <=> k \in missed
         /\ UNCHANGED <<owner, readers>>
         /\ Parent(t) \in Dirs /\ at[t] \in Entries
<1>1. PICK k \in Entries : k = at[t]
  BY DEF Typed, TypeOK
<1>2. k \in Nat /\ k - 1 \in Dirs /\ dent[t] \in 0 .. Found(k)
  BY <1>1, Numbers DEF Typed, TypeOK
<1>3. \A j \in Entries : Len(hashed[j]) \in Nat
  BY DEF Typed
<1>4. "file" \in Kinds /\ "dir" \in Kinds
  BY DEF Kinds
<1>5. /\ disk \in [Entries -> {"none"} \cup Kinds]
      /\ hashed \in [Entries -> Seq(States)]
      /\ dead \subseteq Entries /\ left \subseteq Dirs
      /\ unlocked \subseteq Entries /\ missed \subseteq Entries
  BY DEF Typed, TypeOK
<1>6. CASE excl_lookup_disk(t)
  <2>1. fs_lookup(k)
    BY <1>1, <1>6 DEF excl_lookup_disk
  <2>2. /\ hashed' \in [Entries -> Seq(States)]
        /\ \A j \in Entries \ {k} : hashed'[j] = hashed[j]
        /\ Len(hashed'[k]) = Len(hashed[k]) + 1
    BY <2>1, LooksUp DEF Found
  <2>3. /\ UNCHANGED <<disk, dead, owner, readers, left>>
        /\ unlocked' = unlocked \/ unlocked' = unlocked \cup {k}
        /\ missed' = missed \/ missed' = missed \cup {k}
    BY <1>1, <1>6 DEF excl_lookup_disk
  <2>4. /\ unlocked \subseteq unlocked' /\ unlocked' \subseteq Entries
        /\ missed \subseteq missed' /\ missed' \subseteq Entries
        /\ \A j \in Entries \ {k} :
             (j \in unlocked' <=> j \in unlocked) /\ (j \in missed' <=> j \in missed)
    BY <1>5, <2>3
  <2>5. \A j \in Entries : Len(hashed[j]) <= Len(hashed'[j])
    BY <1>3, <2>2
  <2> QED
    BY <1>1, <1>2, <1>5, <2>2, <2>3, <2>4, <2>5 DEF Parent
<1>7. CASE mknod(t) \/ creat(t)
  <2>1. fs_create(k, dent[t], "file")
    BY <1>1, <1>7 DEF mknod, creat
  <2>2. /\ disk' \in [Entries -> {"none"} \cup Kinds]
        /\ hashed' \in [Entries -> Seq(States)]
        /\ \A j \in Entries : Len(hashed'[j]) = Len(hashed[j])
        /\ \A j \in Entries \ {k} : disk'[j] = disk[j] /\ hashed'[j] = hashed[j]
    BY <1>2, <1>4, <2>1, Creates
  <2>3. UNCHANGED <<dead, owner, readers, unlocked, missed, left>>
    BY <1>7 DEF mknod, creat, history
  <2> QED
    BY <1>1, <1>2, <1>3, <1>5, <2>2, <2>3 DEF Parent
<1>8. CASE mkdir(t)
  <2>1. PICK kind \in Kinds : fs_create(k, dent[t], kind)
    BY <1>1, <1>4, <1>8 DEF mkdir
  <2>2. /\ disk' \in [Entries -> {"none"} \cup Kinds]
        /\ hashed' \in [Entries -> Seq(States)]
        /\ \A j \in Entries : Len(hashed'[j]) = Len(hashed[j])
        /\ \A j \in Entries \ {k} : disk'[j] = disk[j] /\ hashed'[j] = hashed[j]
    BY <1>2, <2>1, Creates
  <2>3. UNCHANGED <<dead, owner, readers, unlocked, missed>> /\ left' = left \cup {k - 1}
    BY <1>1, <1>8 DEF mkdir, Parent
  <2> QED
    BY <1>1, <1>2, <1>3, <1>5, <2>2, <2>3 DEF Parent
<1>9. CASE rmdir(t)
  <2>1. \/ disk' = disk /\ dead' = dead
        \/ disk' = [disk EXCEPT ![k] = "none"] /\ dead' = dead \cup {k}
    BY <1>1, <1>9 DEF rmdir, fs_rmdir
  <2>2. UNCHANGED <<hashed, owner, readers, unlocked, missed, left>>
    BY <1>9 DEF rmdir, history
  <2>3. /\ disk' \in [Entries -> {"none"} \cup Kinds]
        /\ \A j \in Entries \ {k} : disk'[j] = disk[j]
    BY <1>5, <2>1
  <2>4. /\ dead \subseteq dead' /\ dead' \subseteq Entries
        /\ \A j \in Entries \ {k} : j \in dead' <=> j \in dead
    BY <1>5, <2>1
  <2> QED
    BY <1>1, <1>2, <1>3, <1>5, <2>2, <2>3, <2>4 DEF Parent
<1> QED
  BY <1>6, <1>7, <1>8, <1>9 DEF Touches

\* What a call has exclusively, others leave alone, but for an unlocked
\* lookup, which is remembered.
LEMMA Guarded ==
  ASSUME Typed, Called, Locked, NEW t \in Threads, Step(t)
  PROVE  /\ \A k \in Entries : owner[k - 1] # t =>
              /\ disk'[k] = disk[k]
              /\ hashed'[k] = hashed[k] \/ k \in unlocked'
         /\ \A d \in Dirs : d \in dead' /\ d \notin dead => owner[d] = t /\ owner[d - 1] = t
         /\ dead \subseteq dead' /\ unlocked \subseteq unlocked' /\ left \subseteq left'
<1>1. CASE ~Touches(t)
  BY <1>1, Untouched
<1>2. CASE excl_lookup_disk(t)
  <2>1. UNCHANGED disk /\ dead' = dead
    BY <1>2 DEF excl_lookup_disk
  <2>2. owner[Parent(t)] # t => at[t] \in unlocked'
    BY <1>2 DEF excl_lookup_disk
  <2>3. Touches(t)
    BY <1>2 DEF Touches
  <2> QED
    BY <2>1, <2>2, <2>3, Touched DEF Parent
<1>3. CASE mknod(t) \/ mkdir(t) \/ creat(t)
  <2>1. Excl(t) /\ dead' = dead
    BY <1>3 DEF mknod, mkdir, creat, Go, Return, Excl
  <2>2. owner[at[t] - 1] = t
    BY <2>1 DEF Locked, Parent
  <2>3. Touches(t)
    BY <1>3 DEF Touches
  <2> QED
    BY <2>1, <2>2, <2>3, Touched
<1>4. CASE rmdir(t)
  <2>1. Excl(t) /\ Victim(t)
    BY <1>4 DEF rmdir, Go, Excl, Victim
  <2>2. owner[at[t] - 1] = t /\ owner[at[t]] = t
    BY <2>1 DEF Locked, Parent
  <2>3. Touches(t)
    BY <1>4 DEF Touches
  <2>4. \A d : d \in dead' /\ d \notin dead => d = at[t]
    BY <1>4 DEF rmdir, fs_rmdir
  <2> QED
    BY <2>2, <2>3, <2>4, Touched
<1> QED
  BY <1>1, <1>2, <1>3, <1>4 DEF Touches

-----------------------------------------------------------------------------
(***************************************************************************)
(* Types, and which call is where.                                         *)
(***************************************************************************)
LocksTyped ==
  /\ owner \in [Dirs -> Threads \cup {NoThread}]
  /\ readers \in [Dirs -> SUBSET Threads]
  /\ \A d \in Dirs : owner[d] # NoThread => readers[d] = {}

LEMMA NextLocksTyped ==
  ASSUME Typed, NEW t \in Threads, Step(t)
  PROVE  LocksTyped'
<1> USE DEF LocksTyped
<1>1. LocksTyped /\ at[t] \in Dirs /\ Parent(t) \in Dirs
  BY Numbers DEF Typed, TypeOK, Parent
<1>2. CASE UNCHANGED <<owner, readers>>
  BY <1>1, <1>2
<1>3. ASSUME NEW d \in Dirs, LockExcl(t, d)
      PROVE  LocksTyped'
  BY <1>1, <1>3 DEF LockExcl
<1>4. ASSUME NEW d \in Dirs, LockShared(t, d)
      PROVE  LocksTyped'
  BY <1>1, <1>4 DEF LockShared
<1>5. ASSUME NEW d \in Dirs, UnlockExcl(d)
      PROVE  LocksTyped'
  BY <1>1, <1>5 DEF UnlockExcl
<1>6. ASSUME NEW d \in Dirs, UnlockShared(t, d)
      PROVE  LocksTyped'
  BY <1>1, <1>6 DEF UnlockShared
<1>7. CASE \E o \in Ops, k \in Entries, s \in BOOLEAN : begin(t, o, k, s)
  BY <1>2, <1>7 DEF begin, shared
<1>8. CASE lock(t) \/ unlock(t)
  BY <1>1, <1>3, <1>5, <1>8 DEF lock, unlock
<1>9. CASE excl_lookup_dcache(t) \/ excl_lookup_fails(t)
  BY <1>1, <1>2, <1>5, <1>9 DEF excl_lookup_dcache, excl_lookup_fails, shared
<1>10. CASE create_decide(t) \/ rmdir_decide(t) \/ rename_decide(t)
  BY <1>2, <1>10 DEF create_decide, rmdir_decide, rename_decide, shared
<1>11. CASE rmdir_lock_victim(t) \/ rmdir_unlock_victim(t)
  BY <1>1, <1>3, <1>5, <1>11 DEF rmdir_lock_victim, rmdir_unlock_victim
<1>12. CASE creat_lookup(t) \/ lookup_fast(t) \/ lookup_slow(t)
  BY <1>2, <1>12 DEF creat_lookup, lookup_fast, lookup_slow, shared
<1>13. CASE lock_shared(t) \/ unlock_shared(t)
  BY <1>1, <1>4, <1>6, <1>13 DEF lock_shared, unlock_shared
<1>14. CASE Touches(t)
  BY <1>2, <1>14, Touched
<1> QED
  BY <1>7, <1>8, <1>9, <1>10, <1>11, <1>12, <1>13, <1>14 DEF Step, Continue, Touches

\* The locals of a call.
LocalsTyped ==
  /\ pc \in [Threads -> Pcs]
  /\ op \in [Threads -> Ops \cup {"none", "rename_to"}]
  /\ at \in [Threads -> Entries]
  /\ slash \in [Threads -> BOOLEAN]
  /\ dent \in [Threads -> Nat]

LEMMA NextLocalsTyped ==
  ASSUME Typed, NEW t \in Threads, Step(t)
  PROVE  LocalsTyped' /\ dent'[t] \in 0 .. Len(hashed'[at'[t]])
<1> USE DEF LocalsTyped
<1>1. /\ LocalsTyped /\ dent[t] \in 0 .. Len(hashed[at[t]])
      /\ 1 \in Entries /\ 0 \in Nat /\ at[t] \in Entries
      /\ \A k \in Entries : Len(hashed[k]) \in Nat
  BY DirAssumption DEF Typed, TypeOK, Found, Entries
<1>2. \A k \in Entries : Len(hashed'[k]) \in Nat /\ Len(hashed[k]) <= Len(hashed'[k])
  <2>1. CASE Touches(t)
    BY <2>1, Touched
  <2>2. CASE ~Touches(t)
    BY <1>1, <2>2, Untouched
  <2> QED
    BY <2>1, <2>2
<1> USE DEF Go, Pcs
<1>3. ASSUME NEW from, Return(t, from)
      PROVE  LocalsTyped' /\ dent'[t] \in 0 .. Len(hashed'[at'[t]])
  <2>1. LocalsTyped' /\ dent'[t] = 0 /\ at'[t] \in Entries
    BY <1>1, <1>3 DEF Return
  <2> QED
    BY <1>2, <2>1
<1>4. ASSUME UNCHANGED locals, NEW from, NEW to \in Pcs, Go(t, from, to)
      PROVE  LocalsTyped' /\ dent'[t] \in 0 .. Len(hashed'[at'[t]])
  <2>1. LocalsTyped' /\ dent' = dent /\ at' = at
    BY <1>1, <1>4 DEF locals
  <2> QED
    BY <1>1, <1>2, <2>1
<1>5. CASE \E o \in Ops, k \in Entries, s \in BOOLEAN : begin(t, o, k, s)
  <2>1. LocalsTyped' /\ dent'[t] = 0 /\ at'[t] \in Entries
    BY <1>1, <1>5 DEF begin
  <2> QED
    BY <1>2, <2>1
<1>6. CASE lock(t) \/ rmdir_lock_victim(t) \/ rmdir_unlock_victim(t) \/ rmdir(t)
  BY <1>4, <1>6 DEF lock, rmdir_lock_victim, rmdir_unlock_victim, rmdir
<1>7. CASE unlock(t) \/ mkdir(t) \/ unlock_shared(t)
  BY <1>3, <1>7 DEF unlock, mkdir, unlock_shared
<1>8. CASE excl_lookup_dcache(t) \/ creat_lookup(t) \/ lookup_slow(t)
  <2>1. LocalsTyped' /\ dent'[t] \in {0, Len(hashed[at[t]])} /\ at' = at
    BY <1>1, <1>8 DEF excl_lookup_dcache, creat_lookup, lookup_slow, Asked, d_lookup, Found
  <2> QED
    BY <1>1, <1>2, <2>1
<1>9. CASE excl_lookup_disk(t)
  <2>1. /\ LocalsTyped' /\ dent'[t] = Len(hashed[at[t]]) + 1 /\ at' = at
        /\ fs_lookup(at[t])
    BY <1>1, <1>9 DEF excl_lookup_disk, Found
  <2>2. Len(hashed'[at[t]]) = Len(hashed[at[t]]) + 1
    BY <1>1, <2>1, LooksUp DEF Found
  <2> QED
    BY <1>1, <2>1, <2>2
<1>10. CASE excl_lookup_fails(t)
  BY <1>1, <1>3, <1>4, <1>10 DEF excl_lookup_fails
<1>11. CASE create_decide(t) \/ rmdir_decide(t) \/ mknod(t) \/ creat(t) \/ lock_shared(t)
  BY <1>4, <1>11 DEF create_decide, rmdir_decide, mknod, creat, lock_shared, locals
<1>12. CASE rename_decide(t)
  <2>1. CASE Return(t, "decide")
    BY <1>3, <2>1
  <2>2. CASE ~Return(t, "decide")
    <3>1. PICK k \in Entries, s \in BOOLEAN :
            at' = [at EXCEPT ![t] = k] /\ slash' = [slash EXCEPT ![t] = s]
      BY <1>12, <2>2 DEF rename_decide
    <3>2. /\ dent' = [dent EXCEPT ![t] = 0] /\ op' = [op EXCEPT ![t] = "rename_to"]
          /\ pc' = [pc EXCEPT ![t] = "dcache"]
      BY <1>12, <2>2 DEF rename_decide
    <3>3. LocalsTyped' /\ dent'[t] = 0 /\ at'[t] \in Entries
      BY <1>1, <3>1, <3>2
    <3> QED
      BY <1>2, <3>3
  <2> QED
    BY <2>1, <2>2
<1>13. CASE lookup_fast(t)
  BY <1>3, <1>4, <1>13 DEF lookup_fast
<1> QED
  BY <1>5, <1>6, <1>7, <1>8, <1>9, <1>10, <1>11, <1>12, <1>13 DEF Step, Continue

LEMMA NextTyped ==
  ASSUME Typed, NEW t \in Threads, Step(t)
  PROVE  Typed'
<1>1. LocksTyped' /\ LocalsTyped' /\ dent'[t] \in 0 .. Len(hashed'[at'[t]])
  BY NextLocksTyped, NextLocalsTyped
<1>2. /\ disk' \in [Entries -> {"none"} \cup Kinds]
      /\ hashed' \in [Entries -> Seq(States)]
      /\ \A k \in Entries : Len(hashed[k]) <= Len(hashed'[k])
      /\ dead' \subseteq Entries /\ left' \subseteq Dirs
      /\ unlocked' \subseteq Entries /\ missed' \subseteq Entries
  <2>1. CASE Touches(t)
    BY <2>1, Touched
  <2>2. CASE ~Touches(t)
    <3>1. \A k \in Entries : Len(hashed[k]) \in Nat
      BY DEF Typed
    <3> QED
      BY <2>2, <3>1, Untouched DEF Typed, TypeOK
  <2> QED
    BY <2>1, <2>2
<1>3. ASSUME NEW u \in Threads
      PROVE  dent'[u] \in 0 .. Len(hashed'[at'[u]])
  <2>1. CASE u = t
    BY <1>1, <2>1
  <2>2. CASE u # t
    <3>1. dent'[u] = dent[u] /\ at'[u] = at[u] /\ at[u] \in Entries
      BY <2>2, OthersAreStill DEF Typed, TypeOK
    <3>2. dent[u] \in 0 .. Len(hashed[at[u]]) /\ Len(hashed'[at[u]]) \in Nat
          /\ Len(hashed[at[u]]) \in Nat
      BY <1>2, <3>1 DEF Typed, TypeOK, Found
    <3> QED
      BY <1>2, <3>1, <3>2
  <2> QED
    BY <2>1, <2>2
<1> QED
  BY <1>1, <1>2, <1>3 DEF Typed, TypeOK, LocksTyped, LocalsTyped, Found, States

LEMMA NextCalled ==
  ASSUME Typed, Called, NEW t \in Threads, Step(t)
  PROVE  Called'
<1> DEFINE Call(u) ==
      /\ pc[u] \in {"lock", "unlock"} => op[u] \in Locking
      /\ pc[u] \in {"dcache", "lookup", "refused", "decide"} => op[u] \in Creators \cup Renaming \cup {"rmdir"}
      /\ pc[u] \in {"create", "null"} => op[u] \in Creators
      /\ pc[u] \in {"lock_victim", "rmdir", "unlock_victim"} => op[u] = "rmdir"
      /\ pc[u] \in {"open_lookup", "open_create"} => op[u] = "creat"
<1>1. ASSUME NEW u \in Threads, u # t
      PROVE  Call(u)'
  <2>1. pc'[u] = pc[u] /\ op'[u] = op[u]
    BY <1>1, OthersAreStill
  <2>2. Call(u)
    BY DEF Called
  <2> QED
    BY <2>1, <2>2
<1>2. Call(t)'
  <2> USE DEF Creators, Opens, Locking, Renaming, Go
  <2>1. Call(t) /\ pc \in [Threads -> Pcs] /\ op \in [Threads -> Ops \cup {"none", "rename_to"}]
    BY DEF Called, Typed, TypeOK
  <2>2. ASSUME NEW from, Return(t, from)
        PROVE  pc'[t] = "idle"
    BY <2>1, <2>2 DEF Return
  <2>3. CASE \E o \in Ops, k \in Entries, s \in BOOLEAN : begin(t, o, k, s)
    BY <2>1, <2>3, DirAssumption DEF begin
  <2>4. CASE lock(t) \/ unlock(t)
    BY <2>1, <2>2, <2>4 DEF lock, unlock, locals
  <2>5. CASE excl_lookup_dcache(t) \/ excl_lookup_disk(t) \/ excl_lookup_fails(t)
    BY <2>1, <2>2, <2>5 DEF excl_lookup_dcache, Asked, excl_lookup_disk, excl_lookup_fails, locals
  <2>6. CASE create_decide(t) \/ mknod(t) \/ mkdir(t)
    BY <2>1, <2>2, <2>6 DEF create_decide, mknod, mkdir, locals
  <2>7. CASE rmdir_decide(t) \/ rmdir_lock_victim(t) \/ rmdir(t) \/ rmdir_unlock_victim(t)
    BY <2>1, <2>7 DEF rmdir_decide, rmdir_lock_victim, rmdir, rmdir_unlock_victim, locals
  <2>8. CASE rename_decide(t)
    BY <2>1, <2>2, <2>8 DEF rename_decide
  <2>9. CASE creat_lookup(t) \/ creat(t)
    BY <2>1, <2>9 DEF creat_lookup, creat, locals
  <2>10. CASE lookup_fast(t) \/ lock_shared(t) \/ lookup_slow(t) \/ unlock_shared(t)
    BY <2>1, <2>2, <2>10 DEF lookup_fast, lock_shared, lookup_slow, unlock_shared
  <2> QED
    BY <2>3, <2>4, <2>5, <2>6, <2>7, <2>8, <2>9, <2>10 DEF Step, Continue
<1> QED
  BY <1>1, <1>2 DEF Called

-----------------------------------------------------------------------------
(***************************************************************************)
(* Who has which lock.                                                     *)
(***************************************************************************)
LEMMA LocksOfOthers ==
  ASSUME Typed, Called, Locked, NEW t \in Threads, Step(t), NEW u \in Threads, u # t,
         NEW d \in Dirs
  PROVE  /\ owner'[d] = u <=> owner[d] = u
         /\ u \in readers'[d] <=> u \in readers[d]
<1>1. /\ owner \in [Dirs -> Threads \cup {NoThread}] /\ NoThread \notin Threads
      /\ readers \in [Dirs -> SUBSET Threads]
      /\ at[t] \in Dirs /\ Parent(t) \in Dirs
  BY Numbers, DirAssumption DEF Typed, TypeOK, Parent
<1>2. CASE UNCHANGED <<owner, readers>>
  BY <1>2
<1>3. ASSUME NEW e \in Dirs, LockExcl(t, e) \/ (UnlockExcl(e) /\ owner[e] = t)
      PROVE  /\ owner'[d] = u <=> owner[d] = u
             /\ u \in readers'[d] <=> u \in readers[d]
  BY <1>1, <1>3 DEF LockExcl, UnlockExcl
<1>4. ASSUME NEW e \in Dirs, LockShared(t, e) \/ UnlockShared(t, e)
      PROVE  /\ owner'[d] = u <=> owner[d] = u
             /\ u \in readers'[d] <=> u \in readers[d]
  BY <1>1, <1>4 DEF LockShared, UnlockShared
<1>5. Excl(t) => owner[Parent(t)] = t
  BY DEF Locked
<1>6. Victim(t) => owner[at[t]] = t
  BY DEF Locked
<1>7. CASE \E o \in Ops, k \in Entries, s \in BOOLEAN : begin(t, o, k, s)
  BY <1>2, <1>7 DEF begin, shared
<1>8. CASE lock(t)
  BY <1>1, <1>3, <1>8 DEF lock
<1>9. CASE unlock(t)
  BY <1>1, <1>3, <1>5, <1>9 DEF unlock, Return, Go, Excl
<1>10. CASE excl_lookup_fails(t)
  <2>1. pc[t] \in {"lookup", "refused"}
    BY <1>10 DEF excl_lookup_fails
  <2>2. op[t] \in Creators => Excl(t)
    BY <2>1 DEF Excl, Creators, Renaming
  <2>3. UNCHANGED <<owner, readers>> \/ (UnlockExcl(Parent(t)) /\ op[t] \in Creators)
    BY <1>10 DEF excl_lookup_fails
  <2> QED
    BY <1>1, <1>2, <1>3, <1>5, <2>2, <2>3
<1>11. CASE rmdir_lock_victim(t)
  BY <1>1, <1>3, <1>11 DEF rmdir_lock_victim
<1>12. CASE rmdir_unlock_victim(t)
  BY <1>1, <1>3, <1>6, <1>12 DEF rmdir_unlock_victim, Go, Victim
<1>13. CASE lock_shared(t) \/ unlock_shared(t)
  BY <1>1, <1>4, <1>13 DEF lock_shared, unlock_shared
<1>14. CASE \/ excl_lookup_dcache(t) \/ create_decide(t) \/ rmdir_decide(t) \/ rename_decide(t)
            \/ creat_lookup(t) \/ lookup_fast(t) \/ lookup_slow(t)
  BY <1>2, <1>14 DEF excl_lookup_dcache, create_decide, rmdir_decide, rename_decide,
     creat_lookup, lookup_fast, lookup_slow, shared
<1>15. CASE Touches(t)
  BY <1>2, <1>15, Touched
<1> QED
  BY <1>7, <1>8, <1>9, <1>10, <1>11, <1>12, <1>13, <1>14, <1>15 DEF Step, Continue, Touches

\* The locks one thread has, as its call wants them.
Has(t) ==
  /\ Excl(t) => owner[Parent(t)] = t
  /\ Victim(t) => owner[at[t]] = t
  /\ Shared(t) => t \in readers[Parent(t)]

Owes(t) ==
  \A d \in Dirs :
    /\ owner[d] = t /\ d \notin left =>
         (Excl(t) /\ d = Parent(t)) \/ (Victim(t) /\ d = at[t])
    /\ t \in readers[d] => Shared(t) /\ d = Parent(t)

LEMMA OwnLocks ==
  ASSUME Typed, Called, NEW t \in Threads, Has(t), Owes(t), Step(t)
  PROVE  Has(t)' /\ Owes(t)'
<1> USE DEF Has, Owes, Excl, Victim, Shared, Renaming, Go, history
<1>1. /\ owner \in [Dirs -> Threads \cup {NoThread}] /\ NoThread \notin Threads
      /\ readers \in [Dirs -> SUBSET Threads]
      /\ at[t] \in Dirs /\ at[t] - 1 \in Dirs /\ at[t] # at[t] - 1 /\ Parent(t) = at[t] - 1
      /\ pc \in [Threads -> Pcs] /\ op \in [Threads -> Ops \cup {"none", "rename_to"}]
      /\ at \in [Threads -> Entries]
  BY Numbers, DirAssumption DEF Typed, TypeOK, Parent
<1>2. Parent(t)' = at'[t] - 1
  BY DEF Parent
<1>3. /\ pc[t] \in {"lock", "unlock"} => op[t] \in Locking
      /\ pc[t] \in {"create", "null"} => op[t] \in Creators
      /\ \A o \in Locking : o \notin Renaming
      /\ Creators \subseteq Locking
  BY DEF Called, Locking, Creators, Opens
<1>4. CASE \E o \in Ops, k \in Entries, s \in BOOLEAN : begin(t, o, k, s)
  BY <1>1, <1>2, <1>4, DirAssumption DEF begin, shared, Creators, Opens
<1>5. CASE lock(t)
  <2>1. /\ owner' = [owner EXCEPT ![at[t] - 1] = t] /\ UNCHANGED <<readers, left, at, op>>
        /\ pc[t] = "lock" /\ pc'[t] \in {"open_lookup", "dcache"}
    BY <1>1, <1>5 DEF lock, LockExcl, locals
  <2> QED
    BY <1>1, <1>2, <1>3, <2>1
<1>6. CASE unlock(t)
  <2>1. /\ owner' = [owner EXCEPT ![at[t] - 1] = NoThread] /\ UNCHANGED <<readers, left>>
        /\ pc[t] = "unlock" /\ pc'[t] = "idle"
    BY <1>1, <1>6 DEF unlock, UnlockExcl, Return
  <2> QED
    BY <1>1, <2>1
<1>7. CASE excl_lookup_dcache(t)
  <2>1. UNCHANGED <<owner, readers, left, at, op>> /\ pc[t] = "dcache"
        /\ pc'[t] \in {"decide", "lookup", "refused"}
    BY <1>1, <1>7 DEF excl_lookup_dcache, Asked, shared, history
  <2> QED
    BY <1>1, <1>2, <2>1
<1>8. CASE excl_lookup_disk(t)
  <2>1. UNCHANGED <<owner, readers, left, at, op>> /\ pc[t] = "lookup" /\ pc'[t] = "decide"
    BY <1>1, <1>8 DEF excl_lookup_disk
  <2> QED
    BY <1>1, <1>2, <2>1
<1>9. CASE excl_lookup_fails(t)
  <2>1. pc[t] \in {"lookup", "refused"} /\ left' = left
    BY <1>9 DEF excl_lookup_fails, history
  <2>2. CASE op[t] \in Creators /\ UnlockExcl(Parent(t)) /\ pc'[t] = "null"
    BY <1>1, <1>3, <2>1, <2>2 DEF UnlockExcl
  <2>3. CASE op[t] = "rmdir" /\ UNCHANGED <<owner, readers, locals>> /\ pc'[t] = "unlock"
    BY <1>1, <1>2, <2>1, <2>3 DEF locals
  <2>4. CASE op[t] \in Renaming /\ UNCHANGED <<owner, readers>> /\ pc'[t] = "idle"
    BY <1>1, <2>1, <2>4
  <2> QED
    BY <1>1, <1>9, <2>2, <2>3, <2>4 DEF excl_lookup_fails, Return
<1>10. CASE create_decide(t) \/ rmdir_decide(t)
  <2>1. /\ UNCHANGED <<owner, readers, left, at, op>> /\ pc[t] = "decide"
        /\ op[t] \in Locking
        /\ pc'[t] \in {"unlock", "create", "lock_victim"}
    BY <1>1, <1>3, <1>10 DEF create_decide, rmdir_decide, shared, locals, Locking
  <2> QED
    BY <1>1, <1>2, <1>3, <2>1
<1>11. CASE mknod(t) \/ creat(t)
  <2>1. /\ UNCHANGED <<owner, readers, left, at, op>> /\ pc[t] \in {"create", "open_create"}
        /\ pc'[t] = "unlock"
    BY <1>1, <1>11 DEF mknod, creat, locals
  <2> QED
    BY <1>1, <1>2, <2>1
<1>12. CASE mkdir(t)
  <2>1. /\ UNCHANGED <<owner, readers>> /\ left' = left \cup {at[t] - 1}
        /\ pc[t] = "create" /\ pc'[t] = "idle"
    BY <1>1, <1>12 DEF mkdir, Return
  <2> QED
    BY <1>1, <2>1
<1>13. CASE rmdir_lock_victim(t)
  <2>1. /\ owner' = [owner EXCEPT ![at[t]] = t] /\ UNCHANGED <<readers, left, at, op>>
        /\ pc[t] = "lock_victim" /\ pc'[t] = "rmdir"
    BY <1>1, <1>13 DEF rmdir_lock_victim, LockExcl, locals
  <2> QED
    BY <1>1, <1>2, <2>1
<1>14. CASE rmdir(t)
  <2>1. UNCHANGED <<owner, readers, left, at, op>> /\ pc[t] = "rmdir"
        /\ pc'[t] = "unlock_victim"
    BY <1>1, <1>14 DEF rmdir, locals
  <2> QED
    BY <1>1, <1>2, <2>1
<1>15. CASE rmdir_unlock_victim(t)
  <2>1. /\ owner' = [owner EXCEPT ![at[t]] = NoThread] /\ UNCHANGED <<readers, left, at, op>>
        /\ pc[t] = "unlock_victim" /\ pc'[t] = "unlock"
    BY <1>1, <1>15 DEF rmdir_unlock_victim, UnlockExcl, locals
  <2> QED
    BY <1>1, <1>2, <2>1
<1>16. CASE rename_decide(t)
  <2>1. /\ UNCHANGED <<owner, readers, left>> /\ pc[t] = "decide" /\ op[t] \in Renaming
        /\ pc'[t] = "idle" \/ (pc'[t] = "dcache" /\ op'[t] = "rename_to")
    BY <1>1, <1>16 DEF rename_decide, shared, Return
  <2> QED
    BY <1>1, <2>1
<1>17. CASE creat_lookup(t)
  <2>1. UNCHANGED <<owner, readers, left, at, op>> /\ pc[t] = "open_lookup"
        /\ pc'[t] \in {"unlock", "open_create"}
    BY <1>1, <1>17 DEF creat_lookup, shared
  <2> QED
    BY <1>1, <1>2, <2>1
<1>18. CASE lookup_fast(t)
  <2>1. UNCHANGED <<owner, readers, left>> /\ pc[t] = "fast"
        /\ pc'[t] \in {"idle", "lock_shared"}
    BY <1>1, <1>18 DEF lookup_fast, shared, Return
  <2> QED
    BY <1>1, <2>1
<1>19. CASE lock_shared(t)
  <2>1. /\ readers' = [readers EXCEPT ![at[t] - 1] = @ \cup {t}] /\ UNCHANGED <<owner, left, at>>
        /\ pc[t] = "lock_shared" /\ pc'[t] = "slow"
    BY <1>1, <1>19 DEF lock_shared, LockShared, locals
  <2> QED
    BY <1>1, <1>2, <2>1
<1>20. CASE lookup_slow(t)
  <2>1. UNCHANGED <<owner, readers, left, at>> /\ pc[t] = "slow" /\ pc'[t] = "unlock_shared"
    BY <1>1, <1>20 DEF lookup_slow, shared
  <2> QED
    BY <1>1, <1>2, <2>1
<1>21. CASE unlock_shared(t)
  <2>1. /\ readers' = [readers EXCEPT ![at[t] - 1] = @ \ {t}] /\ UNCHANGED <<owner, left>>
        /\ pc[t] = "unlock_shared" /\ pc'[t] = "idle"
    BY <1>1, <1>21 DEF unlock_shared, UnlockShared, Return
  <2> QED
    BY <1>1, <2>1
<1> QED
  BY <1>4, <1>5, <1>6, <1>7, <1>8, <1>9, <1>10, <1>11, <1>12, <1>13, <1>14, <1>15, <1>16,
     <1>17, <1>18, <1>19, <1>20, <1>21 DEF Step, Continue

LEMMA NextLocked ==
  ASSUME Typed, Called, Locked, Owned, NEW t \in Threads, Step(t)
  PROVE  Locked' /\ Owned'
<1>1. ASSUME NEW u \in Threads
      PROVE  Has(u)' /\ Owes(u)'
  <2>1. Has(u) /\ Owes(u)
    BY DEF Locked, Owned, Has, Owes
  <2>2. CASE u = t
    BY <2>1, <2>2, OwnLocks
  <2>3. CASE u # t
    <3>1. pc'[u] = pc[u] /\ op'[u] = op[u] /\ at'[u] = at[u]
      BY <2>3, OthersAreStill
    <3>2. /\ Excl(u)' <=> Excl(u)
          /\ Victim(u)' <=> Victim(u)
          /\ Shared(u)' <=> Shared(u)
          /\ Parent(u)' = Parent(u)
      BY <3>1 DEF Excl, Victim, Shared, Parent
    <3>3. left \subseteq left'
      BY Guarded
    <3>4. Parent(u) \in Dirs /\ at[u] \in Dirs
      BY Numbers DEF Typed, TypeOK, Parent
    <3> QED
      BY <2>1, <2>3, <3>1, <3>2, <3>3, <3>4, LocksOfOthers DEF Has, Owes
  <2> QED
    BY <2>2, <2>3
<1> QED
  BY <1>1 DEF Locked, Owned, Has, Owes

-----------------------------------------------------------------------------
(***************************************************************************)
(* What the cache says of a name, and what calls know of it.               *)
(***************************************************************************)

\* Where a call creates, it works on the newest dentry, and a removed directory
\* is not what it takes for a free name.
LEMMA Creating ==
  ASSUME Typed, Called, NEW t \in Threads, Works(t),
         pc[t] \in {"create", "open_create"}, at[t] \notin unlocked
  PROVE  dent[t] = Found(at[t]) /\ Cached(at[t]) \notin Kinds
<1>1. CASE pc[t] = "create"
  <2>1. op[t] \notin Renaming
    BY <1>1 DEF Called, Creators, Renaming
  <2> QED
    BY <1>1, <2>1 DEF Works, Kinds
<1>2. CASE pc[t] = "open_create"
  BY <1>2 DEF Works
<1> QED
  BY <1>1, <1>2

LEMMA NextNames ==
  ASSUME Typed, Called, Locked, Names, NEW t \in Threads, Works(t), Step(t)
  PROVE  Names'
<1>1. CASE ~Touches(t)
  BY <1>1, Untouched DEF Names, Named, Cached, Found, Told
<1>2. CASE Touches(t)
  <2>1. PICK k \in Entries : k = at[t]
    BY DEF Typed, TypeOK
  <2>2. /\ \A j \in Entries : j # k =>
             /\ disk'[j] = disk[j] /\ hashed'[j] = hashed[j]
             /\ j \in dead' <=> j \in dead
             /\ j \in unlocked' <=> j \in unlocked
             /\ j \in missed' <=> j \in missed
        /\ dead \subseteq dead' /\ unlocked \subseteq unlocked'
    BY <1>2, <2>1, Touched
  <2>3. ASSUME NEW j \in Entries, j # k
        PROVE  Named(j)'
    BY <2>2, <2>3 DEF Names, Named, Cached, Found, Told
  <2>4. ASSUME k \notin unlocked'
        PROVE  Named(k)'
    <3>1. Named(k) /\ k \notin unlocked /\ Found(k) \in Nat
      BY <2>2, <2>4 DEF Names, Typed, Found
    <3>2. CASE excl_lookup_disk(t)
      <4>1. /\ fs_lookup(k) /\ UNCHANGED <<disk, dead>>
            /\ owner[Parent(t)] = t /\ pc[t] = "lookup"
            /\ slash[t] /\ Found(k) > 0 => k \in missed'
        BY <2>1, <2>4, <3>2 DEF excl_lookup_disk, Go
      <4>2. k \notin missed' => Found(k) = 0
        BY <2>1, <3>1, <4>1 DEF Works
      <4>3. /\ Len(hashed'[k]) = Found(k) + 1
            /\ hashed'[k][Len(hashed'[k])] = Told(k)
        BY <4>1, LooksUp DEF Told
      <4>4. Found(k)' = Found(k) + 1 /\ Cached(k)' = Told(k)'
        BY <3>1, <4>1, <4>3 DEF Found, Cached, Told
      <4> QED
        BY <3>1, <4>2, <4>3, <4>4 DEF Named
    <3>3. CASE mknod(t) \/ mkdir(t) \/ creat(t)
      <4>1. pc[t] \in {"create", "open_create"} /\ UNCHANGED <<dead, missed>>
        BY <3>3 DEF mknod, mkdir, creat, Go, Return, history
      <4>2. PICK kind \in Kinds : fs_create(k, dent[t], kind)
        BY <2>1, <3>3 DEF mknod, mkdir, creat, Kinds
      <4>3. dent[t] = Found(k)
        BY <2>1, <3>1, <4>1, Creating
      <4>4. /\ Len(hashed'[k]) = Len(hashed[k])
            /\ \/ disk' = disk /\ hashed' = hashed
               \/ disk'[k] = kind /\ (Found(k) # 0 => hashed'[k][Found(k)] = kind)
        BY <4>2, <4>3, Creates DEF Found
      <4>5. CASE disk' = disk /\ hashed' = hashed
        BY <3>1, <4>1, <4>5 DEF Named, Cached, Found, Told
      <4>6. CASE disk'[k] = kind /\ (Found(k) # 0 => hashed'[k][Found(k)] = kind)
        <5>1. Found(k)' = Found(k) /\ (Found(k) > 0 => Cached(k)' = Told(k)')
          BY <3>1, <4>4, <4>6 DEF Cached, Found, Told, Kinds
        <5> QED
          BY <3>1, <4>1, <4>4, <5>1 DEF Named
      <4> QED
        BY <4>4, <4>5, <4>6
    <3>4. CASE rmdir(t)
      <4>1. pc[t] = "rmdir" /\ UNCHANGED <<hashed, missed>>
        BY <3>4 DEF rmdir, Go, history
      <4>2. Cached(k) = "dir" /\ dent[t] >= 1 /\ dent[t] \in 0 .. Found(k)
        BY <2>1, <3>1, <4>1 DEF Works, Typed, TypeOK
      <4>3. Found(k) > 0
        BY <3>1, <4>2
      <4>4. \/ UNCHANGED <<disk, dead>>
            \/ disk' = [disk EXCEPT ![k] = "none"] /\ dead' = dead \cup {k}
        BY <2>1, <3>4 DEF rmdir, fs_rmdir
      <4>5. Found(k)' = Found(k) /\ Cached(k)' = Cached(k)
        BY <4>1 DEF Found, Cached
      <4>6. CASE UNCHANGED <<disk, dead>>
        BY <3>1, <4>1, <4>5, <4>6 DEF Named, Told
      <4>7. CASE disk' = [disk EXCEPT ![k] = "none"] /\ dead' = dead \cup {k}
        <5>1. disk'[k] = "none" /\ k \in dead'
          BY <4>7 DEF Typed, TypeOK
        <5> QED
          BY <3>1, <4>1, <4>2, <4>3, <4>5, <5>1 DEF Named
      <4> QED
        BY <4>4, <4>6, <4>7
    <3> QED
      BY <1>2, <3>2, <3>3, <3>4 DEF Touches
  <2>5. Named(k)'
    BY <2>4 DEF Named
  <2> QED
    BY <2>3, <2>5 DEF Names
<1> QED
  BY <1>1, <1>2

\* What a call knows stays true whatever others do.
LEMMA WorksOfOthers ==
  ASSUME Typed, Called, Locked, NEW t \in Threads, Step(t), NEW u \in Threads, u # t, Works(u)
  PROVE  Works(u)'
<1>1. /\ pc'[u] = pc[u] /\ op'[u] = op[u] /\ at'[u] = at[u]
      /\ slash'[u] = slash[u] /\ dent'[u] = dent[u]
      /\ Parent(u)' = Parent(u)
  BY OthersAreStill DEF Parent
<1>2. PICK k \in Entries : k = at[u]
  BY DEF Typed, TypeOK
<1>3. k - 1 \in Dirs /\ k \in Dirs /\ Parent(u) = k - 1
  BY <1>2, Numbers DEF Parent
<1>4. owner'[k - 1] = u => owner[k - 1] = u
  BY <1>3, LocksOfOthers
<1>5. /\ unlocked \subseteq unlocked' /\ dead \subseteq dead'
      /\ owner[k - 1] = u =>
           /\ disk'[k] = disk[k]
           /\ hashed'[k] = hashed[k] \/ k \in unlocked'
           /\ k - 1 \in dead' => k - 1 \in dead
  BY <1>2, <1>3, Guarded
<1>6. /\ pc[u] \in {"create", "lock_victim", "rmdir", "open_create"} => owner[k - 1] = u
      /\ pc[u] = "decide" /\ op[u] \notin Renaming => owner[k - 1] = u
  BY <1>3 DEF Locked, Excl
<1>7. CASE pc[u] = "lookup"
  BY <1>1, <1>2, <1>3, <1>4, <1>5, <1>7 DEF Works, Found
<1>8. CASE pc[u] = "create"
  BY <1>1, <1>2, <1>3, <1>5, <1>6, <1>8 DEF Works, Found, Cached
<1>9. CASE pc[u] \in {"lock_victim", "rmdir"}
  BY <1>1, <1>2, <1>3, <1>5, <1>6, <1>9 DEF Works, Found, Cached
<1>10. CASE pc[u] = "open_create"
  BY <1>1, <1>2, <1>3, <1>5, <1>6, <1>10 DEF Works, Found, Cached
<1>11. CASE pc[u] = "decide"
  BY <1>1, <1>2, <1>3, <1>5, <1>6, <1>11 DEF Works, Found
<1>12. CASE pc[u] \notin {"lookup", "decide", "create", "lock_victim", "rmdir", "open_create"}
  BY <1>1, <1>12 DEF Works
<1> QED
  BY <1>7, <1>8, <1>9, <1>10, <1>11, <1>12

\* What a call finds out is true when it does.
LEMMA OwnWork ==
  ASSUME Typed, Called, Locked, Names, NEW t \in Threads, Works(t), Step(t)
  PROVE  Works(t)'
<1>1. PICK k \in Entries : k = at[t]
  BY DEF Typed, TypeOK
<1>2. /\ Named(k) /\ Found(k) \in Nat /\ dent[t] \in 0 .. Found(k)
      /\ pc \in [Threads -> Pcs] /\ dent \in [Threads -> Nat]
      /\ hashed[k] \in Seq(States)
      /\ Parent(t) = k - 1
  BY <1>1 DEF Names, Typed, TypeOK, Found, Parent
<1>3. ASSUME pc'[t] \notin {"lookup", "decide", "create", "lock_victim", "rmdir", "open_create"}
      PROVE  Works(t)'
  BY <1>3 DEF Works
<1>4. CASE \E o \in Ops, e \in Entries, s \in BOOLEAN : begin(t, o, e, s)
  BY <1>2, <1>3, <1>4 DEF begin, Go
<1>5. CASE lock(t) \/ unlock(t)
  BY <1>2, <1>3, <1>5 DEF lock, unlock, Go, Return
<1>6. CASE excl_lookup_dcache(t)
  <2>1. /\ UNCHANGED <<shared, at, slash>>
        /\ dent'[t] = IF slash[t] THEN 0 ELSE Found(k)
        /\ pc'[t] \in IF dent'[t] > 0 THEN {"decide"} ELSE {"lookup", "refused"}
        /\ pc'[t] = "lookup" => k - 1 \notin dead
    BY <1>1, <1>2, <1>6 DEF excl_lookup_dcache, d_lookup, Asked, Go
  <2> QED
    BY <1>1, <1>2, <2>1 DEF Works, Found, Parent, shared, history
<1>7. CASE excl_lookup_disk(t)
  <2>1. pc'[t] = "decide" /\ dent'[t] = Found(k) + 1
    BY <1>1, <1>2, <1>7 DEF excl_lookup_disk, Go
  <2>2. Len(hashed'[k]) = Found(k) + 1 /\ at'[t] = k
    BY <1>1, <1>7, LooksUp DEF excl_lookup_disk
  <2> QED
    BY <1>2, <2>1, <2>2 DEF Works, Found
<1>8. CASE excl_lookup_fails(t)
  BY <1>2, <1>3, <1>8 DEF excl_lookup_fails, Go, Return
<1>9. CASE create_decide(t)
  <2>1. /\ UNCHANGED <<shared, op, at, dent>> /\ pc[t] = "decide" /\ op[t] \notin Renaming
        /\ \/ pc'[t] = "unlock"
           \/ pc'[t] = "create" /\ Kind(t) \notin Kinds
    BY <1>2, <1>9 DEF create_decide, Go, locals, Creators, Renaming
  <2>2. CASE pc'[t] = "unlock"
    BY <1>3, <2>2
  <2>3. CASE pc'[t] = "create" /\ Kind(t) \notin Kinds
    <3>1. dent[t] >= 1
      BY <2>1 DEF Works
    <3>2. Kind(t) = "negative"
      BY <1>1, <1>2, <2>3, <3>1 DEF Kind, States, Found
    <3>3. ASSUME k \notin unlocked
          PROVE  dent[t] = Found(k) /\ Cached(k) = "negative" /\ disk[k] = "none"
      <4>1. dent[t] = Found(k)
        BY <1>1, <2>1, <3>3 DEF Works
      <4>2. Cached(k) = "negative"
        BY <1>1, <3>1, <3>2, <4>1 DEF Kind, Cached
      <4>3. disk[k] \in {"none"} \cup Kinds
        BY DEF Typed, TypeOK
      <4> QED
        BY <1>2, <3>1, <3>3, <4>1, <4>2, <4>3 DEF Named, Told, Kinds
    <3> QED
      BY <1>1, <1>2, <2>1, <2>3, <3>1, <3>3 DEF Works, Cached, Found, Parent, shared, history
  <2> QED
    BY <2>1, <2>2, <2>3
<1>10. CASE mknod(t) \/ mkdir(t) \/ creat(t)
  BY <1>2, <1>3, <1>10 DEF mknod, mkdir, creat, Go, Return
<1>11. CASE rmdir_decide(t)
  <2>1. /\ UNCHANGED <<shared, op, at, dent>> /\ pc[t] = "decide" /\ op[t] = "rmdir"
        /\ pc'[t] = IF Kind(t) # "dir" \/ k - 1 \in dead THEN "unlock" ELSE "lock_victim"
    BY <1>2, <1>11 DEF rmdir_decide, Go, locals
  <2>2. CASE Kind(t) # "dir" \/ k - 1 \in dead
    BY <1>3, <2>1, <2>2
  <2>3. CASE Kind(t) = "dir" /\ k - 1 \notin dead
    <3>1. dent[t] >= 1
      BY <2>1 DEF Works
    <3>2. ASSUME k \notin unlocked
          PROVE  dent[t] = Found(k) /\ Cached(k) = "dir" /\ (k \notin dead => disk[k] = "dir")
      <4>1. dent[t] = Found(k)
        BY <1>1, <2>1, <3>2 DEF Works, Renaming
      <4>2. Cached(k) = "dir"
        BY <1>1, <2>3, <3>1, <4>1 DEF Kind, Cached
      <4> QED
        BY <1>2, <3>1, <3>2, <4>1, <4>2 DEF Named, Told
    <3> QED
      BY <1>1, <1>2, <2>1, <2>3, <3>1, <3>2 DEF Works, Cached, Found, Parent, shared, history
  <2> QED
    BY <2>2, <2>3
<1>12. CASE rmdir_lock_victim(t)
  <2>1. /\ UNCHANGED <<disk, hashed, dead, unlocked, op, at, dent>>
        /\ pc[t] = "lock_victim" /\ pc'[t] = "rmdir"
    BY <1>2, <1>12 DEF rmdir_lock_victim, Go, locals, history
  <2> QED
    BY <2>1 DEF Works, Cached, Found
<1>13. CASE rmdir(t) \/ rmdir_unlock_victim(t)
  BY <1>2, <1>3, <1>13 DEF rmdir, rmdir_unlock_victim, Go
<1>14. CASE rename_decide(t)
  <2>1. pc'[t] \in {"idle", "dcache"}
    BY <1>2, <1>14 DEF rename_decide, Go, Return
  <2> QED
    BY <1>3, <2>1
<1>15. CASE creat_lookup(t)
  <2>1. /\ UNCHANGED <<shared, at>> /\ dent'[t] = Found(k)
        /\ \/ pc'[t] = "unlock"
           \/ pc'[t] = "open_create" /\ k - 1 \notin dead /\ Cached(k) \notin Kinds
    BY <1>1, <1>2, <1>15 DEF creat_lookup, Go
  <2> QED
    BY <1>1, <1>2, <2>1 DEF Works, Cached, Found, Parent, shared, history
<1>16. CASE lookup_fast(t) \/ lock_shared(t) \/ lookup_slow(t) \/ unlock_shared(t)
  BY <1>2, <1>3, <1>16 DEF lookup_fast, lock_shared, lookup_slow, unlock_shared, Go, Return
<1> QED
  BY <1>4, <1>5, <1>6, <1>7, <1>8, <1>9, <1>10, <1>11, <1>12, <1>13, <1>14, <1>15, <1>16
     DEF Step, Continue

-----------------------------------------------------------------------------
(***************************************************************************)
(* The invariant, and what it says.                                        *)
(***************************************************************************)
LEMMA InitIInv ==
  ASSUME Init
  PROVE  IInv
<1>1. /\ 1 \in Entries /\ NoThread \notin Threads
      /\ \A k \in Entries : k # 0
  BY DirAssumption DEF Entries
<1>2. disk \in [Entries -> {"none"} \cup Kinds]
  BY DEF Init
<1>3. PICK known \in SUBSET Entries :
        hashed = [k \in Entries |->
          IF k \notin known THEN << >>
          ELSE <<IF disk[k] = "none" THEN "negative" ELSE disk[k]>>]
  BY DEF Init
<1>4. ASSUME NEW k \in Entries
      PROVE  /\ hashed[k] \in Seq(States)
             /\ \/ Len(hashed[k]) = 0
                \/ /\ Len(hashed[k]) = 1
                   /\ hashed[k][1] = IF disk[k] = "none" THEN "negative" ELSE disk[k]
  <2>1. (IF disk[k] = "none" THEN "negative" ELSE disk[k]) \in States
    BY <1>2 DEF States
  <2>2. CASE k \notin known
    BY <1>3, <2>2
  <2>3. CASE k \in known
    <3>1. hashed[k] = <<IF disk[k] = "none" THEN "negative" ELSE disk[k]>>
      BY <1>3, <2>3
    <3> HIDE <1>3
    <3> QED
      BY <2>1, <3>1
  <2> QED
    BY <2>2, <2>3
<1>5. hashed \in [Entries -> Seq(States)]
  <2>1. hashed = [k \in Entries |-> hashed[k]]
    BY <1>3
  <2> QED
    BY <1>4, <2>1
<1>6. /\ dead = {} /\ unlocked = {} /\ missed = {} /\ left = {}
      /\ owner = [d \in Dirs |-> NoThread] /\ readers = [d \in Dirs |-> {}]
      /\ pc = [t \in Threads |-> "idle"] /\ op = [t \in Threads |-> "none"]
      /\ at = [t \in Threads |-> 1] /\ dent = [t \in Threads |-> 0]
      /\ slash = [t \in Threads |-> FALSE]
  BY DEF Init
<1>7. Typed
  <2>1. \A k \in Entries : 0 \in 0 .. Len(hashed[k])
    BY <1>4
  <2>2. /\ pc \in [Threads -> Pcs] /\ op \in [Threads -> Ops \cup {"none", "rename_to"}]
        /\ at \in [Threads -> Entries] /\ dent \in [Threads -> Nat]
        /\ slash \in [Threads -> BOOLEAN]
        /\ owner \in [Dirs -> Threads \cup {NoThread}]
        /\ readers \in [Dirs -> SUBSET Threads]
        /\ \A d \in Dirs : owner[d] # NoThread => readers[d] = {}
    BY <1>1, <1>6 DEF Pcs
  <2>3. \A t \in Threads : dent[t] \in 0 .. Len(hashed[at[t]])
    BY <1>1, <1>6, <2>1
  <2> QED
    BY <1>2, <1>5, <1>6, <2>2, <2>3 DEF Typed, TypeOK, Found, States
<1>8. Called /\ Locked /\ Owned /\ \A t \in Threads : Works(t)
  BY <1>1, <1>6 DEF Called, Locked, Owned, Works, Excl, Victim, Shared
<1>9. Names
  BY <1>4, <1>6 DEF Names, Named, Cached, Found, Told
<1> QED
  BY <1>7, <1>8, <1>9 DEF IInv

LEMMA NextIInv ==
  ASSUME IInv, [Next]_vars
  PROVE  IInv'
<1>1. CASE UNCHANGED vars
  BY <1>1 DEF vars, shared, history, locals, IInv, Typed, TypeOK, Called, Locked, Owned, Names, Named,
     Works, Excl, Victim, Shared, Parent, Cached, Found, Told
<1>2. ASSUME NEW t \in Threads, Step(t)
      PROVE  IInv'
  <2>1. \A u \in Threads : Works(u)'
    BY <1>2, WorksOfOthers, OwnWork DEF IInv
  <2> QED
    BY <1>2, <2>1, NextTyped, NextCalled, NextLocked, NextNames DEF IInv
<1> QED
  BY <1>1, <1>2 DEF Next, Step

\* The invariant above holds of every tree, whatever calls come.
THEOREM Invariance == Spec => []IInv
BY InitIInv, NextIInv, PTL DEF Spec

\* No name gets a second dentry but by an unlocked lookup, of rename, or by a
\* lookup that has a '/' behind the name and so misses the first.
THEOREM NamesHaveOneDentry == Spec => []OneDentryPerName
<1>1. IInv => OneDentryPerName
  BY DEF IInv, Names, Named, OneDentryPerName
<1> QED
  BY <1>1, Invariance, PTL

\* What the newest dentry of a name says of it is true, but of a removed
\* directory.
THEOREM CacheIsRight == Spec => []CacheMatchesDisk
<1>1. IInv => CacheMatchesDisk
  BY DEF IInv, Names, Named, Told, CacheMatchesDisk
<1> QED
  BY <1>1, Invariance, PTL

\* When a create acts its name is free, in a removed directory too, and when
\* rmdir acts its directory is there and nobody works in it.
THEOREM DecisionsAreGood == Spec => []DecisionsHold
<1>1. IInv => DecisionsHold
  <2> SUFFICES ASSUME IInv, NEW t \in Threads, at[t] \notin unlocked
               PROVE  /\ pc[t] = "create" => Kind(t) = "negative" /\ disk[at[t]] = "none"
                      /\ pc[t] = "rmdir" /\ at[t] \notin dead =>
                           disk[at[t]] = "dir" /\ readers[at[t]] = {}
    BY DEF DecisionsHold
  <2>1. Works(t) /\ Typed /\ Called
    BY DEF IInv
  <2>2. CASE pc[t] = "create"
    <3>1. dent[t] = Found(at[t]) /\ dent[t] >= 1 /\ dent[t] \in Nat
      BY <2>1, <2>2, Creating DEF Works, Typed
    <3> QED
      BY <2>1, <2>2, <3>1 DEF Works, Kind, Cached
  <2>3. CASE pc[t] = "rmdir"
    <3>1. owner[at[t]] = t /\ t # NoThread /\ at[t] \in Dirs
      BY <2>1, <2>3, Numbers, DirAssumption DEF IInv, Locked, Victim, Typed, TypeOK
    <3>2. readers[at[t]] = {}
      BY <2>1, <3>1 DEF Typed, TypeOK
    <3> QED
      BY <2>1, <2>3, <3>2 DEF Works
  <2> QED
    BY <2>2, <2>3
<1> QED
  BY <1>1, Invariance, PTL

\* Every lock of a directory is some running call's, or was left behind by a
\* mkdir or symlink.
THEOREM LocksAreAccounted == Spec => []LocksAreUsedOrLeft
<1>1. IInv => LocksAreUsedOrLeft
  BY DEF IInv, Typed, Owned, LocksAreUsedOrLeft, Excl, Victim, Shared
<1> QED
  BY <1>1, Invariance, PTL

\* A call that cannot go on until it gets the lock of directory d.
Waits(t, d) ==
  \/ pc[t] \in {"lock", "lock_shared"} /\ d = Parent(t)
  \/ pc[t] = "lock_victim" /\ d = at[t]

\* What a running call has of directory d.
Uses(t, d) == (owner[d] = t /\ d \notin left) \/ t \in readers[d]

LocksGoDown ==
  \A t \in Threads, d, e \in Dirs : Uses(t, d) /\ Waits(t, e) => d < e

\* A call that waits for a lock has none of that directory or of one below,
\* so no calls wait for each other in a circle: only a lock left behind by a
\* mkdir or symlink can be waited for in vain.
THEOREM NoCircleOfWaiting == Spec => []LocksGoDown
<1>1. IInv => LocksGoDown
  <2> SUFFICES ASSUME IInv, NEW t \in Threads, NEW d \in Dirs, NEW e \in Dirs,
                      Uses(t, d), Waits(t, e)
               PROVE  d < e
    BY DEF LocksGoDown
  <2>1. at[t] \in Nat
    BY Numbers DEF IInv, Typed, TypeOK
  <2>2. (Excl(t) /\ d = Parent(t)) \/ (Victim(t) /\ d = at[t]) \/ Shared(t)
    BY DEF Uses, IInv, Owned
  <2>3. pc[t] = "lock_victim" /\ e = at[t] /\ d = at[t] - 1
    BY <2>2 DEF Waits, Excl, Victim, Shared, Parent
  <2> QED
    BY <2>1, <2>3
<1> QED
  BY <1>1, Invariance, PTL

\* A removed directory gets no dentry but by rename's unlocked lookup, and what
\* is created in it is created by mknod, mkdir or symlink, on a dentry it had.
THEOREM DeadDirsAreLeftAlone == Spec => DeadDirsGetNoDentries
<1> DEFINE LeftAlone(k) ==
      k - 1 \in dead =>
        /\ k \notin unlocked' => Len(hashed'[k]) = Len(hashed[k])
        /\ disk[k] = "none" /\ disk'[k] # "none" =>
             \E t \in Threads : pc'[t] # pc[t] /\ op[t] \in Creators /\ dent[t] # 0
<1>1. ASSUME IInv, [Next]_vars
      PROVE  [\A k \in Entries : LeftAlone(k)]_vars
  <2>1. CASE UNCHANGED vars
    BY <2>1
  <2>2. ASSUME NEW t \in Threads, Step(t), NEW k \in Entries, k - 1 \in dead
        PROVE  LeftAlone(k)
    <3>1. Typed /\ Works(t) /\ pc \in [Threads -> Pcs] /\ Len(hashed[k]) \in Nat
      BY <1>1 DEF IInv, Typed, TypeOK
    <3>2. CASE ~Touches(t) \/ k # at[t]
      BY <2>2, <3>1, <3>2, Untouched, Touched
    <3>3. CASE excl_lookup_disk(t) /\ k = at[t]
      <4>1. UNCHANGED disk /\ pc[t] = "lookup"
        BY <3>3 DEF excl_lookup_disk, Go
      <4>2. owner[Parent(t)] # t => k \in unlocked'
        BY <3>3 DEF excl_lookup_disk
      <4>3. owner[Parent(t)] # t
        BY <2>2, <3>1, <3>3, <4>1 DEF Works, Parent
      <4> QED
        BY <4>1, <4>2, <4>3
    <3>4. CASE (mknod(t) \/ mkdir(t)) /\ k = at[t]
      <4>1. pc[t] = "create" /\ pc'[t] # pc[t] /\ op[t] \in Creators /\ dent[t] # 0
        BY <3>1, <3>4 DEF mknod, mkdir, Go, Return, Creators, Works, Typed
      <4>2. PICK kind \in Kinds : fs_create(k, dent[t], kind)
        BY <3>4 DEF mknod, mkdir, Kinds
      <4>3. Len(hashed'[k]) = Len(hashed[k])
        BY <3>1, <3>4, <4>2, Creates DEF Typed, TypeOK
      <4> QED
        BY <4>1, <4>3
    <3>5. CASE rmdir(t) /\ k = at[t]
      <4>1. disk' = disk \/ disk' = [disk EXCEPT ![k] = "none"]
        BY <3>5 DEF rmdir, fs_rmdir
      <4>2. hashed' = hashed
        BY <3>5 DEF rmdir
      <4> QED
        BY <2>2, <3>1, <4>1, <4>2 DEF Typed, TypeOK
    <3>6. CASE creat(t) /\ k = at[t]
      BY <2>2, <3>1, <3>6 DEF creat, Go, Works, Parent
    <3> QED
      BY <3>2, <3>3, <3>4, <3>5, <3>6 DEF Touches
  <2> QED
    BY <1>1, <2>1, <2>2 DEF Next, Step
<1> QED
  BY <1>1, Invariance, PTL DEF Spec, DeadDirsGetNoDentries

=============================================================================
