---------------------------- MODULE DirReadProofs ----------------------------
(***************************************************************************)
(* Proofs about getdents, for any number of threads and calls, any bound   *)
(* on the offsets, any sizes of records and buffers, and with or without   *)
(* faults.                                                                 *)
(***************************************************************************)
EXTENDS DirRead, SequenceTheorems, TLAPS

-----------------------------------------------------------------------------
(* The inductive invariant, in named parts. *)

Reading(t) == pc[t] \in {"start", "emit", "store", "unlock"}
Changing(t) == pc[t] \in {"change", "unlock_excl"}
Returning(t) == pc[t] \in {"unlock", "finish"}

\* The rwsem is held by exactly the threads that are between lock and unlock,
\* so that no thread changes the directory while another reads it.
LockIsHeld ==
  /\ \A t \in Threads : t \in readers <=> Reading(t)
  /\ \A t \in Threads : owner = t <=> Changing(t)

\* No position is beyond the offset of the next new name: a name that is
\* added is always ahead of every reader.
NamesComeAhead ==
  /\ f_pos <= next
  /\ \A t \in Threads : from[t] <= next /\ pos[t] <= next

\* Until a call starts to iterate, its buffer is empty.
EmptyBefore ==
  \A t \in Threads : pc[t] \in {"lock", "start"} => dirent[t] = << >> /\ error[t] = "none"

\* What is below p in the directory was returned, lost to an EFAULT, or is in
\* the buffer of a call about to return.
Accounted(p) ==
  \A o \in Listed : o < p =>
    \/ o \in given \cup lost
    \/ \E t \in Threads : Returning(t) /\ o \in Names(t)

\* It holds of f_pos, and stays true of where a call started.
NothingBehind ==
  /\ Accounted(f_pos)
  /\ \A t \in Threads : AtWork(t) => Accounted(from[t])

\* As long as no two calls overlapped, f_pos separates what was returned or
\* is about to be from what the one call at work collects.
Apart ==
  /\ again = {}
  /\ \A t, u \in Threads : AtWork(t) /\ AtWork(u) => t = u
  /\ \A t \in Threads : AtWork(t) => from[t] = f_pos
  /\ \A o \in given : o < f_pos
  /\ \A t \in Threads : Returning(t) =>
       \A o \in Names(t) : o < f_pos /\ o \notin given
  /\ \A t, u \in Threads : Returning(t) /\ Returning(u) /\ t # u =>
       Names(t) \cap Names(u) = {}

OneAtATime == ~disturbed => Apart

-----------------------------------------------------------------------------
(* Facts about the model's operators. *)

\* What is used of the bounds.
LEMMA BoundsOfOffsets ==
  /\ MaxOffset \in Nat /\ MaxOffset > 2 /\ MaxCalls \in Nat
  /\ 0 \in 0 .. MaxOffset
BY ReadAssumption

LEMMA PositionsAreNat ==
  ASSUME TypeOK, NEW t \in Threads
  PROVE  from[t] \in Nat /\ pos[t] \in Nat /\ f_pos \in Nat /\ next \in Nat
<1>1. from[t] \in 0 .. MaxOffset /\ pos[t] \in 0 .. MaxOffset
      /\ f_pos \in 0 .. MaxOffset /\ next \in 2 .. MaxOffset
  BY DEF TypeOK
<1>2. QED
  BY <1>1, BoundsOfOffsets

LEMMA NoThreadIsNone == NoThread \notin Threads
BY ReadAssumption

Records == [name : Offsets, d_off : Offsets]

\* A name in the directory is an offset below the next new one.
LEMMA ListedBelowNext ==
  ASSUME TypeOK, NEW o \in Listed
  PROVE  o \in Offsets /\ o \in Nat /\ o < next
BY ReadAssumption DEF TypeOK, Listed, Dots, Offsets

\* The names in a buffer are the names of its records.
LEMMA NamesInBuffer ==
  ASSUME TypeOK, NEW t \in Threads
  PROVE  /\ Len(dirent[t]) \in Nat
         /\ DOMAIN dirent[t] = 1 .. Len(dirent[t])
         /\ \A i \in 1 .. Len(dirent[t]) : dirent[t][i] \in Records
         /\ Names(t) \subseteq Offsets
         /\ dirent[t] = << >> => Names(t) = {}
<1>1. dirent[t] \in Seq(Records)
  BY DEF TypeOK, Records
<1>2. /\ Len(dirent[t]) \in Nat
      /\ DOMAIN dirent[t] = 1 .. Len(dirent[t])
      /\ \A i \in 1 .. Len(dirent[t]) : dirent[t][i] \in Records
  BY <1>1, LenProperties, ElementOfSeq
<1>3. \A i \in DOMAIN dirent[t] : dirent[t][i].name \in Offsets
  BY <1>2 DEF Records
<1>4. dirent[t] = << >> => DOMAIN dirent[t] = {}
  BY <1>2
<1>5. QED
  BY <1>2, <1>3, <1>4 DEF Names

\* Packing a record keeps the names before it, gives the last of them its
\* d_off and adds one name.
LEMMA PackedRecords ==
  ASSUME TypeOK, NEW t \in Threads, NEW o \in Offsets
  PROVE  LET n == Len(dirent[t])
             new == Packed(t, o)
         IN  /\ new \in Seq(Records) /\ Len(new) = n + 1
             /\ \A i \in 1 .. n : /\ new[i].name = dirent[t][i].name
                                  /\ i # n => new[i] = dirent[t][i]
                                  /\ i = n => new[i].d_off = o
             /\ new[n + 1] = [name |-> o, d_off |-> o]
<1> DEFINE n == Len(dirent[t])
           new == Packed(t, o)
           old == [i \in 1 .. n |->
                     IF i = n THEN [dirent[t][i] EXCEPT !.d_off = o] ELSE dirent[t][i]]
           last == [name |-> o, d_off |-> o]
<1>1. n \in Nat /\ \A i \in 1 .. n : dirent[t][i] \in Records
  BY NamesInBuffer
<1>2. \A i \in 1 .. n : [dirent[t][i] EXCEPT !.d_off = o] \in Records
  BY <1>1 DEF Records
<1>3. old \in [1 .. n -> Records]
  BY <1>1, <1>2
<1>4. old \in Seq(Records) /\ Len(old) = n
  BY <1>1, <1>3, SeqDef
<1>5. last \in Records
  BY DEF Records
<1>6. new = Append(old, last)
  BY DEF Packed
<1>7. /\ new \in Seq(Records) /\ Len(new) = n + 1
      /\ \A i \in 1 .. n : new[i] = old[i]
      /\ new[n + 1] = last
  BY <1>4, <1>5, <1>6
<1>8. \A i \in 1 .. n : /\ old[i].name = dirent[t][i].name
                        /\ i # n => old[i] = dirent[t][i]
                        /\ i = n => old[i].d_off = o
  BY <1>1 DEF Records
<1>9. QED
  BY <1>7, <1>8

-----------------------------------------------------------------------------
(* Types. *)

LEMMA InitTypeOK == Init => TypeOK
<1> SUFFICES ASSUME Init
             PROVE  TypeOK
  OBVIOUS
<1>1. << >> \in Seq(Records)
  OBVIOUS
<1>2. /\ there \subseteq 2 .. next - 1 /\ next \in 2 .. MaxOffset
      /\ 0 \in 0 .. MaxOffset /\ 0 \in 0 .. MaxCalls
  BY ReadAssumption DEF Init
<1>3. QED
  BY <1>1, <1>2 DEF Init, TypeOK, Records

LEMMA FilldirTypeOK ==
  ASSUME TypeOK, NEW t \in Threads, filldir(t)
  PROVE  TypeOK'
<1>1. PICK o \in Listed \ Bad :
        /\ Go(t, "emit", "emit")
        /\ Reclen[o] <= count[t]
        /\ dirent' = [dirent EXCEPT ![t] = Packed(t, o)]
        /\ count' = [count EXCEPT ![t] = @ - Reclen[o]]
        /\ error' = [error EXCEPT ![t] = "EINVAL"]
        /\ pos' = [pos EXCEPT ![t] = o + 1]
        /\ UNCHANGED <<dir, rwsem, f_pos, from, calls, history>>
  BY DEF filldir
<1>2. o \in Offsets /\ o \in Nat /\ o < next
  BY ListedBelowNext
<1>3. o + 1 \in 0 .. MaxOffset
  BY <1>2, ReadAssumption DEF TypeOK
<1>4. Packed(t, o) \in Seq(Records)
  BY <1>2, PackedRecords
<1>5. count[t] - Reclen[o] \in Nat
  BY <1>1, <1>2, ReadAssumption DEF TypeOK
<1>6. dirent' \in [Threads -> Seq([name : Offsets, d_off : Offsets])]
  BY <1>1, <1>4 DEF TypeOK, Records
<1>7. count' \in [Threads -> Nat] /\ pos' \in [Threads -> 0 .. MaxOffset]
  BY <1>1, <1>3, <1>5 DEF TypeOK
<1>8. QED
  BY <1>1, <1>6, <1>7 DEF TypeOK, Go, dir, rwsem, history

LEMMA StopsTypeOK ==
  ASSUME TypeOK, NEW t \in Threads, filldir_stops(t)
  PROVE  TypeOK'
<1>1. PICK o \in Listed :
        /\ Go(t, "emit", "store")
        /\ \E e \in {"EIO", "EINVAL", "EFAULT"} : error' = [error EXCEPT ![t] = e]
        /\ pos' = [pos EXCEPT ![t] = o]
        /\ UNCHANGED <<dir, rwsem, f_pos, from, count, dirent, calls, history>>
  BY DEF filldir_stops
<1>2. o \in 0 .. MaxOffset
  <2>1. o \in Nat /\ o < next
    BY ListedBelowNext
  <2>2. next \in 2 .. MaxOffset
    BY DEF TypeOK
  <2>3. QED
    BY <2>1, <2>2, BoundsOfOffsets
<1>3. QED
  BY <1>1, <1>2 DEF TypeOK, Go, dir, rwsem, history

LEMMA FinishTypeOK ==
  ASSUME TypeOK, NEW t \in Threads, finish(t)
  PROVE  TypeOK'
<1>1. Names(t) \subseteq Offsets
  BY NamesInBuffer
<1>2. given' \subseteq Offsets /\ again' \subseteq given' /\ lost' \subseteq Offsets
  BY <1>1 DEF finish, TypeOK
<1>3. << >> \in Seq([name : Offsets, d_off : Offsets])
  OBVIOUS
<1>4. QED
  BY <1>2, <1>3, BoundsOfOffsets DEF finish, TypeOK, Go, dir, rwsem

LEMMA ChangeTypeOK ==
  ASSUME TypeOK, NEW t \in Threads, change(t)
  PROVE  TypeOK'
<1>1. /\ there' \subseteq 2 .. next' - 1 /\ next' \in 2 .. MaxOffset
      /\ dead' \in BOOLEAN
  <2>1. next \in 2 .. MaxOffset /\ there \subseteq 2 .. next - 1 /\ dead \in BOOLEAN
    BY DEF TypeOK
  <2>2. CASE next < MaxOffset /\ there' = there \cup {next} /\ next' = next + 1 /\ UNCHANGED dead
    BY <2>1, <2>2, BoundsOfOffsets
  <2>3. CASE there' \subseteq there /\ next' = next /\ dead' \in BOOLEAN
    BY <2>1, <2>3
  <2>4. QED
    BY <2>1, <2>2, <2>3 DEF change
<1>2. QED
  BY <1>1 DEF change, TypeOK, Go, rwsem, buf, history

LEMMA NextTypeOK == TypeOK /\ [Next]_vars => TypeOK'
<1> SUFFICES ASSUME TypeOK, [Next]_vars
             PROVE  TypeOK'
  OBVIOUS
<1> USE DEF dir, rwsem, buf, history
<1>1. ASSUME NEW t \in Threads, getdents(t)
      PROVE  TypeOK'
  <2>1. << >> \in Seq([name : Offsets, d_off : Offsets])
    OBVIOUS
  <2>2. count' \in [Threads -> Nat] /\ calls' \in 0 .. MaxCalls
    BY <1>1, ReadAssumption DEF getdents, TypeOK
  <2>3. QED
    BY <1>1, <2>1, <2>2, BoundsOfOffsets DEF getdents, TypeOK, Go
<1>2. ASSUME NEW t \in Threads, llseek(t)
      PROVE  TypeOK'
  BY <1>2, BoundsOfOffsets DEF llseek, TypeOK
<1>3. ASSUME NEW t \in Threads, lock_excl(t)
      PROVE  TypeOK'
  BY <1>3 DEF lock_excl, TypeOK, Go
<1>4. ASSUME NEW t \in Threads, lock_shared(t) \/ unlock_shared(t) \/ unlock_excl(t)
      PROVE  TypeOK'
  BY <1>4 DEF lock_shared, unlock_shared, unlock_excl, TypeOK, Go
<1>5. ASSUME NEW t \in Threads, lock_killed(t) \/ start_dead(t) \/ iterate_ends(t) \/ iterate_fails(t)
      PROVE  TypeOK'
  BY <1>5 DEF lock_killed, start_dead, iterate_ends, iterate_fails, TypeOK, Go
<1>6. ASSUME NEW t \in Threads, start(t)
      PROVE  TypeOK'
  <2>1. disturbed' \in BOOLEAN
    BY <1>6 DEF start
  <2>2. QED
    BY <1>6, <2>1 DEF start, TypeOK, Go
<1>7. ASSUME NEW t \in Threads, store_pos(t)
      PROVE  TypeOK'
  BY <1>7 DEF store_pos, TypeOK, Go
<1>8. CASE UNCHANGED vars
  BY <1>8 DEF vars, TypeOK
<1>9. QED
  BY <1>1, <1>2, <1>3, <1>4, <1>5, <1>6, <1>7, <1>8, FilldirTypeOK, StopsTypeOK,
     FinishTypeOK, ChangeTypeOK DEF Next, Continue

\* Every variable keeps its type: the room left in a buffer never goes below
\* zero and f_pos never leaves the directory's offsets (filldir's size check).
THEOREM ReadTypeCorrect == Spec => []TypeOK
BY InitTypeOK, NextTypeOK, PTL DEF Spec

-----------------------------------------------------------------------------
(* What a step may do. *)

Step(t) == getdents(t) \/ llseek(t) \/ lock_excl(t) \/ Continue(t)

\* A step of one thread leaves the locals of the others alone.
LEMMA OthersAreStill ==
  ASSUME TypeOK, NEW t \in Threads, Step(t), NEW u \in Threads, u # t
  PROVE  /\ pc'[u] = pc[u] /\ from'[u] = from[u] /\ pos'[u] = pos[u]
         /\ dirent'[u] = dirent[u] /\ error'[u] = error[u]
         /\ Names(u)' = Names(u)
<1> USE DEF Go, buf, history
<1>1. /\ pc'[u] = pc[u] /\ from'[u] = from[u] /\ pos'[u] = pos[u]
      /\ dirent'[u] = dirent[u] /\ error'[u] = error[u]
  <2>1. CASE getdents(t) \/ llseek(t) \/ lock_excl(t)
    BY <2>1 DEF getdents, llseek, lock_excl, TypeOK
  <2>2. CASE lock_shared(t) \/ lock_killed(t) \/ start_dead(t) \/ start(t)
    BY <2>2 DEF lock_shared, lock_killed, start_dead, start, TypeOK
  <2>3. CASE filldir(t)
    BY <2>3 DEF filldir, TypeOK
  <2>4. CASE filldir_stops(t)
    BY <2>4 DEF filldir_stops, TypeOK
  <2>5. CASE iterate_ends(t) \/ iterate_fails(t) \/ store_pos(t) \/ unlock_shared(t)
    BY <2>5 DEF iterate_ends, iterate_fails, store_pos, unlock_shared, TypeOK
  <2>6. CASE finish(t)
    BY <2>6 DEF finish, TypeOK
  <2>7. CASE change(t) \/ unlock_excl(t)
    BY <2>7 DEF change, unlock_excl, TypeOK
  <2>8. QED
    BY <2>1, <2>2, <2>3, <2>4, <2>5, <2>6, <2>7 DEF Step, Continue
<1>2. QED
  BY <1>1 DEF Names

\* Only a thread that holds the lock exclusively changes the directory, and
\* then there is no reader.
LEMMA ReadersKeepDir ==
  ASSUME TypeOK, LockIsHeld, NEW t \in Threads, Step(t),
         NEW u \in Threads, Reading(u)
  PROVE  UNCHANGED dir
<1>1. ~change(t)
  BY NoThreadIsNone DEF change, Go, LockIsHeld, Changing, Reading, TypeOK
<1>2. CASE filldir(t)
  BY <1>2 DEF filldir
<1>3. CASE filldir_stops(t)
  BY <1>3 DEF filldir_stops
<1>4. CASE finish(t)
  BY <1>4 DEF finish
<1>5. CASE getdents(t) \/ llseek(t) \/ lock_excl(t) \/ lock_shared(t) \/ lock_killed(t)
           \/ start_dead(t) \/ start(t)
  BY <1>5 DEF getdents, llseek, lock_excl, lock_shared, lock_killed, start_dead, start
<1>6. CASE iterate_ends(t) \/ iterate_fails(t) \/ store_pos(t) \/ unlock_shared(t)
           \/ unlock_excl(t)
  BY <1>6 DEF iterate_ends, iterate_fails, store_pos, unlock_shared, unlock_excl
<1>7. QED
  BY <1>1, <1>2, <1>3, <1>4, <1>5, <1>6 DEF Step, Continue

-----------------------------------------------------------------------------
(* The lock. *)

LEMMA NextLockIsHeld ==
  ASSUME TypeOK, LockIsHeld, [Next]_vars
  PROVE  LockIsHeld'
<1> USE DEF LockIsHeld, Reading, Changing, Go, rwsem, TypeOK
<1>1. ASSUME NEW t \in Threads,
             getdents(t) \/ llseek(t) \/ lock_killed(t) \/ start_dead(t) \/ start(t)
      PROVE  LockIsHeld'
  BY <1>1 DEF getdents, llseek, lock_killed, start_dead, start
<1>2. ASSUME NEW t \in Threads, lock_shared(t) \/ unlock_shared(t)
      PROVE  LockIsHeld'
  BY <1>2 DEF lock_shared, unlock_shared
<1>3. ASSUME NEW t \in Threads, filldir(t)
      PROVE  LockIsHeld'
  BY <1>3 DEF filldir
<1>4. ASSUME NEW t \in Threads, filldir_stops(t)
      PROVE  LockIsHeld'
  BY <1>4 DEF filldir_stops
<1>5. ASSUME NEW t \in Threads, iterate_ends(t) \/ iterate_fails(t) \/ store_pos(t)
      PROVE  LockIsHeld'
  BY <1>5 DEF iterate_ends, iterate_fails, store_pos
<1>6. ASSUME NEW t \in Threads, finish(t)
      PROVE  LockIsHeld'
  BY <1>6 DEF finish
<1>7. ASSUME NEW t \in Threads, change(t)
      PROVE  LockIsHeld'
  BY <1>7 DEF change
<1>8. ASSUME NEW t \in Threads, unlock_excl(t)
      PROVE  LockIsHeld'
  BY <1>8, NoThreadIsNone DEF unlock_excl
<1>9. ASSUME NEW t \in Threads, lock_excl(t)
      PROVE  LockIsHeld'
  BY <1>9, NoThreadIsNone DEF lock_excl
<1>10. CASE UNCHANGED vars
  BY <1>10 DEF vars
<1>11. QED
  BY <1>1, <1>2, <1>3, <1>4, <1>5, <1>6, <1>7, <1>8, <1>9, <1>10 DEF Next, Continue

LEMMA NextEmptyBefore ==
  ASSUME TypeOK, EmptyBefore, [Next]_vars
  PROVE  EmptyBefore'
<1>1. ASSUME NEW t \in Threads, Step(t), NEW u \in Threads, pc'[u] \in {"lock", "start"}
      PROVE  dirent'[u] = << >> /\ error'[u] = "none"
  <2>1. CASE u # t
    BY <1>1, <2>1, OthersAreStill DEF EmptyBefore
  <2>2. CASE u = t
    <3>1. getdents(t) \/ llseek(t) \/ lock_shared(t)
      BY <1>1, <2>2 DEF Step, Continue, lock_excl, lock_killed, start_dead, start,
           filldir, filldir_stops, iterate_ends, iterate_fails, store_pos,
           unlock_shared, finish, change, unlock_excl, Go, TypeOK
    <3>2. QED
      BY <1>1, <2>2, <3>1
         DEF getdents, llseek, lock_shared, Go, buf, EmptyBefore, TypeOK
  <2>3. QED
    BY <2>1, <2>2
<1>2. CASE UNCHANGED vars
  BY <1>2 DEF vars, buf, EmptyBefore
<1>3. QED
  BY <1>1, <1>2 DEF Next, Step, EmptyBefore

-----------------------------------------------------------------------------
(* The records are a snapshot. *)

\* What ListingIsASnapshot says of one call.
SnapshotOf(t) ==
  /\ ~dead
  /\ Names(t) = {o \in Listed : from[t] <= o /\ o < pos[t]}
  /\ \A i \in 1 .. Len(dirent[t]) - 1 :
       /\ dirent[t][i].name < dirent[t][i + 1].name
       /\ dirent[t][i].d_off = dirent[t][i + 1].name

\* A step that starts a call, packs a record or ends the iteration.
LEMMA StartSnapshot ==
  ASSUME TypeOK, EmptyBefore, NEW t \in Threads, start(t)
  PROVE  SnapshotOf(t)'
<1>1. dirent[t] = << >> /\ dirent'[t] = << >> /\ ~dead'
  BY DEF start, EmptyBefore, Go, dir
<1>2. Names(t)' = {} /\ Len(dirent'[t]) = 0
  BY <1>1 DEF Names
<1>3. from'[t] = f_pos /\ pos'[t] = f_pos /\ f_pos \in Nat
  BY BoundsOfOffsets DEF start, TypeOK
<1>4. \A o \in Listed' : o \in Nat
  BY ListedBelowNext DEF start, dir, Listed
<1>5. QED
  BY <1>1, <1>2, <1>3, <1>4 DEF SnapshotOf

LEMMA FilldirSnapshot ==
  ASSUME TypeOK, NEW t \in Threads, AtWork(t) => SnapshotOf(t) /\ from[t] <= pos[t],
         filldir(t)
  PROVE  SnapshotOf(t)'
<1>1. PICK o \in Listed \ Bad :
        /\ Coming(t, o)
        /\ Go(t, "emit", "emit")
        /\ dirent' = [dirent EXCEPT ![t] = Packed(t, o)]
        /\ pos' = [pos EXCEPT ![t] = o + 1]
        /\ UNCHANGED <<dir, from>>
  BY DEF filldir
<1>2. SnapshotOf(t) /\ from[t] <= pos[t]
  BY <1>1 DEF AtWork, Go
<1> DEFINE n == Len(dirent[t])
<1>3. o \in Offsets /\ \A p \in Listed : p \in Nat
  BY ListedBelowNext
<1>4. /\ from[t] \in Nat /\ pos[t] \in Nat
      /\ dirent'[t] = Packed(t, o) /\ pos'[t] = o + 1
      /\ from'[t] = from[t] /\ dead' = dead /\ Listed' = Listed
  BY <1>1, BoundsOfOffsets DEF TypeOK, dir, Listed
<1>5. /\ n \in Nat /\ DOMAIN dirent[t] = 1 .. n
      /\ \A i \in 1 .. n : dirent[t][i].name \in Names(t)
  BY NamesInBuffer DEF Names
<1>6. /\ DOMAIN dirent'[t] = 1 .. n + 1
      /\ Len(dirent'[t]) = n + 1
      /\ \A i \in 1 .. n : /\ dirent'[t][i].name = dirent[t][i].name
                           /\ i # n => dirent'[t][i] = dirent[t][i]
                           /\ i = n => dirent'[t][i].d_off = o
      /\ dirent'[t][n + 1].name = o
  <2>1. /\ Packed(t, o) \in Seq(Records) /\ Len(Packed(t, o)) = n + 1
        /\ \A i \in 1 .. n : /\ Packed(t, o)[i].name = dirent[t][i].name
                             /\ i # n => Packed(t, o)[i] = dirent[t][i]
                             /\ i = n => Packed(t, o)[i].d_off = o
        /\ Packed(t, o)[n + 1] = [name |-> o, d_off |-> o]
    BY <1>3, PackedRecords
  <2>2. DOMAIN Packed(t, o) = 1 .. n + 1
    BY <2>1, LenProperties
  <2>3. dirent'[t] = Packed(t, o)
    BY <1>4
  <2>4. /\ DOMAIN dirent'[t] = 1 .. n + 1
        /\ Len(dirent'[t]) = n + 1
        /\ dirent'[t][n + 1].name = o
    BY <2>1, <2>2, <2>3
  <2>5. \A i \in 1 .. n : /\ dirent'[t][i].name = dirent[t][i].name
                          /\ i # n => dirent'[t][i] = dirent[t][i]
                          /\ i = n => dirent'[t][i].d_off = o
    BY <2>1, <2>3, Zenon
  <2>6. QED
    BY <2>4, <2>5
<1>7. Names(t)' = Names(t) \cup {o}
  <2>1. Names(t)' = {dirent'[t][i].name : i \in 1 .. n + 1}
    BY <1>6 DEF Names
  <2>2. 1 .. n + 1 = (1 .. n) \cup {n + 1}
    BY <1>5
  <2>3. Names(t) = {dirent[t][i].name : i \in 1 .. n}
    BY <1>5 DEF Names
  <2>4. {dirent'[t][i].name : i \in 1 .. n} = {dirent[t][i].name : i \in 1 .. n}
    BY <1>6
  <2>5. {dirent'[t][i].name : i \in (1 .. n) \cup {n + 1}}
          = {dirent'[t][i].name : i \in 1 .. n} \cup {dirent'[t][n + 1].name}
    BY Zenon
  <2>6. QED
    BY <2>1, <2>2, <2>3, <2>4, <2>5, <1>6
<1>8. Names(t)' = {p \in Listed : from[t] <= p /\ p < o + 1}
  <2>1. Names(t) = {p \in Listed : from[t] <= p /\ p < pos[t]}
    BY <1>2 DEF SnapshotOf
  <2>2. o >= pos[t] /\ \A p \in Listed : p < o => p < pos[t]
    BY <1>1 DEF Coming
  <2>3. \A p \in Listed : p < o + 1 <=> p = o \/ p < pos[t]
    BY <2>2, <1>3, <1>4
  <2>4. from[t] <= o
    BY <2>2, <1>2, <1>3, <1>4
  <2>5. QED
    BY <1>7, <2>1, <2>3, <2>4
<1>9. ASSUME NEW i \in 1 .. n
      PROVE  /\ dirent'[t][i].name < dirent'[t][i + 1].name
             /\ dirent'[t][i].d_off = dirent'[t][i + 1].name
  <2>1. CASE i = n
    <3>1. dirent[t][n].name < pos[t] /\ pos[t] <= o
      BY <1>1, <1>2, <1>5, <2>1 DEF SnapshotOf, Coming
    <3>2. dirent[t][n].name \in Nat /\ o \in Nat
      BY <1>3, <1>2, <1>5, <2>1 DEF SnapshotOf
    <3>3. dirent[t][n].name < o
      BY <3>1, <3>2, <1>4
    <3>4. QED
      BY <3>3, <1>6, <2>1
  <2>2. CASE i # n
    <3>1. i \in 1 .. n - 1 /\ i + 1 \in 1 .. n
      BY <2>2, <1>5
    <3>2. /\ dirent[t][i].name < dirent[t][i + 1].name
          /\ dirent[t][i].d_off = dirent[t][i + 1].name
      BY <3>1, <1>2 DEF SnapshotOf
    <3>3. QED
      BY <3>1, <3>2, <2>2, <1>6
  <2>3. QED
    BY <2>1, <2>2
<1>10. Len(dirent'[t]) - 1 = n
  BY <1>5, <1>6
<1>11. QED
  BY <1>2, <1>4, <1>8, <1>9, <1>10 DEF SnapshotOf

\* filldir gave up at a name, or the names ended, and the records stay.
LEMMA StopsSnapshot ==
  ASSUME TypeOK, NEW t \in Threads, AtWork(t) => SnapshotOf(t) /\ from[t] <= pos[t],
         filldir_stops(t) \/ iterate_ends(t) \/ iterate_fails(t)
  PROVE  SnapshotOf(t)' /\ from'[t] <= pos'[t]
<1>1. SnapshotOf(t) /\ from[t] <= pos[t]
  BY DEF filldir_stops, iterate_ends, iterate_fails, AtWork, Go
<1>2. dirent'[t] = dirent[t] /\ UNCHANGED dir /\ from'[t] = from[t]
  BY DEF filldir_stops, iterate_ends, iterate_fails, buf
<1>3. Names(t)' = Names(t) /\ Listed' = Listed
  BY <1>2 DEF Names, Listed, dir
<1>4. CASE pos'[t] = pos[t]
  BY <1>1, <1>2, <1>3, <1>4 DEF SnapshotOf, dir
<1>5. ASSUME NEW o \in Listed, Coming(t, o), pos'[t] = o
      PROVE  SnapshotOf(t)' /\ from'[t] <= pos'[t]
  <2>1. o >= pos[t] /\ \A p \in Listed : p < o => p < pos[t]
    BY <1>5 DEF Coming
  <2>2. o \in Nat /\ from[t] \in Nat /\ pos[t] \in Nat /\ \A p \in Listed : p \in Nat
    BY ListedBelowNext, PositionsAreNat
  <2>3. \A p \in Listed : p < o <=> p < pos[t]
    BY <2>1, <2>2
  <2>4. from[t] <= o
    BY <2>1, <2>2, <1>1
  <2>5. QED
    BY <1>1, <1>2, <1>3, <1>5, <2>3, <2>4 DEF SnapshotOf, dir
<1>6. \/ pos'[t] = pos[t]
      \/ \E o \in Listed : Coming(t, o) /\ pos'[t] = o
  BY DEF filldir_stops, iterate_ends, iterate_fails, buf, TypeOK
<1>7. QED
  BY <1>4, <1>5, <1>6

\* A call at work starts where f_pos is, never before it.
StartsBefore == \A t \in Threads : AtWork(t) => from[t] <= pos[t]

LEMMA NextSnapshot ==
  ASSUME TypeOK, LockIsHeld, EmptyBefore, ListingIsASnapshot, StartsBefore, [Next]_vars
  PROVE  ListingIsASnapshot' /\ StartsBefore'
<1>1. \A t \in Threads : AtWork(t) => SnapshotOf(t) /\ from[t] <= pos[t]
  BY DEF ListingIsASnapshot, SnapshotOf, StartsBefore
<1>2. ASSUME NEW t \in Threads, Step(t), NEW u \in Threads, AtWork(u)'
      PROVE  SnapshotOf(u)' /\ from'[u] <= pos'[u]
  <2>1. CASE u # t
    <3>1. /\ pc'[u] = pc[u] /\ from'[u] = from[u] /\ pos'[u] = pos[u]
          /\ dirent'[u] = dirent[u] /\ Names(u)' = Names(u)
      BY <1>2, <2>1, OthersAreStill
    <3>2. AtWork(u) /\ Reading(u)
      BY <1>2, <3>1 DEF AtWork, Reading
    <3>3. UNCHANGED dir
      BY <1>2, <3>2, ReadersKeepDir
    <3>4. QED
      BY <1>1, <3>1, <3>2, <3>3 DEF SnapshotOf, dir, Listed
  <2>2. CASE u = t
    <3>1. \/ start(t) \/ filldir(t) \/ filldir_stops(t) \/ iterate_ends(t)
          \/ iterate_fails(t) \/ llseek(t)
      BY <1>2, <2>2 DEF Step, Continue, AtWork, getdents, lock_excl, lock_shared,
           lock_killed, start_dead, store_pos, unlock_shared, finish, change,
           unlock_excl, Go, TypeOK
    <3>2. ~llseek(t)
      BY <1>2, <2>2 DEF llseek, AtWork
    <3>3. CASE start(t)
      <4>1. from'[t] <= pos'[t]
        BY <3>3, BoundsOfOffsets DEF start, TypeOK
      <4>2. QED
        BY <2>2, <3>3, <4>1, StartSnapshot
    <3>4. CASE filldir(t)
      <4>1. from'[t] <= pos'[t]
        <5>1. PICK o \in Listed : /\ Coming(t, o) /\ Go(t, "emit", "emit")
                                  /\ pos' = [pos EXCEPT ![t] = o + 1] /\ from' = from
          BY <3>4 DEF filldir
        <5>2. o \in Nat /\ from[t] \in Nat /\ pos[t] \in Nat
          BY ListedBelowNext, PositionsAreNat
        <5>3. from[t] <= pos[t] /\ pos[t] <= o
          BY <1>1, <5>1 DEF Coming, AtWork, Go
        <5>4. pos'[t] = o + 1 /\ from'[t] = from[t]
          BY <5>1 DEF TypeOK
        <5>5. QED
          BY <5>2, <5>3, <5>4
      <4>2. QED
        BY <1>1, <2>2, <3>4, <4>1, FilldirSnapshot
    <3>5. CASE filldir_stops(t) \/ iterate_ends(t) \/ iterate_fails(t)
      BY <1>1, <2>2, <3>5, StopsSnapshot
    <3>6. QED
      BY <3>1, <3>2, <3>3, <3>4, <3>5
  <2>3. QED
    BY <2>1, <2>2
<1>3. CASE UNCHANGED vars
  BY <1>1, <1>3 DEF vars, dir, buf, SnapshotOf, ListingIsASnapshot, StartsBefore,
       AtWork, Names, Listed
<1>4. CASE Next
  BY <1>2, <1>4 DEF Next, Step, SnapshotOf, ListingIsASnapshot, StartsBefore
<1>5. QED
  BY <1>3, <1>4

Snapshot == TypeOK /\ LockIsHeld /\ EmptyBefore /\ ListingIsASnapshot /\ StartsBefore

LEMMA InitSnapshot == Init => Snapshot
<1>1. Init => LockIsHeld
  BY NoThreadIsNone DEF Init, LockIsHeld, Reading, Changing
<1>2. Init => EmptyBefore /\ ListingIsASnapshot /\ StartsBefore
  BY DEF Init, EmptyBefore, ListingIsASnapshot, StartsBefore, AtWork
<1>3. QED
  BY <1>1, <1>2, InitTypeOK DEF Snapshot

LEMMA NextKeepsSnapshot == Snapshot /\ [Next]_vars => Snapshot'
BY NextTypeOK, NextLockIsHeld, NextEmptyBefore, NextSnapshot DEF Snapshot

\* However names come and go before and after, the records of a call are
\* exactly the names of a directory that is alive, from where it started up
\* to ctx->pos, in order: iterate_dir keeps i_rwsem shared from the check of
\* S_DEAD to the store of f_pos, and every writer takes it exclusively.
THEOREM ListingsAreSnapshots == Spec => []ListingIsASnapshot
<1>1. Spec => []Snapshot
  BY InitSnapshot, NextKeepsSnapshot, PTL DEF Spec
<1>2. Snapshot => ListingIsASnapshot
  BY DEF Snapshot
<1>3. QED
  BY <1>1, <1>2, PTL

-----------------------------------------------------------------------------
(* The end of the directory. *)

LEMMA NextEndIsTheEnd ==
  ASSUME TypeOK, LockIsHeld, EndIsTheEnd, [Next]_vars
  PROVE  EndIsTheEnd'
<1>1. ASSUME NEW t \in Threads, Step(t), NEW u \in Threads,
             pc'[u] = "store", dirent'[u] = << >>, error'[u] = "none"
      PROVE  \A o \in Listed' : o < pos'[u]
  <2>1. CASE u # t
    <3>1. pc[u] = "store" /\ dirent[u] = << >> /\ error[u] = "none" /\ pos'[u] = pos[u]
      BY <1>1, <2>1, OthersAreStill
    <3>2. Listed' = Listed
      BY <1>1, <3>1, ReadersKeepDir DEF Reading, dir, Listed
    <3>3. QED
      BY <3>1, <3>2 DEF EndIsTheEnd
  <2>2. CASE u = t
    <3>1. filldir_stops(t) \/ iterate_ends(t) \/ iterate_fails(t)
      BY <1>1, <2>2 DEF Step, Continue, getdents, llseek, lock_excl, lock_shared,
           lock_killed, start_dead, start, filldir, store_pos, unlock_shared, finish,
           change, unlock_excl, Go, TypeOK
    <3>2. ~filldir_stops(t)
      BY <1>1, <2>2 DEF filldir_stops, TypeOK
    <3>3. ~iterate_fails(t)
      BY <1>1, <2>2 DEF iterate_fails, TypeOK
    <3>4. QED
      BY <2>2, <3>1, <3>2, <3>3 DEF iterate_ends, buf, dir, Listed
  <2>3. QED
    BY <2>1, <2>2
<1>2. CASE UNCHANGED vars
  BY <1>2 DEF vars, buf, dir, EndIsTheEnd, Listed
<1>3. QED
  BY <1>1, <1>2 DEF Next, Step, EndIsTheEnd

\* A call that finds no error and no record has seen the whole directory,
\* which cannot have grown behind it.
THEOREM EndsAreReal == Spec => []EndIsTheEnd
<1>1. Init => Snapshot /\ EndIsTheEnd
  <2>1. Init => EndIsTheEnd
    BY DEF Init, EndIsTheEnd
  <2>2. QED
    BY <2>1, InitSnapshot
<1>2. Snapshot /\ EndIsTheEnd /\ [Next]_vars => Snapshot' /\ EndIsTheEnd'
  BY NextKeepsSnapshot, NextEndIsTheEnd DEF Snapshot
<1>3. QED
  BY <1>1, <1>2, PTL DEF Spec

-----------------------------------------------------------------------------
(* Nothing is skipped. *)

LEMMA NextNamesComeAhead ==
  ASSUME TypeOK, NamesComeAhead, [Next]_vars
  PROVE  NamesComeAhead'
<1>1. ASSUME NEW t \in Threads, Step(t)
      PROVE  /\ next <= next' /\ next' \in Nat
             /\ f_pos' \in {f_pos, 0, pos[t]}
             /\ from'[t] \in {from[t], 0, f_pos}
             /\ pos'[t] \in {pos[t], 0, f_pos}
                \/ \E o \in Listed : pos'[t] = o \/ pos'[t] = o + 1
  <2> USE DEF dir, buf
  <2>1. next \in Nat /\ (next' = next \/ next' = next + 1)
    BY <1>1, PositionsAreNat
       DEF Step, Continue, getdents, llseek, lock_excl, lock_shared, lock_killed,
         start_dead, start, filldir, filldir_stops, iterate_ends, iterate_fails,
         store_pos, unlock_shared, finish, change, unlock_excl
  <2>2. f_pos' \in {f_pos, 0, pos[t]}
    BY <1>1
       DEF Step, Continue, getdents, llseek, lock_excl, lock_shared, lock_killed,
         start_dead, start, filldir, filldir_stops, iterate_ends, iterate_fails,
         store_pos, unlock_shared, finish, change, unlock_excl
  <2>3. from'[t] \in {from[t], 0, f_pos}
    BY <1>1
       DEF Step, Continue, getdents, llseek, lock_excl, lock_shared, lock_killed,
         start_dead, start, filldir, filldir_stops, iterate_ends, iterate_fails,
         store_pos, unlock_shared, finish, change, unlock_excl, TypeOK
  <2>4. pos'[t] \in {pos[t], 0, f_pos}
        \/ \E o \in Listed : pos'[t] = o \/ pos'[t] = o + 1
    BY <1>1
       DEF Step, Continue, getdents, llseek, lock_excl, lock_shared, lock_killed,
         start_dead, start, filldir, filldir_stops, iterate_ends, iterate_fails,
         store_pos, unlock_shared, finish, change, unlock_excl, TypeOK
  <2>5. QED
    BY <2>1, <2>2, <2>3, <2>4
<1>2. ASSUME NEW t \in Threads, Step(t), NEW u \in Threads
      PROVE  f_pos' <= next' /\ from'[u] <= next' /\ pos'[u] <= next'
  <2>1. /\ f_pos \in Nat /\ from[t] \in Nat /\ pos[t] \in Nat /\ from[u] \in Nat
        /\ pos[u] \in Nat /\ next \in Nat
    BY PositionsAreNat
  <2>2. \A o \in Listed : o \in Nat /\ o < next
    BY ListedBelowNext
  <2>3. /\ f_pos <= next /\ from[t] <= next /\ pos[t] <= next
        /\ from[u] <= next /\ pos[u] <= next
    BY DEF NamesComeAhead
  <2>4. CASE u = t
    BY <1>1, <1>2, <2>1, <2>2, <2>3, <2>4
  <2>5. CASE u # t
    BY <1>1, <1>2, <2>1, <2>3, <2>5, OthersAreStill
  <2>6. QED
    BY <2>4, <2>5
<1>3. ASSUME NEW t \in Threads, Step(t)
      PROVE  NamesComeAhead'
  BY <1>2, <1>3 DEF NamesComeAhead
<1>4. CASE UNCHANGED vars
  BY <1>4 DEF vars, buf, dir, NamesComeAhead
<1>5. QED
  BY <1>3, <1>4 DEF Next, Step

\* What is accounted for below a position stays so, whatever step is taken.
LEMMA AccountedStays ==
  ASSUME TypeOK, NEW t \in Threads, Step(t), NEW p \in Nat, p <= next, Accounted(p),
         NEW o \in Listed', o < p
  PROVE  \/ o \in given' \cup lost'
         \/ \E u \in Threads : Returning(u)' /\ o \in Names(u)'
<1>1. o \in Listed
  <2>1. next \in Nat
    BY PositionsAreNat
  <2>2. there' \subseteq there \cup {next}
    BY <2>1
       DEF Step, Continue, getdents, llseek, lock_excl, lock_shared, lock_killed,
         start_dead, start, filldir, filldir_stops, iterate_ends, iterate_fails,
         store_pos, unlock_shared, finish, change, unlock_excl, dir
  <2>3. o # next
    BY <2>1
  <2>4. QED
    BY <2>2, <2>3 DEF Listed
<1>2. given \subseteq given' /\ lost \subseteq lost'
  <2>1. CASE finish(t)
    BY <2>1 DEF finish
  <2>2. CASE ~finish(t)
    BY <2>2
       DEF Step, Continue, getdents, llseek, lock_excl, lock_shared, lock_killed,
         start_dead, start, filldir, filldir_stops, iterate_ends, iterate_fails,
         store_pos, unlock_shared, change, unlock_excl, history
  <2>3. QED
    BY <2>1, <2>2
<1>3. CASE o \in given \cup lost
  BY <1>2, <1>3
<1>4. ASSUME NEW u \in Threads, Returning(u), o \in Names(u)
      PROVE  \/ o \in given' \cup lost'
             \/ Returning(u)' /\ o \in Names(u)'
  <2>1. CASE u # t
    <3>1. pc'[u] = pc[u] /\ Names(u)' = Names(u)
      BY <2>1, OthersAreStill
    <3>2. QED
      BY <1>4, <3>1 DEF Returning
  <2>2. CASE u = t
    <3>1. unlock_shared(t) \/ finish(t)
      BY <1>4, <2>2
         DEF Returning, Step, Continue, getdents, llseek, lock_excl, lock_shared,
           lock_killed, start_dead, start, filldir, filldir_stops, iterate_ends,
           iterate_fails, store_pos, change, unlock_excl, Go
    <3>2. CASE unlock_shared(t)
      BY <1>4, <2>2, <3>2 DEF unlock_shared, Go, Returning, Names, buf, TypeOK
    <3>3. CASE finish(t)
      <4>1. dirent[t] # << >>
        BY <1>4, <2>2, NamesInBuffer
      <4>2. QED
        BY <1>4, <2>2, <3>3, <4>1 DEF finish
    <3>4. QED
      BY <3>1, <3>2, <3>3
  <2>3. QED
    BY <2>1, <2>2
<1>5. QED
  BY <1>1, <1>3, <1>4 DEF Accounted

LEMMA NextNothingBehind ==
  ASSUME Snapshot, NamesComeAhead, NothingBehind, [Next]_vars
  PROVE  NothingBehind'
<1> USE DEF Snapshot
<1>1. ASSUME NEW t \in Threads, Step(t), NEW p \in Nat, p <= next, Accounted(p)
      PROVE  \A o \in Listed' : o < p =>
               \/ o \in given' \cup lost'
               \/ \E u \in Threads : Returning(u)' /\ o \in Names(u)'
  BY <1>1, AccountedStays
<1>2. ASSUME NEW t \in Threads, Step(t)
      PROVE  Accounted(f_pos)'
  <2>1. f_pos \in Nat /\ from[t] \in Nat /\ pos[t] \in Nat
    BY PositionsAreNat
  <2>2. CASE f_pos' = f_pos
    <3>1. f_pos <= next /\ Accounted(f_pos)
      BY DEF NamesComeAhead, NothingBehind
    <3>2. QED
      BY <1>1, <1>2, <2>1, <2>2, <3>1 DEF Accounted
  <2>3. CASE llseek(t)
    <3>1. f_pos' = 0 /\ Listed' = Listed
      BY <2>3 DEF llseek, dir, Listed
    <3>2. \A o \in Listed' : ~(o < 0)
      BY <3>1, ListedBelowNext
    <3>3. QED
      BY <3>1, <3>2 DEF Accounted
  <2>4. CASE store_pos(t)
    <3>1. /\ pc[t] = "store" /\ pc'[t] = "unlock" /\ f_pos' = pos[t]
          /\ UNCHANGED dir /\ Names(t)' = Names(t)
      BY <2>4 DEF store_pos, Go, buf, Names, TypeOK
    <3>2. from[t] <= next /\ Accounted(from[t])
      BY <3>1 DEF NamesComeAhead, NothingBehind, AtWork
    <3>3. Names(t) = {o \in Listed : from[t] <= o /\ o < pos[t]} /\ Listed' = Listed
      BY <3>1 DEF ListingIsASnapshot, AtWork, dir, Listed
    <3>4. \A o \in Listed : o \in Nat
      BY ListedBelowNext
    <3>5. ASSUME NEW o \in Listed', o < pos[t]
          PROVE  \/ o \in given' \cup lost'
                 \/ \E u \in Threads : Returning(u)' /\ o \in Names(u)'
      <4>1. CASE o < from[t]
        BY <1>1, <1>2, <2>1, <3>2, <4>1
      <4>2. CASE from[t] <= o
        BY <3>1, <3>3, <3>5, <4>2 DEF Returning
      <4>3. QED
        BY <2>1, <3>3, <3>4, <4>1, <4>2
    <3>6. QED
      BY <3>1, <3>5 DEF Accounted
  <2>5. f_pos' = f_pos \/ llseek(t) \/ store_pos(t)
    BY <1>2
       DEF Step, Continue, getdents, lock_excl, lock_shared, lock_killed,
         start_dead, start, filldir, filldir_stops, iterate_ends, iterate_fails,
         unlock_shared, finish, change, unlock_excl
  <2>6. QED
    BY <2>2, <2>3, <2>4, <2>5
<1>3. ASSUME NEW t \in Threads, Step(t), NEW u \in Threads, AtWork(u)'
      PROVE  Accounted(from[u])'
  <2>1. f_pos \in Nat /\ from[u] \in Nat
    BY PositionsAreNat
  <2>2. f_pos <= next /\ from[u] <= next /\ Accounted(f_pos)
    BY DEF NamesComeAhead, NothingBehind
  <2>3. \/ AtWork(u) /\ from'[u] = from[u]
        \/ from'[u] = f_pos
    <3>1. CASE u # t
      BY <1>3, <3>1, OthersAreStill DEF AtWork
    <3>2. CASE u = t
      BY <1>3, <3>2
         DEF AtWork, Step, Continue, getdents, llseek, lock_excl, lock_shared,
           lock_killed, start_dead, start, filldir, filldir_stops, iterate_ends,
           iterate_fails, store_pos, unlock_shared, finish, change, unlock_excl,
           Go, buf, TypeOK
    <3>3. QED
      BY <3>1, <3>2
  <2>4. CASE from'[u] = f_pos
    BY <1>1, <1>3, <2>1, <2>2, <2>4 DEF Accounted
  <2>5. CASE AtWork(u) /\ from'[u] = from[u]
    <3>1. Accounted(from[u])
      BY <2>5 DEF NothingBehind
    <3>2. QED
      BY <1>1, <1>3, <2>1, <2>2, <2>5, <3>1 DEF Accounted
  <2>6. QED
    BY <2>3, <2>4, <2>5
<1>4. CASE UNCHANGED vars
  BY <1>4 DEF vars, dir, buf, history, NothingBehind, Accounted, AtWork, Returning,
       Names, Listed
<1>5. CASE Next
  BY <1>2, <1>3, <1>5 DEF Next, Step, NothingBehind
<1>6. QED
  BY <1>4, <1>5

Complete == Snapshot /\ NamesComeAhead /\ NothingBehind

LEMMA InitComplete == Init => Complete
<1> SUFFICES ASSUME Init
             PROVE  Complete
  OBVIOUS
<1>1. Snapshot
  BY InitSnapshot
<1>2. NamesComeAhead
  BY PositionsAreNat, <1>1 DEF Snapshot, Init, NamesComeAhead
<1>3. f_pos = 0 /\ \A o \in Listed : ~(o < 0)
  BY <1>1, ListedBelowNext DEF Snapshot, Init
<1>4. NothingBehind
  BY <1>3 DEF Init, NothingBehind, Accounted, AtWork
<1>5. QED
  BY <1>1, <1>2, <1>4 DEF Complete

LEMMA NextComplete == Complete /\ [Next]_vars => Complete'
BY NextKeepsSnapshot, NextNamesComeAhead, NextNothingBehind DEF Complete, Snapshot

\* No reader ever misses a name it could see, however many calls share the
\* file: what is behind f_pos was returned, is about to be, or was lost by the
\* one way the code has of losing it, the last d_off of readdir.c:158 failing.
THEOREM NothingIsSkipped == Spec => []NothingSkipped
<1>1. Spec => []Complete
  BY InitComplete, NextComplete, PTL DEF Spec
<1>2. Complete => NothingSkipped
  BY DEF Complete, NothingBehind, Accounted, NothingSkipped, Returning
<1>3. QED
  BY <1>1, <1>2, PTL

-----------------------------------------------------------------------------
(* Nothing is returned twice. *)

LEMMA NextOneAtATime ==
  ASSUME Snapshot, OneAtATime, [Next]_vars
  PROVE  OneAtATime'
<1> SUFFICES ASSUME ~disturbed'
             PROVE  Apart'
  BY DEF OneAtATime
<1> USE DEF Snapshot, AtWork, Returning
<1>1. ASSUME NEW t \in Threads, Step(t)
      PROVE  ~disturbed
  BY <1>1
     DEF Step, Continue, getdents, llseek, lock_excl, lock_shared, lock_killed,
       start_dead, start, filldir, filldir_stops, iterate_ends, iterate_fails,
       store_pos, unlock_shared, finish, change, unlock_excl, history
\* A step that returns no name, moves f_pos nowhere, starts no call and adds no
\* record to a buffer about to be returned.
<1>2. ASSUME NEW t \in Threads, Step(t),
             given' = given, again' = again, f_pos' = f_pos,
             AtWork(t)' => AtWork(t) /\ from'[t] = from[t],
             Returning(t)' => Names(t)' = {} \/ (Returning(t) /\ Names(t)' = Names(t))
      PROVE  Apart'
  <2>1. Apart
    BY <1>1, <1>2 DEF OneAtATime
  <2>2. \A u \in Threads :
          /\ AtWork(u)' => AtWork(u) /\ from'[u] = from[u]
          /\ Returning(u)' =>
               Names(u)' = {} \/ (Returning(u) /\ Names(u)' = Names(u))
    BY <1>2, OthersAreStill
  <2>3. again' = {} /\ \A o \in given' : o < f_pos'
    BY <1>2, <2>1 DEF Apart
  <2>4. /\ \A u, v \in Threads : AtWork(u)' /\ AtWork(v)' => u = v
        /\ \A u \in Threads : AtWork(u)' => from'[u] = f_pos'
    BY <1>2, <2>1, <2>2 DEF Apart
  <2>5. \A u \in Threads : Returning(u)' =>
          \A o \in Names(u)' : o < f_pos' /\ o \notin given'
    BY <1>2, <2>1, <2>2 DEF Apart
  <2>6. \A u, v \in Threads : Returning(u)' /\ Returning(v)' /\ u # v =>
          Names(u)' \cap Names(v)' = {}
    BY <2>1, <2>2 DEF Apart
  <2>7. QED
    BY <2>3, <2>4, <2>5, <2>6 DEF Apart
<1>3. ASSUME NEW t \in Threads,
             getdents(t) \/ lock_excl(t) \/ lock_shared(t) \/ lock_killed(t)
             \/ start_dead(t) \/ iterate_ends(t) \/ iterate_fails(t) \/ unlock_shared(t)
             \/ change(t) \/ unlock_excl(t)
      PROVE  Apart'
  <2>1. Step(t)
    BY <1>3 DEF Step, Continue
  <2>2. given' = given /\ again' = again /\ f_pos' = f_pos
    BY <1>3 DEF getdents, lock_excl, lock_shared, lock_killed, start_dead, iterate_ends,
         iterate_fails, unlock_shared, change, unlock_excl, history
  <2>3. AtWork(t)' => AtWork(t) /\ from'[t] = from[t]
    BY <1>3 DEF getdents, lock_excl, lock_shared, lock_killed, start_dead, iterate_ends,
         iterate_fails, unlock_shared, change, unlock_excl, buf, Go, TypeOK
  <2>4. Returning(t)' => dirent'[t] = << >> \/ (Returning(t) /\ dirent'[t] = dirent[t])
    BY <1>3 DEF getdents, lock_excl, lock_shared, lock_killed, start_dead, iterate_ends,
         iterate_fails, unlock_shared, change, unlock_excl, buf, Go, TypeOK, EmptyBefore
  <2>5. Returning(t)' => Names(t)' = {} \/ (Returning(t) /\ Names(t)' = Names(t))
    BY <2>4 DEF Names
  <2>6. QED
    BY <1>2, <2>1, <2>2, <2>3, <2>5
<1>4. ASSUME NEW t \in Threads, filldir(t) \/ filldir_stops(t)
      PROVE  Apart'
  <2>1. Step(t)
    BY <1>4 DEF Step, Continue
  <2>2. given' = given /\ again' = again /\ f_pos' = f_pos
    BY <1>4 DEF filldir, filldir_stops, history
  <2>3. AtWork(t) /\ ~Returning(t)' /\ from'[t] = from[t]
    BY <1>4 DEF filldir, filldir_stops, Go, TypeOK
  <2>4. QED
    BY <1>2, <2>1, <2>2, <2>3
<1>5. ASSUME NEW t \in Threads, start(t)
      PROVE  Apart'
  <2>1. Step(t)
    BY <1>5 DEF Step, Continue
  <2>2. Apart /\ \A u \in Threads : ~AtWork(u)
    BY <1>1, <1>5, <2>1 DEF OneAtATime, start
  <2>3. /\ given' = given /\ again' = again /\ f_pos' = f_pos
        /\ from'[t] = f_pos /\ pc'[t] = "emit"
    BY <1>5 DEF start, Go, TypeOK
  <2>4. \A u \in Threads : u # t =>
          /\ ~AtWork(u)'
          /\ Returning(u)' => Returning(u)
          /\ Names(u)' = Names(u)
    BY <2>1, <2>2, OthersAreStill
  <2>5. ~Returning(t)'
    BY <2>3
  <2>6. /\ \A u, v \in Threads : AtWork(u)' /\ AtWork(v)' => u = v
        /\ \A u \in Threads : AtWork(u)' => from'[u] = f_pos'
    BY <2>3, <2>4
  <2>7. \A u \in Threads : Returning(u)' => Returning(u) /\ Names(u)' = Names(u)
    BY <2>4, <2>5
  <2>8. QED
    BY <2>2, <2>3, <2>6, <2>7 DEF Apart
<1>6. ASSUME NEW t \in Threads, store_pos(t)
      PROVE  Apart'
  <2>1. Step(t)
    BY <1>6 DEF Step, Continue
  <2>2. Apart
    BY <1>1, <2>1 DEF OneAtATime
  <2>3. /\ pc[t] = "store" /\ pc'[t] = "unlock" /\ f_pos' = pos[t]
        /\ given' = given /\ again' = again /\ Names(t)' = Names(t)
    BY <1>6 DEF store_pos, Go, buf, history, Names, TypeOK
  <2>4. /\ from[t] = f_pos /\ from[t] <= pos[t]
        /\ f_pos \in Nat /\ pos[t] \in Nat
    BY <2>2, <2>3, PositionsAreNat DEF Apart, StartsBefore
  <2>5. \A o \in Names(t) : f_pos <= o /\ o < pos[t]
    BY <2>3, <2>4 DEF ListingIsASnapshot
  <2>6. given \subseteq Nat /\ \A u \in Threads : Names(u) \subseteq Nat
    <3>1. Offsets \subseteq Nat
      BY BoundsOfOffsets DEF Offsets
    <3>2. given \subseteq Offsets /\ \A u \in Threads : Names(u) \subseteq Offsets
      BY NamesInBuffer DEF TypeOK
    <3>3. QED
      BY <3>1, <3>2
  <2>7. \A u \in Threads : u # t =>
          /\ ~AtWork(u)'
          /\ Returning(u)' => Returning(u)
          /\ Names(u)' = Names(u)
    BY <2>1, <2>2, <2>3, OthersAreStill DEF Apart
  <2>8. again' = {} /\ \A o \in given' : o < f_pos'
    BY <2>2, <2>3, <2>4, <2>6 DEF Apart
  <2>9. \A u \in Threads : ~AtWork(u)'
    BY <2>3, <2>7
  <2>10. \A o \in Names(t) : o \notin given
    BY <2>2, <2>4, <2>5, <2>6 DEF Apart
  <2>11. \A u \in Threads : u # t /\ Returning(u)' =>
           /\ \A o \in Names(u)' : o < f_pos /\ o < f_pos' /\ o \notin given'
           /\ Names(u)' \cap Names(t) = {}
    BY <2>2, <2>3, <2>4, <2>5, <2>6, <2>7 DEF Apart
  <2>12. \A u \in Threads : Returning(u)' =>
           \A o \in Names(u)' : o < f_pos' /\ o \notin given'
    BY <2>3, <2>5, <2>10, <2>11
  <2>13. \A u, v \in Threads : Returning(u)' /\ Returning(v)' /\ u # v =>
           Names(u)' \cap Names(v)' = {}
    BY <2>2, <2>3, <2>7, <2>11 DEF Apart
  <2>14. QED
    BY <2>8, <2>9, <2>12, <2>13 DEF Apart
<1>7. ASSUME NEW t \in Threads, finish(t)
      PROVE  Apart'
  <2>1. Step(t)
    BY <1>7 DEF Step, Continue
  <2>2. Apart
    BY <1>1, <2>1 DEF OneAtATime
  <2>3. /\ pc[t] = "finish" /\ pc'[t] = "idle" /\ f_pos' = f_pos
    BY <1>7 DEF finish, Go, TypeOK
  <2>4. /\ given' \subseteq given \cup Names(t)
        /\ again' \subseteq again \cup (given \cap Names(t))
    BY <1>7 DEF finish
  <2>5. \A u \in Threads : u # t =>
          /\ pc'[u] = pc[u] /\ from'[u] = from[u] /\ Names(u)' = Names(u)
    BY <2>1, OthersAreStill
  <2>6. \A o \in Names(t) : o < f_pos /\ o \notin given
    BY <2>2, <2>3 DEF Apart
  <2>7. again' = {} /\ \A o \in given' : o < f_pos'
    BY <2>2, <2>3, <2>4, <2>6 DEF Apart
  <2>8. /\ \A u, v \in Threads : AtWork(u)' /\ AtWork(v)' => u = v
        /\ \A u \in Threads : AtWork(u)' => from'[u] = f_pos'
    BY <2>2, <2>3, <2>5 DEF Apart
  <2>9. \A u \in Threads : Returning(u)' =>
          /\ u # t /\ Returning(u) /\ Names(u)' = Names(u)
    BY <2>3, <2>5
  <2>10. \A u \in Threads : Returning(u)' =>
           \A o \in Names(u)' : o < f_pos' /\ o \notin given'
    BY <2>2, <2>3, <2>4, <2>9 DEF Apart
  <2>11. \A u, v \in Threads : Returning(u)' /\ Returning(v)' /\ u # v =>
           Names(u)' \cap Names(v)' = {}
    BY <2>2, <2>9 DEF Apart
  <2>12. QED
    BY <2>7, <2>8, <2>10, <2>11 DEF Apart
<1>8. ASSUME NEW t \in Threads, llseek(t)
      PROVE  Apart'
  BY <1>8 DEF llseek
<1>9. CASE UNCHANGED vars
  <2>1. Apart
    BY <1>9 DEF vars, history, OneAtATime
  <2>2. \A t \in Threads : Names(t)' = Names(t)
    BY <1>9 DEF vars, buf, Names
  <2>3. QED
    BY <1>9, <2>1, <2>2 DEF vars, buf, history, Apart
<1>10. QED
  BY <1>3, <1>4, <1>5, <1>6, <1>7, <1>8, <1>9 DEF Next, Continue

\* As long as no two calls on the file overlapped and llseek was not called,
\* no name is returned twice.
THEOREM NamesAreGivenOnce == Spec => []GivenOnce
<1>1. Init => Snapshot /\ OneAtATime
  <2>1. Init => OneAtATime
    BY DEF Init, OneAtATime, Apart, AtWork, Returning
  <2>2. QED
    BY <2>1, InitSnapshot
<1>2. Snapshot /\ OneAtATime /\ [Next]_vars => Snapshot' /\ OneAtATime'
  BY NextKeepsSnapshot, NextOneAtATime
<1>3. OneAtATime => GivenOnce
  BY DEF OneAtATime, Apart, GivenOnce
<1>4. QED
  BY <1>1, <1>2, <1>3, PTL DEF Spec
=============================================================================
