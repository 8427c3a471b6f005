---------------------------- MODULE FdTableProofs ----------------------------
(***************************************************************************)
(* Proofs about the descriptor table, for any finite set of threads, any   *)
(* files and any size of the table.                                        *)
(***************************************************************************)
EXTENDS FdTable, FiniteSetTheorems, TLAPS

\* The promises under which the table is meant to work.
PromisesKept == Promises = {"open", "room", "range", "close"}

\* The references one file can have, one of its descriptor (ONEREF is 0) and
\* one of each running call, stay below the sign bit of the counter.
CountsFit == IsFiniteSet(Threads) /\ Cardinality(Threads) <= MAXREF

-----------------------------------------------------------------------------
(* The inductive invariant of the positions, whatever callers promise. *)

\* A call that moves bytes through f with its own copy of f_pos.
Moving(t, f) == file[t] = f /\ pc[t] \in {"pos", "io", "store"}

\* While only one call moves bytes through a file, its copy, f_pos and the
\* bytes agree as far as it has come.
PositionsAgree ==
  \A f \in Files \ overlap :
    /\ \A t, u \in Threads : Moving(t, f) /\ Moving(u, f) => t = u
    /\ \A t \in Threads : Moving(t, f) /\ pc[t] = "io" => pos[t] = f_pos[f]
    /\ \A t \in Threads : Moving(t, f) /\ pc[t] = "store" => pos[t] = moved[f]
    /\ (\A t \in Threads : ~(Moving(t, f) /\ pc[t] = "store")) => f_pos[f] = moved[f]

-----------------------------------------------------------------------------
(* The inductive invariant of the table, in named parts. *)

\* An open that scans will find a free entry, and no other looks for one.
ScanFinds ==
  /\ \A t, u \in Threads :
       pc[t] \in {"scan", "mark"} /\ pc[u] \in {"scan", "mark"} => t = u
  /\ \A t \in Threads : pc[t] = "scan" =>
       \E i \in Fds : fd[t] <= i /\ table[i] = NULL
  /\ \A t \in Threads : pc[t] = "mark" => fd[t] \in Fds /\ table[fd[t]] = NULL

Reserving(t) == pc[t] \in {"alloc", "walk", "install"}

\* A reserved entry has one open that will fill it, unless that open failed.
ReservedOnce ==
  /\ \A t \in Threads : Reserving(t) => fd[t] \in Fds /\ table[fd[t]] = FD_USED
  /\ \A t, u \in Threads : Reserving(t) /\ Reserving(u) /\ fd[t] = fd[u] => t = u
  /\ \A i \in Fds : table[i] = FD_USED =>
       i \in lost \/ \E t \in Threads : Reserving(t) /\ fd[t] = i

\* Until it has cleared the entry, who closes a descriptor is alone in looking
\* at it.
ClosesAlone ==
  /\ \A t \in Threads : pc[t] \in ClosePc \cup XferPc => fd[t] \in Fds
  /\ \A t, u \in Threads :
       Closing(t, fd[t]) /\ (Closing(u, fd[t]) \/ LookingUp(u, fd[t])) => t = u

\* A call has no file until it creates it or finds it in the table.
NoFileYet ==
  \A t \in Threads : file[t] = NULL <=>
    pc[t] \in {"idle", "scan", "mark", "alloc", "close_read", "fget"}

\* A descriptor keeps its file while a call that has found it holds no
\* reference of its own.
EntryStays ==
  \A t \in Threads : pc[t] \in {"close_clear", "fget_inc"} => table[fd[t]] = file[t]

OnlyOneWith(t) == \A u \in Threads : file[u] = file[t] => u = t

\* A file whose open is under way is in no entry and in the hands of that call
\* alone.
Unpublished ==
  \A t \in Threads : pc[t] \in {"walk", "install"} =>
    Slots(file[t]) = {} /\ file[t] \notin lost /\ OnlyOneWith(t)

\* A file lost by an open that failed is nowhere else.
LostAreLive ==
  \A f \in Files \cap lost : life[f] = "live" /\ Slots(f) = {} /\ \A t \in Threads : file[t] # f

\* Nothing refers to a file that is not live, and no file has two entries.
NothingDangles ==
  \A f \in Files :
    /\ \A i, j \in Fds : table[i] = f /\ table[j] = f => i = j
    /\ life[f] # "live" => Slots(f) = {} /\ \A t \in Threads : file[t] # f

Counted(f) ==
  refcnt[f] + 1 = Cardinality(Slots(f)) + Cardinality(Owners(f)) + (IF f \in lost THEN 1 ELSE 0)

Counts == \A f \in Files : life[f] = "live" => Counted(f)

Table ==
  /\ TypeOK
  /\ ScanFinds /\ ReservedOnce /\ ClosesAlone /\ NoFileYet /\ EntryStays
  /\ Unpublished /\ LostAreLive /\ NothingDangles

IInv == Table /\ Counts /\ undefined = {}

-----------------------------------------------------------------------------
(* What a step may do. *)

Step(t) ==
  \/ open_begin(t)
  \/ \E i \in Fds \cup {NoFd} : close_begin(t, i) \/ xfer_begin(t, i)
  \/ Continue(t)

\* What the assumption on the constants says of the values of an entry.
LEMMA DistinctEntries ==
  /\ NoThread \notin Threads /\ NULL \notin Files /\ FD_USED \notin Files
  /\ NULL # FD_USED /\ NoFd \notin Fds
  /\ \A i \in Fds : i \in Int /\ i + 1 \in Fds \cup {NoFd}
  /\ 0 \in Fds /\ Files \cap Fds = {}
BY FdAssumption DEF Fds, NoFd

\* A step of one thread leaves the locals of the others alone.
LEMMA OthersAreStill ==
  ASSUME TypeOK, NEW t \in Threads, Step(t), NEW u \in Threads, u # t
  PROVE  /\ pc'[u] = pc[u] /\ fd'[u] = fd[u]
         /\ file'[u] = file[u] /\ pos'[u] = pos[u]
<1> USE DEF Go, Return, shared, locals, TypeOK
<1>1. CASE open_begin(t) \/ slot_scan(t) \/ slot_mark(t)
  BY <1>1 DEF open_begin, slot_scan, slot_mark
<1>2. CASE open_alloc(t) \/ open_nomem(t) \/ open_walk(t) \/ open_fails(t) \/ open_install(t)
  BY <1>2 DEF open_alloc, open_nomem, open_walk, open_fails, open_install
<1>3. CASE close_read(t) \/ close_clear(t) \/ close_put(t)
  BY <1>3 DEF close_read, close_clear, close_put
<1>4. CASE fget_lookup(t) \/ fget_inc(t) \/ xfer_fput(t)
  BY <1>4 DEF fget_lookup, fget_inc, xfer_fput
<1>5. CASE xfer_pos(t) \/ xfer_io(t) \/ xfer_store(t) \/ lseek_store(t)
  BY <1>5 DEF xfer_pos, xfer_io, xfer_store, lseek_store
<1>6. CASE \E i \in Fds \cup {NoFd} : close_begin(t, i) \/ xfer_begin(t, i)
  BY <1>6 DEF close_begin, xfer_begin
<1>7. QED
  BY <1>1, <1>2, <1>3, <1>4, <1>5, <1>6 DEF Step, Continue

-----------------------------------------------------------------------------
(* Types. *)

\* The arithmetic of FileRef stays within the counter's width.
LEMMA CountersStay ==
  /\ \A c \in Counter : Inc(c) \in Counter /\ Dec(c) \in Counter
  /\ ONEREF \in Counter /\ DEAD \in Counter /\ SATURATED \in Counter
BY ScaleAssumption DEF Inc, Dec, Counter, NOREF, ONEREF, DEAD, SATURATED

\* The empty table has its types.
LEMMA InitTypeOK == Init => TypeOK
<1> SUFFICES ASSUME Init
             PROVE  TypeOK
  OBVIOUS
<1>1. 0 \in Counter /\ 0 \in 0 .. MaxPos
  BY CountersStay, FdAssumption DEF ONEREF
<1>2. QED
  BY <1>1 DEF Init, TypeOK

\* file_ref_put on any file keeps the types.
LEMMA PutTypes ==
  ASSUME TypeOK, NEW f, RefPut(f)
  PROVE  /\ refcnt' \in [Files -> Counter]
         /\ life' \in [Files -> {"none", "live", "freed"}]
         /\ undefined' \subseteq UndefinedKinds
<1>1. PICK c : /\ refcnt' = [refcnt EXCEPT ![f] = c]
               /\ c = Dec(refcnt[f]) \/ c = DEAD \/ c = SATURATED
  BY DEF RefPut
<1>2. f \in Files => c \in Counter
  BY <1>1, CountersStay DEF TypeOK
<1>3. refcnt' \in [Files -> Counter]
  BY <1>1, <1>2 DEF TypeOK
<1>4. life' = [life EXCEPT ![f] = "freed"] \/ life' = life
  BY DEF RefPut
<1>5. undefined' \subseteq undefined \cup {"imbalanced put"}
  BY DEF RefPut
<1>6. QED
  BY <1>3, <1>4, <1>5 DEF TypeOK, UndefinedKinds

\* The pointers a call works with: TypeOK alone would let an open that failed
\* lose a file it has not got.
Typed == TypeOK /\ NoFileYet

\* Each action keeps the types; only the pointers need more than TypeOK.
LEMMA NextTypeOK == Typed /\ [Next]_vars => TypeOK'
<1> SUFFICES ASSUME Typed, [Next]_vars
             PROVE  TypeOK'
  OBVIOUS
<1> USE DEF Go, Return, shared, locals, OpenPc, ClosePc, XferPc, UndefinedKinds
<1>1. 0 \in 0 .. MaxPos /\ MaxPos \in Nat /\ TypeOK
  BY FdAssumption DEF Typed
<1>2. \A t \in Threads : file[t] \in Files \/
        pc[t] \in {"idle", "scan", "mark", "alloc", "close_read", "fget"}
  BY DEF Typed, TypeOK, NoFileYet
<1>3. ASSUME NEW t \in Threads, open_begin(t)
      PROVE  TypeOK'
  BY <1>1, DistinctEntries, <1>3 DEF open_begin, TypeOK
<1>4. ASSUME NEW t \in Threads, slot_scan(t)
      PROVE  TypeOK'
  <2>1. fd' \in [Threads -> Fds \cup {NoFd}]
    <3>1. CASE fd' = fd
      BY <1>1, <3>1 DEF TypeOK
    <3>2. CASE fd[t] # NoFd /\ fd' = [fd EXCEPT ![t] = @ + 1]
      <4>1. fd[t] + 1 \in Fds \cup {NoFd}
        BY <1>1, <3>2, DistinctEntries DEF TypeOK
      <4>2. QED
        BY <1>1, <3>2, <4>1 DEF TypeOK
    <3>3. QED
      BY <1>4, <3>1, <3>2 DEF slot_scan
  <2>2. QED
    BY <1>1, <1>4, <2>1 DEF slot_scan, TypeOK
<1>5. ASSUME NEW t \in Threads, slot_mark(t)
      PROVE  TypeOK'
  BY <1>1, <1>5 DEF slot_mark, TypeOK
<1>6. ASSUME NEW t \in Threads, open_alloc(t)
      PROVE  TypeOK'
  BY <1>1, CountersStay, <1>6 DEF open_alloc, TypeOK
<1>7. ASSUME NEW t \in Threads, open_nomem(t)
      PROVE  TypeOK'
  BY <1>1, <1>7 DEF open_nomem, TypeOK
<1>8. ASSUME NEW t \in Threads, open_walk(t)
      PROVE  TypeOK'
  BY <1>1, <1>8 DEF open_walk, TypeOK
<1>9. ASSUME NEW t \in Threads, open_fails(t)
      PROVE  TypeOK'
  BY <1>1, <1>2, <1>9 DEF open_fails, TypeOK
<1>10. ASSUME NEW t \in Threads, open_install(t)
      PROVE  TypeOK'
  BY <1>1, <1>10 DEF open_install, TypeOK
<1>11. ASSUME NEW t \in Threads, close_read(t)
      PROVE  TypeOK'
  <2>1. /\ pc' \in [Threads -> {"idle"} \cup OpenPc \cup ClosePc \cup XferPc]
        /\ fd' \in [Threads -> Fds \cup {NoFd}]
        /\ pos' \in [Threads -> 0 .. MaxPos]
    <3>1. CASE Go(t, pc[t], "close_clear") /\ UNCHANGED <<fd, pos>>
      BY <1>1, <3>1 DEF TypeOK
    <3>2. CASE Return(t, pc[t])
      BY <1>1, <3>2 DEF TypeOK
    <3>3. QED
      BY <1>11, <3>1, <3>2 DEF close_read
  <2>2. file' \in [Threads -> Files \cup {NULL}]
    BY <1>1, <1>11 DEF close_read, TypeOK
  <2>3. /\ UNCHANGED <<table, file_lock, refcnt, life, f_pos, moved, overlap, lost>>
        /\ undefined' \subseteq UndefinedKinds
    BY <1>1, <1>11 DEF close_read, TypeOK
  <2>4. QED
    BY <1>1, <2>1, <2>2, <2>3 DEF TypeOK
<1>12. ASSUME NEW t \in Threads, close_clear(t)
      PROVE  TypeOK'
  BY <1>1, <1>12 DEF close_clear, TypeOK
<1>13. ASSUME NEW t \in Threads, close_put(t)
      PROVE  TypeOK'
  <2>1. RefPut(file[t])
    BY <1>13 DEF close_put
  <2>2. /\ refcnt' \in [Files -> Counter]
        /\ life' \in [Files -> {"none", "live", "freed"}]
        /\ undefined' \subseteq UndefinedKinds
    BY <1>1, <2>1, PutTypes
  <2>3. QED
    BY <1>1, <1>13, <2>2 DEF close_put, TypeOK
<1>14. ASSUME NEW t \in Threads, xfer_fput(t)
      PROVE  TypeOK'
  <2>1. RefPut(file[t])
    BY <1>14 DEF xfer_fput
  <2>2. /\ refcnt' \in [Files -> Counter]
        /\ life' \in [Files -> {"none", "live", "freed"}]
        /\ undefined' \subseteq UndefinedKinds
    BY <1>1, <2>1, PutTypes
  <2>3. QED
    BY <1>1, <1>14, <2>2 DEF xfer_fput, TypeOK
<1>15. ASSUME NEW t \in Threads, fget_lookup(t)
      PROVE  TypeOK'
  <2>1. /\ pc' \in [Threads -> {"idle"} \cup OpenPc \cup ClosePc \cup XferPc]
        /\ fd' \in [Threads -> Fds \cup {NoFd}]
        /\ pos' \in [Threads -> 0 .. MaxPos]
    <3>1. CASE Go(t, pc[t], "fget_inc") /\ UNCHANGED <<fd, pos>>
      BY <1>1, <3>1 DEF TypeOK
    <3>2. CASE Return(t, pc[t])
      BY <1>1, <3>2 DEF TypeOK
    <3>3. QED
      BY <1>15, <3>1, <3>2 DEF fget_lookup
  <2>2. file' \in [Threads -> Files \cup {NULL}]
    BY <1>1, <1>15 DEF fget_lookup, TypeOK
  <2>3. /\ UNCHANGED <<table, refcnt, life, f_pos, moved, overlap, lost>>
        /\ undefined' \subseteq UndefinedKinds
        /\ file_lock' = t \/ file_lock' = file_lock
    BY <1>1, <1>15 DEF fget_lookup, TypeOK
  <2>4. QED
    BY <1>1, <2>1, <2>2, <2>3 DEF TypeOK
<1>16. ASSUME NEW t \in Threads, fget_inc(t)
      PROVE  TypeOK'
  <2>1. refcnt' \in [Files -> Counter]
    BY <1>1, <1>16, CountersStay DEF fget_inc, RefInc, TypeOK
  <2>2. undefined' \subseteq UndefinedKinds
    BY <1>1, <1>16 DEF fget_inc, RefInc, TypeOK
  <2>3. overlap' \subseteq Files
    BY <1>1, <1>2, <1>16 DEF fget_inc, TypeOK
  <2>4. QED
    BY <1>1, <1>16, <2>1, <2>2, <2>3 DEF fget_inc, RefInc, TypeOK
<1>17. ASSUME NEW t \in Threads, xfer_pos(t)
      PROVE  TypeOK'
  <2>1. f_pos[file[t]] \in 0 .. MaxPos
    BY <1>1, <1>2, <1>17 DEF xfer_pos, TypeOK
  <2>2. QED
    BY <1>1, <1>17, <2>1 DEF xfer_pos, TypeOK
<1>18. ASSUME NEW t \in Threads, xfer_io(t)
      PROVE  TypeOK'
  <2>1. CASE UNCHANGED <<shared, locals>>
    BY <1>1, <1>18, <2>1 DEF xfer_io, TypeOK
  <2>2. CASE pos[t] < MaxPos /\ moved[file[t]] < MaxPos
    <3>1. file[t] \in Files
      BY <1>2, <1>18 DEF xfer_io
    <3>2. pos[t] \in 0 .. MaxPos /\ moved[file[t]] \in 0 .. MaxPos
      BY <1>1, <3>1 DEF TypeOK
    <3>3. pos[t] + 1 \in 0 .. MaxPos /\ moved[file[t]] + 1 \in 0 .. MaxPos
      BY <1>1, <2>2, <3>2
    <3>4. CASE /\ moved' = [moved EXCEPT ![file[t]] = @ + 1]
               /\ pos' = [pos EXCEPT ![t] = @ + 1]
      <4>1. moved' \in [Files -> 0 .. MaxPos] /\ pos' \in [Threads -> 0 .. MaxPos]
        BY <1>1, <3>3, <3>4 DEF TypeOK
      <4>2. QED
        BY <1>1, <1>18, <4>1 DEF xfer_io, TypeOK
    <3>5. CASE UNCHANGED <<shared, locals>>
      BY <1>1, <1>18, <3>5 DEF xfer_io, TypeOK
    <3>6. QED
      BY <1>18, <3>4, <3>5 DEF xfer_io
  <2>3. QED
    BY <1>18, <2>1, <2>2 DEF xfer_io
<1>19. ASSUME NEW t \in Threads, xfer_store(t)
      PROVE  TypeOK'
  BY <1>1, <1>19 DEF xfer_store, TypeOK
<1>20. ASSUME NEW t \in Threads, lseek_store(t)
      PROVE  TypeOK'
  BY <1>1, <1>20 DEF lseek_store, TypeOK
<1>21. ASSUME NEW t \in Threads, NEW i \in Fds \cup {NoFd}, close_begin(t, i) \/ xfer_begin(t, i)
      PROVE  TypeOK'
  <2>1. i \in Fds \cup {NoFd}
    BY <1>21
  <2>2. /\ pc' = [pc EXCEPT ![t] = "close_read"] \/ pc' = [pc EXCEPT ![t] = "fget"]
        /\ fd' = [fd EXCEPT ![t] = i] /\ UNCHANGED <<shared, file, pos>>
    BY <1>21 DEF close_begin, xfer_begin
  <2>3. QED
    BY <1>1, <2>1, <2>2 DEF TypeOK
<1>22. CASE UNCHANGED vars
  BY <1>1, <1>22 DEF vars, TypeOK
<1>23. QED
  BY <1>3, <1>4, <1>5, <1>6, <1>7, <1>8, <1>9, <1>10, <1>11, <1>12, <1>13, <1>14, <1>15, <1>16, <1>17, <1>18, <1>19, <1>20, <1>21, <1>22 DEF Next, Continue

\* Every path that creates or looks up a file sets it, every return clears it.
LEMMA NextNoFileYet == Typed /\ [Next]_vars => NoFileYet'
<1> SUFFICES ASSUME Typed, [Next]_vars
             PROVE  NoFileYet'
  OBVIOUS
<1> USE DEF Typed, NoFileYet, TypeOK, Go, Return, shared, locals
<1>1. ASSUME NEW t \in Threads, Step(t)
      PROVE  file'[t] = NULL <=>
               pc'[t] \in {"idle", "scan", "mark", "alloc", "close_read", "fget"}
  <2>1. CASE open_begin(t) \/ slot_scan(t) \/ slot_mark(t)
    BY <2>1 DEF open_begin, slot_scan, slot_mark
  <2>2. CASE open_alloc(t)
    BY <2>2, DistinctEntries DEF open_alloc
  <2>3. CASE open_nomem(t) \/ open_walk(t) \/ open_fails(t) \/ open_install(t)
    BY <2>3 DEF open_nomem, open_walk, open_fails, open_install
  <2>4. CASE close_read(t) \/ fget_lookup(t)
    <3>1. NULL \notin Files
      BY DistinctEntries
    <3>2. CASE /\ pc'[t] \in {"close_clear", "fget_inc"}
               /\ table[fd[t]] \in Files /\ file' = [file EXCEPT ![t] = table[fd[t]]]
      BY <3>1, <3>2
    <3>3. CASE Return(t, pc[t])
      BY <3>3
    <3>4. QED
      BY <2>4, <3>2, <3>3 DEF close_read, fget_lookup
  <2>5. CASE close_clear(t) \/ close_put(t) \/ xfer_fput(t)
    BY <2>5 DEF close_clear, close_put, xfer_fput
  <2>6. CASE fget_inc(t) \/ xfer_pos(t) \/ xfer_io(t) \/ xfer_store(t) \/ lseek_store(t)
    BY <2>6 DEF fget_inc, xfer_pos, xfer_io, xfer_store, lseek_store
  <2>7. CASE \E i \in Fds \cup {NoFd} : close_begin(t, i) \/ xfer_begin(t, i)
    BY <2>7 DEF close_begin, xfer_begin
  <2>8. QED
    BY <1>1, <2>1, <2>2, <2>3, <2>4, <2>5, <2>6, <2>7 DEF Step, Continue
<1>2. ASSUME NEW t \in Threads, Step(t), NEW u \in Threads, u # t
      PROVE  pc'[u] = pc[u] /\ file'[u] = file[u]
  BY <1>2, OthersAreStill
<1>3. CASE UNCHANGED vars
  BY <1>3 DEF vars
<1>4. CASE Next
  <2>1. PICK t \in Threads : Step(t)
    BY <1>4 DEF Next, Step
  <2>2. \A u \in Threads : file'[u] = NULL <=>
          pc'[u] \in {"idle", "scan", "mark", "alloc", "close_read", "fget"}
    BY <1>1, <1>2, <2>1
  <2>3. QED
    BY <2>2
<1>5. QED
  BY <1>3, <1>4

\* No call has begun.
LEMMA InitTyped == Init => Typed
<1>1. Init => NoFileYet
  BY DEF Init, NoFileYet
<1>2. QED
  BY <1>1, InitTypeOK DEF Typed

\* Both halves at once.
LEMMA NextTyped == Typed /\ [Next]_vars => Typed'
BY NextTypeOK, NextNoFileYet DEF Typed

-----------------------------------------------------------------------------
(* The position of a file. *)

\* What PositionsAgree says of one file.
Agree(f) ==
  /\ \A t, u \in Threads : Moving(t, f) /\ Moving(u, f) => t = u
  /\ \A t \in Threads : Moving(t, f) /\ pc[t] = "io" => pos[t] = f_pos[f]
  /\ \A t \in Threads : Moving(t, f) /\ pc[t] = "store" => pos[t] = moved[f]
  /\ (\A t \in Threads : ~(Moving(t, f) /\ pc[t] = "store")) => f_pos[f] = moved[f]

\* A step that moves no byte of f and begins no transfer of it.
LEMMA AgreeStays ==
  ASSUME Typed, NEW t \in Threads, Step(t), NEW f \in Files, Agree(f),
         f_pos'[f] = f_pos[f], moved'[f] = moved[f], ~Moving(t, f), ~Moving(t, f)'
  PROVE  Agree(f)'
<1>1. \A u \in Threads : Moving(u, f)' <=> Moving(u, f)
  BY OthersAreStill DEF Typed, Moving
<1>2. \A u \in Threads : Moving(u, f) => pc'[u] = pc[u] /\ pos'[u] = pos[u]
  BY OthersAreStill DEF Typed
<1>3. QED
  BY <1>1, <1>2 DEF Agree

\* Two calls that move bytes of a file at once put it in overlap.
LEMMA NextPositionsAgree == Typed /\ PositionsAgree /\ [Next]_vars => PositionsAgree'
<1> SUFFICES ASSUME Typed, PositionsAgree, [Next]_vars
             PROVE  PositionsAgree'
  OBVIOUS
<1>1. TypeOK /\ \A f \in Files \ overlap : Agree(f)
  BY DEF Typed, PositionsAgree, Agree
<1>2. ASSUME NEW t \in Threads, Step(t), NEW f \in Files, f \notin overlap'
      PROVE  Agree(f)'
  <2>1. overlap \subseteq overlap'
    BY <1>2
       DEF Step, Continue, open_begin, slot_scan, slot_mark, open_alloc, open_nomem,
         open_walk, open_fails, open_install, close_begin, close_read, close_clear,
         close_put, xfer_begin, fget_lookup, fget_inc, xfer_pos, xfer_io, xfer_store,
         lseek_store, xfer_fput, shared, locals, Go, Return
  <2>2. Agree(f)
    BY <1>1, <1>2, <2>1
  <2>3. CASE fget_inc(t)
    <3>1. /\ pc[t] = "fget_inc" /\ pc'[t] = "pos" /\ file' = file
          /\ f_pos' = f_pos /\ moved' = moved
      BY <1>1, <2>3 DEF fget_inc, Go, locals, TypeOK
    <3>2. CASE file[t] # f
      BY <1>2, <2>2, <3>1, <3>2, AgreeStays DEF Moving
    <3>3. CASE file[t] = f
      <4>1. \A u \in Threads : ~Moving(u, f)
        BY <1>2, <2>3, <3>3 DEF fget_inc, Moving
      <4>2. f_pos[f] = moved[f]
        BY <2>2, <4>1 DEF Agree
      <4>3. \A u \in Threads : Moving(u, f)' => u = t
        BY <1>1, <1>2, <4>1, OthersAreStill DEF Moving
      <4>4. QED
        BY <3>1, <4>2, <4>3 DEF Agree
    <3>4. QED
      BY <3>2, <3>3
  <2>4. CASE xfer_pos(t) /\ file[t] = f
    <3>1. /\ pc[t] = "pos" /\ pc'[t] = "io" /\ file' = file /\ pos'[t] = f_pos[f]
          /\ f_pos' = f_pos /\ moved' = moved
      BY <1>1, <2>4 DEF xfer_pos, Go, shared, TypeOK
    <3>2. \A u \in Threads : Moving(u, f) => u = t
      BY <2>2, <2>4, <3>1 DEF Agree, Moving
    <3>3. f_pos[f] = moved[f]
      BY <2>2, <3>1, <3>2 DEF Agree
    <3>4. \A u \in Threads : Moving(u, f)' => u = t
      BY <1>1, <1>2, <3>2, OthersAreStill DEF Moving
    <3>5. QED
      BY <3>1, <3>3, <3>4 DEF Agree
  <2>5. CASE xfer_io(t) /\ file[t] = f
    <3>1. pc[t] = "io" /\ pc'[t] \in {"store", "fput"} /\ file' = file /\ f_pos' = f_pos
      BY <1>1, <2>5 DEF xfer_io, Go, shared, locals, TypeOK
    <3>2. \A u \in Threads : Moving(u, f) => u = t
      BY <2>2, <2>5, <3>1 DEF Agree, Moving
    <3>3. f_pos[f] = moved[f] /\ pos[t] = f_pos[f]
      BY <2>2, <2>5, <3>1, <3>2 DEF Agree, Moving
    <3>4. \A u \in Threads : Moving(u, f)' => u = t
      BY <1>1, <1>2, <3>2, OthersAreStill DEF Moving
    <3>5. \/ pc'[t] = "store" /\ pos'[t] = moved'[f]
          \/ pc'[t] = "fput" /\ moved' = moved
      <4>1. CASE UNCHANGED <<shared, locals>> /\ pc'[t] = "fput"
        BY <4>1 DEF shared
      <4>2. CASE /\ moved' = [moved EXCEPT ![file[t]] = @ + 1]
                 /\ pos' = [pos EXCEPT ![t] = @ + 1]
                 /\ pc'[t] = "store"
        BY <1>1, <2>5, <3>3, <4>2 DEF TypeOK
      <4>3. QED
        BY <1>1, <2>5, <4>1, <4>2 DEF xfer_io, Go, TypeOK
    <3>6. CASE pc'[t] = "store"
      BY <2>5, <3>1, <3>4, <3>5, <3>6 DEF Agree, Moving
    <3>7. CASE pc'[t] = "fput"
      BY <3>1, <3>3, <3>4, <3>5, <3>7 DEF Agree, Moving
    <3>8. QED
      BY <3>1, <3>6, <3>7
  <2>6. CASE xfer_store(t) /\ file[t] = f
    <3>1. /\ pc[t] = "store" /\ pc'[t] = "fput" /\ file' = file /\ moved' = moved
          /\ f_pos'[f] = pos[t]
      BY <1>1, <2>6 DEF xfer_store, Go, locals, TypeOK
    <3>2. \A u \in Threads : Moving(u, f) => u = t
      BY <2>2, <2>6, <3>1 DEF Agree, Moving
    <3>3. pos[t] = moved[f]
      BY <2>2, <2>6, <3>1 DEF Agree, Moving
    <3>4. \A u \in Threads : ~Moving(u, f)'
      BY <1>1, <1>2, <3>1, <3>2, OthersAreStill DEF Moving
    <3>5. QED
      BY <3>1, <3>3, <3>4 DEF Agree
  <2>7. CASE lseek_store(t) /\ file[t] = f
    <3>0. /\ pc[t] = "pos" /\ pc'[t] = "fput" /\ file' = file
      BY <1>1, <2>7 DEF lseek_store, Go, locals, TypeOK
    <3>1. /\ pc[t] = "pos" /\ pc'[t] = "fput" /\ file' = file
          /\ \/ f_pos' = f_pos /\ moved' = moved
             \/ f_pos'[f] = 0 /\ moved'[f] = 0
      BY <1>1, <2>7, <3>0 DEF lseek_store, TypeOK
    <3>2. \A u \in Threads : Moving(u, f) => u = t
      BY <2>2, <2>7, <3>1 DEF Agree, Moving
    <3>3. f_pos[f] = moved[f]
      BY <2>2, <3>1, <3>2 DEF Agree
    <3>4. \A u \in Threads : ~Moving(u, f)'
      BY <1>1, <1>2, <3>1, <3>2, OthersAreStill DEF Moving
    <3>5. QED
      BY <3>1, <3>3, <3>4 DEF Agree
  <2>8. CASE (xfer_pos(t) \/ xfer_io(t) \/ xfer_store(t) \/ lseek_store(t)) /\ file[t] # f
    <3>1. file' = file /\ f_pos'[f] = f_pos[f] /\ moved'[f] = moved[f]
      BY <1>1, <2>8 DEF xfer_pos, xfer_io, xfer_store, lseek_store, shared, locals, TypeOK
    <3>2. QED
      BY <1>2, <2>2, <2>8, <3>1, AgreeStays DEF Moving
  <2>9. CASE ~(fget_inc(t) \/ xfer_pos(t) \/ xfer_io(t) \/ xfer_store(t) \/ lseek_store(t))
    <3>1. f_pos' = f_pos /\ moved' = moved
      BY <1>2, <2>9
         DEF Step, Continue, open_begin, slot_scan, slot_mark, open_alloc, open_nomem,
           open_walk, open_fails, open_install, close_begin, close_read, close_clear,
           close_put, xfer_begin, fget_lookup, xfer_fput, shared, locals
    <3>2. ~Moving(t, f) /\ ~Moving(t, f)'
      BY <1>1, <1>2, <2>9
         DEF Step, Continue, open_begin, slot_scan, slot_mark, open_alloc, open_nomem,
           open_walk, open_fails, open_install, close_begin, close_read, close_clear,
           close_put, xfer_begin, fget_lookup, xfer_fput, Go, Return, Moving, TypeOK
    <3>3. QED
      BY <1>2, <2>2, <3>1, <3>2, AgreeStays
  <2>10. QED
    BY <2>3, <2>4, <2>5, <2>6, <2>7, <2>8, <2>9
<1>3. CASE UNCHANGED vars
  BY <1>1, <1>3 DEF vars, shared, PositionsAgree, Agree, Moving
<1>4. CASE Next
  BY <1>2, <1>4 DEF Next, Step, PositionsAgree, Agree
<1>5. QED
  BY <1>3, <1>4

\* As long as two transfers do not overlap on a file, its f_pos accounts for
\* every byte that went through it, whatever else callers do and however many
\* calls fail: read, write and lseek copy f_pos out and back once each.
THEOREM PositionsAreExact == Spec => []PositionIsExact
<1>1. Init => Typed /\ PositionsAgree
  BY InitTyped DEF Init, PositionsAgree, Moving
<1>2. Typed /\ PositionsAgree /\ [Next]_vars => (Typed /\ PositionsAgree)'
  BY NextTyped, NextPositionsAgree
<1>3. PositionsAgree => PositionIsExact
  BY DEF PositionsAgree, PositionIsExact, Moving
<1>4. QED
  BY <1>1, <1>2, <1>3, PTL DEF Spec

-----------------------------------------------------------------------------
(* The table. *)

\* The only steps that write the table, and what they overwrite.
LEMMA WritesOfTable ==
  ASSUME Table, NEW t \in Threads, Step(t)
  PROVE  \/ /\ table' = table
            /\ ~slot_mark(t) /\ ~open_install(t) /\ ~close_clear(t)
         \/ /\ slot_mark(t) /\ pc[t] = "mark" /\ pc'[t] = "alloc"
            /\ fd[t] \in Fds /\ table[fd[t]] = NULL
            /\ table' = [table EXCEPT ![fd[t]] = FD_USED]
         \/ /\ open_install(t) /\ pc[t] = "install" /\ pc'[t] = "idle"
            /\ fd[t] \in Fds /\ table[fd[t]] = FD_USED
            /\ file[t] \in Files /\ Slots(file[t]) = {}
            /\ table' = [table EXCEPT ![fd[t]] = file[t]]
         \/ /\ close_clear(t) /\ pc[t] = "close_clear" /\ pc'[t] = "close_put"
            /\ fd[t] \in Fds /\ table[fd[t]] = file[t] /\ file[t] \in Files
            /\ table' = [table EXCEPT ![fd[t]] = NULL]
<1> USE DEF Table, TypeOK, Go, Return
<1>1. CASE slot_mark(t)
  BY <1>1 DEF slot_mark, ScanFinds
<1>2. CASE open_install(t)
  <2>1. pc[t] = "install" /\ pc'[t] = "idle"
    BY <1>2 DEF open_install
  <2>2. fd[t] \in Fds /\ table[fd[t]] = FD_USED /\ file[t] \in Files
    <3>1. fd[t] \in Fds /\ table[fd[t]] = FD_USED
      BY <2>1 DEF ReservedOnce, Reserving
    <3>2. file[t] # NULL
      BY <2>1 DEF NoFileYet
    <3>3. QED
      BY <3>1, <3>2
  <2>3. Slots(file[t]) = {}
    BY <2>1 DEF Unpublished
  <2>4. table' = [table EXCEPT ![fd[t]] = file[t]]
    BY <1>2, <2>2, DistinctEntries DEF open_install
  <2>5. QED
    BY <1>2, <2>1, <2>2, <2>3, <2>4
<1>3. CASE close_clear(t)
  <2>1. pc[t] = "close_clear" /\ pc'[t] = "close_put"
    BY <1>3 DEF close_clear
  <2>2. fd[t] \in Fds /\ table[fd[t]] = file[t] /\ file[t] \in Files
    BY <2>1 DEF EntryStays, NoFileYet, ClosesAlone, ClosePc
  <2>3. QED
    BY <1>3, <2>1, <2>2 DEF close_clear
<1>4. CASE ~slot_mark(t) /\ ~open_install(t) /\ ~close_clear(t)
  BY <1>4
     DEF Step, Continue, open_begin, slot_scan, open_alloc, open_nomem, open_walk,
       open_fails, close_begin, close_read, close_put, xfer_begin, fget_lookup,
       fget_inc, xfer_pos, xfer_io, xfer_store, lseek_store, xfer_fput, shared
<1>5. QED
  BY <1>1, <1>2, <1>3, <1>4

\* The same for one entry.
LEMMA WritesOfEntry ==
  ASSUME Table, NEW t \in Threads, Step(t), NEW i \in Fds
  PROVE  \/ /\ table'[i] = table[i]
            /\ fd[t] = i => ~slot_mark(t) /\ ~open_install(t) /\ ~close_clear(t)
         \/ /\ slot_mark(t) /\ pc[t] = "mark" /\ fd[t] = i
            /\ table[i] = NULL /\ table'[i] = FD_USED
         \/ /\ open_install(t) /\ pc[t] = "install" /\ fd[t] = i
            /\ file[t] \in Files /\ Slots(file[t]) = {}
            /\ table[i] = FD_USED /\ table'[i] = file[t]
         \/ /\ close_clear(t) /\ pc[t] = "close_clear" /\ fd[t] = i
            /\ file[t] \in Files /\ table[i] = file[t] /\ table'[i] = NULL
<1>1. table \in [Fds -> Files \cup {NULL, FD_USED}]
  BY DEF Table, TypeOK
<1>2. QED
  BY <1>1, WritesOfTable

\* The loop of filedesc_slot_alloc does not run off the table.
LEMMA ScanInTable ==
  ASSUME Table, NEW t \in Threads, pc[t] = "scan"
  PROVE  fd[t] \in Fds
<1>1. \E i \in Fds : fd[t] <= i
  BY DEF Table, ScanFinds
<1>2. fd[t] # NoFd
  BY <1>1, FdAssumption DEF Fds, NoFd
<1>3. QED
  BY <1>2 DEF Table, TypeOK

\* With one open looking at a time, a free entry stays free until it marks it.
LEMMA NextScanFinds ==
  ASSUME PromisesKept, Table, NEW t \in Threads, Step(t)
  PROVE  ScanFinds'
<1> USE DEF Table
<1>1. TypeOK
  OBVIOUS
\* An entry that is free stays free, but for the one slot_mark takes.
<1>2. \A i \in Fds : table[i] = NULL => table'[i] = NULL \/ (slot_mark(t) /\ fd[t] = i)
  <2>1. \A i \in Fds : table[i] = NULL => i # fd[t] \/ table'[i] = NULL \/ slot_mark(t)
    <3>1. NULL # FD_USED /\ NULL \notin Files
      BY DistinctEntries
    <3>2. CASE table' = table
      BY <3>2
    <3>3. CASE table[fd[t]] = FD_USED
      BY <3>1, <3>3
    <3>4. CASE table[fd[t]] \in Files
      BY <3>1, <3>4
    <3>5. QED
      BY <3>2, <3>3, <3>4, WritesOfTable
  <2>2. \A i \in Fds : i # fd[t] => table'[i] = table[i]
    BY WritesOfTable DEF TypeOK
  <2>3. \A i \in Fds : table[i] = NULL => table'[i] = NULL \/ slot_mark(t)
    BY <2>1, <2>2
  <2>4. QED
    BY <2>2, <2>3
<1>3. CASE open_begin(t)
  <2>1. /\ pc'[t] = "scan" /\ fd'[t] = 0 /\ table' = table
        /\ \A u \in Threads : pc[u] \notin {"scan", "mark"}
        /\ \E i \in Fds : table[i] = NULL
    BY <1>3 DEF open_begin, MayOpen, PromisesKept, Go, shared, TypeOK
  <2>2. \A u \in Threads : u # t => pc'[u] \notin {"scan", "mark"}
    BY <2>1, OthersAreStill
  <2>3. \A i \in Fds : 0 <= i
    BY DEF Fds
  <2>4. QED
    BY <2>1, <2>2, <2>3 DEF ScanFinds
<1>4. CASE slot_scan(t)
  <2>1. pc[t] = "scan" /\ table' = table
    BY <1>4 DEF slot_scan, shared
  <2>2. \A u \in Threads : u # t => pc'[u] \notin {"scan", "mark"}
    BY <2>1, OthersAreStill DEF ScanFinds
  <2>3. PICK i \in Fds : fd[t] <= i /\ table[i] = NULL
    BY <2>1 DEF ScanFinds
  <2>4. fd[t] \in Fds
    BY <2>1, ScanInTable
  <2>5. CASE table[fd[t]] = NULL
    <3>1. pc'[t] = "mark" /\ fd'[t] = fd[t]
      BY <1>4, <2>4, <2>5, DistinctEntries DEF slot_scan, Go, TypeOK
    <3>2. QED
      BY <2>1, <2>2, <2>4, <2>5, <3>1 DEF ScanFinds
  <2>6. CASE table[fd[t]] # NULL
    <3>1. pc'[t] = "scan" /\ fd'[t] = fd[t] + 1
      BY <1>4, <2>4, <2>6, DistinctEntries DEF slot_scan, Go, TypeOK
    <3>2. fd[t] + 1 <= i
      BY <2>3, <2>4, <2>6, FdAssumption DEF Fds
    <3>3. QED
      BY <2>1, <2>2, <2>3, <3>1, <3>2 DEF ScanFinds
  <2>7. QED
    BY <2>5, <2>6
<1>5. CASE ~open_begin(t) /\ ~slot_scan(t)
  <2>1. pc'[t] \notin {"scan", "mark"}
    BY <1>5
       DEF Step, Continue, slot_mark, open_alloc, open_nomem, open_walk, open_fails,
         open_install, close_begin, close_read, close_clear, close_put, xfer_begin,
         fget_lookup, fget_inc, xfer_pos, xfer_io, xfer_store, lseek_store, xfer_fput,
         Go, Return, TypeOK
  <2>2. \A u \in Threads : pc'[u] \in {"scan", "mark"} =>
          u # t /\ pc'[u] = pc[u] /\ fd'[u] = fd[u]
    BY <2>1, OthersAreStill
  <2>3. ASSUME NEW u \in Threads, pc'[u] \in {"scan", "mark"}
        PROVE  ~slot_mark(t)
    BY <2>2, <2>3 DEF ScanFinds, slot_mark, Go
  <2>4. ASSUME NEW u \in Threads, pc'[u] = "scan"
        PROVE  \E i \in Fds : fd'[u] <= i /\ table'[i] = NULL
    <3>1. PICK i \in Fds : fd[u] <= i /\ table[i] = NULL
      BY <2>2, <2>4 DEF ScanFinds
    <3>2. QED
      BY <1>2, <2>2, <2>3, <2>4, <3>1
  <2>5. ASSUME NEW u \in Threads, pc'[u] = "mark"
        PROVE  fd'[u] \in Fds /\ table'[fd'[u]] = NULL
    BY <1>2, <2>2, <2>3, <2>5 DEF ScanFinds
  <2>6. \A u, v \in Threads : pc'[u] \in {"scan", "mark"} /\ pc'[v] \in {"scan", "mark"} => u = v
    BY <2>2 DEF ScanFinds
  <2>7. QED
    BY <2>4, <2>5, <2>6 DEF ScanFinds
<1>6. QED
  BY <1>3, <1>4, <1>5

\* What a step may add to lost.
LEMMA LostGrows ==
  ASSUME Table, NEW t \in Threads, Step(t)
  PROVE  \/ lost' = lost /\ ~open_nomem(t) /\ ~open_fails(t)
         \/ /\ open_nomem(t) /\ pc[t] = "alloc" /\ pc'[t] = "idle"
            /\ fd[t] \in Fds /\ lost' = lost \cup {fd[t]}
         \/ /\ open_fails(t) /\ pc[t] = "walk" /\ pc'[t] = "idle"
            /\ fd[t] \in Fds /\ file[t] \in Files /\ lost' = lost \cup {file[t], fd[t]}
<1> USE DEF Table, TypeOK, Go, Return
<1>1. CASE open_nomem(t)
  <2>1. pc[t] = "alloc" /\ pc'[t] = "idle" /\ lost' = lost \cup ({fd[t]} \cap Fds)
    BY <1>1 DEF open_nomem
  <2>2. fd[t] \in Fds
    BY <2>1 DEF ReservedOnce, Reserving
  <2>3. QED
    BY <1>1, <2>1, <2>2
<1>2. CASE open_fails(t)
  <2>1. /\ pc[t] = "walk" /\ pc'[t] = "idle"
        /\ lost' = lost \cup {file[t]} \cup ({fd[t]} \cap Fds)
    BY <1>2 DEF open_fails
  <2>2. fd[t] \in Fds
    BY <2>1 DEF ReservedOnce, Reserving
  <2>3. file[t] # NULL
    BY <2>1 DEF NoFileYet
  <2>4. QED
    BY <1>2, <2>1, <2>2, <2>3
<1>3. CASE ~open_nomem(t) /\ ~open_fails(t)
  BY <1>3
     DEF Step, Continue, open_begin, slot_scan, slot_mark, open_alloc, open_walk,
       open_install, close_begin, close_read, close_clear, close_put, xfer_begin,
       fget_lookup, fget_inc, xfer_pos, xfer_io, xfer_store, lseek_store, xfer_fput,
       shared
<1>4. QED
  BY <1>1, <1>2, <1>3

\* A reserved entry keeps its one open until that fills it in or fails.
LEMMA NextReservedOnce ==
  ASSUME Table, NEW t \in Threads, Step(t)
  PROVE  ReservedOnce'
<1>1. TypeOK /\ ReservedOnce /\ NULL # FD_USED /\ NULL \notin Files /\ FD_USED \notin Files
  BY DistinctEntries DEF Table
<1>2. ASSUME NEW u \in Threads, Reserving(u)'
      PROVE  /\ fd'[u] = fd[u] /\ fd[u] \in Fds /\ table'[fd[u]] = FD_USED
             /\ Reserving(u) \/ (u = t /\ slot_mark(t))
  <2>1. CASE u = t /\ slot_mark(t)
    BY <1>1, <2>1, WritesOfTable DEF slot_mark, locals, TypeOK
  <2>2. CASE u = t /\ ~slot_mark(t)
    <3>0. pc[t] = "scan" => fd[t] # NoFd
      BY ScanInTable, DistinctEntries
    <3>1. open_alloc(t) \/ open_walk(t)
      BY <1>1, <1>2, <2>2, <3>0
         DEF Step, Continue, open_begin, slot_scan, open_nomem, open_fails, open_install,
           close_begin, close_read, close_clear, close_put, xfer_begin, fget_lookup,
           fget_inc, xfer_pos, xfer_io, xfer_store, lseek_store, xfer_fput, Go, Return,
           Reserving, TypeOK
    <3>2. Reserving(t) /\ fd' = fd /\ table' = table
      BY <3>1 DEF open_alloc, open_walk, Go, Reserving, locals, shared
    <3>3. QED
      BY <1>1, <2>2, <3>2 DEF ReservedOnce
  <2>3. CASE u # t
    <3>1. Reserving(u) /\ fd'[u] = fd[u]
      BY <1>1, <1>2, <2>3, OthersAreStill DEF Reserving
    <3>2. fd[u] \in Fds /\ table[fd[u]] = FD_USED
      BY <1>1, <3>1 DEF ReservedOnce
    <3>3. ASSUME table[fd[t]] = FD_USED, pc[t] = "install"
          PROVE  fd[t] # fd[u]
      BY <1>1, <2>3, <3>1, <3>3 DEF ReservedOnce, Reserving
    <3>4. table'[fd[u]] = FD_USED
      BY <1>1, <3>2, <3>3, WritesOfEntry
    <3>5. QED
      BY <3>1, <3>2, <3>4
  <2>4. QED
    BY <2>1, <2>2, <2>3
<1>3. ASSUME NEW u \in Threads, NEW v \in Threads, Reserving(u)', Reserving(v)', fd'[u] = fd'[v]
      PROVE  u = v
  <2>1. fd[u] = fd[v]
    BY <1>2, <1>3
  <2>2. slot_mark(t) => \A w \in Threads : Reserving(w) => fd[w] # fd[t]
    <3>1. slot_mark(t) => table[fd[t]] = NULL
      BY WritesOfTable DEF slot_mark, Go
    <3>2. QED
      BY <1>1, <3>1 DEF ReservedOnce
  <2>3. QED
    BY <1>1, <1>2, <1>3, <2>1, <2>2 DEF ReservedOnce
<1>4. ASSUME NEW i \in Fds, table'[i] = FD_USED
      PROVE  i \in lost' \/ \E u \in Threads : Reserving(u)' /\ fd'[u] = i
  <2>1. CASE slot_mark(t) /\ fd[t] = i
    BY <1>1, <2>1 DEF slot_mark, Go, locals, Reserving, TypeOK
  <2>2. CASE ~(slot_mark(t) /\ fd[t] = i)
    <3>1. table[i] = FD_USED /\ ~(open_install(t) /\ fd[t] = i)
      BY <1>1, <1>4, <2>2, WritesOfEntry
    <3>2. lost \subseteq lost'
      BY LostGrows
    <3>3. ASSUME NEW u \in Threads, Reserving(u), fd[u] = i
          PROVE  i \in lost' \/ (Reserving(u)' /\ fd'[u] = i)
      <4>1. CASE u # t
        BY <1>1, <3>3, <4>1, OthersAreStill DEF Reserving
      <4>2. CASE u = t
        <5>1. open_alloc(t) \/ open_nomem(t) \/ open_walk(t) \/ open_fails(t)
          BY <3>1, <3>3, <4>2
             DEF Step, Continue, open_begin, slot_scan, slot_mark, close_begin,
               close_read, close_clear, close_put, xfer_begin, fget_lookup, fget_inc,
               xfer_pos, xfer_io, xfer_store, lseek_store, xfer_fput, open_install, Go,
               Return, Reserving
        <5>2. CASE open_alloc(t) \/ open_walk(t)
          BY <1>1, <3>3, <4>2, <5>2 DEF open_alloc, open_walk, Go, locals, Reserving, TypeOK
        <5>3. CASE open_nomem(t) \/ open_fails(t)
          BY <3>3, <4>2, <5>3, LostGrows
        <5>4. QED
          BY <5>1, <5>2, <5>3
      <4>3. QED
        BY <4>1, <4>2
    <3>4. QED
      BY <1>1, <3>1, <3>2, <3>3 DEF ReservedOnce
  <2>3. QED
    BY <2>1, <2>2
<1>5. QED
  BY <1>2, <1>3, <1>4 DEF ReservedOnce

\* A close begins on a descriptor nobody looks at, and keeps others off it.
LEMMA NextClosesAlone ==
  ASSUME PromisesKept, Table, NEW t \in Threads, Step(t)
  PROVE  ClosesAlone'
<1>1. TypeOK /\ ClosesAlone
  BY DEF Table
<1> USE DEF ClosePc, XferPc
<1> DEFINE Clearing(u) == pc[u] \in {"close_read", "close_clear"}
           Looking(u) == pc[u] \in {"fget", "fget_inc"}
\* A call goes on with its descriptor, or begins.
<1>2. ASSUME NEW u \in Threads, pc'[u] \in ClosePc \cup XferPc
      PROVE  \/ /\ pc[u] \in ClosePc \cup XferPc /\ fd'[u] = fd[u]
                /\ Clearing(u)' => Clearing(u)
                /\ Looking(u)' => Looking(u)
             \/ u = t /\ pc'[t] = "close_read" /\ MayClose(fd'[t])
             \/ u = t /\ pc'[t] = "fget" /\ MayTransfer(fd'[t])
  <2>1. CASE u # t
    BY <1>1, <1>2, <2>1, OthersAreStill
  <2>2. CASE u = t
    <3>1. ASSUME NEW i \in Fds \cup {NoFd}, close_begin(t, i)
          PROVE  pc'[t] = "close_read" /\ MayClose(fd'[t])
      BY <1>1, <3>1 DEF close_begin, Go, TypeOK
    <3>2. ASSUME NEW i \in Fds \cup {NoFd}, xfer_begin(t, i)
          PROVE  pc'[t] = "fget" /\ MayTransfer(fd'[t])
      BY <1>1, <3>2 DEF xfer_begin, Go, TypeOK
    <3>3. CASE \/ close_read(t) \/ close_clear(t) \/ fget_lookup(t) \/ fget_inc(t)
               \/ xfer_pos(t) \/ xfer_io(t) \/ xfer_store(t) \/ lseek_store(t)
      BY <1>1, <1>2, <2>2, <3>3
         DEF close_read, close_clear, fget_lookup, fget_inc, xfer_pos, xfer_io,
           xfer_store, lseek_store, Go, Return, locals, shared, TypeOK
    <3>4. \/ \E i \in Fds \cup {NoFd} : close_begin(t, i) \/ xfer_begin(t, i)
          \/ close_read(t) \/ close_clear(t) \/ fget_lookup(t) \/ fget_inc(t)
          \/ xfer_pos(t) \/ xfer_io(t) \/ xfer_store(t) \/ lseek_store(t)
      <4>1. /\ pc \in [Threads -> {"idle"} \cup OpenPc \cup ClosePc \cup XferPc]
            /\ pc'[t] \in ClosePc \cup XferPc
        BY <1>1, <1>2, <2>2 DEF TypeOK
      <4>2. pc'[t] \notin {"idle", "scan", "mark", "alloc", "walk", "install"}
        BY <4>1
      <4>3. QED
        BY <4>1, <4>2
         DEF Step, Continue, open_begin, slot_scan, slot_mark, open_alloc, open_nomem,
           open_walk, open_fails, open_install, close_put, xfer_fput, Go, Return
    <3>5. QED
      BY <2>2, <3>1, <3>2, <3>3, <3>4
  <2>3. QED
    BY <2>1, <2>2
<1>3. \A u \in Threads : pc'[u] \in ClosePc \cup XferPc => fd'[u] \in Fds
  BY <1>1, <1>2 DEF ClosesAlone, MayClose, MayTransfer, InRange, PromisesKept
<1>4. ASSUME NEW u \in Threads, NEW v \in Threads, Clearing(u)',
             fd'[v] = fd'[u], (Clearing(v) \/ Looking(v))'
      PROVE  u = v
  <2>1. CASE Clearing(u) /\ fd'[u] = fd[u] /\ (Clearing(v) \/ Looking(v)) /\ fd'[v] = fd[v]
    BY <1>1, <1>4, <2>1 DEF ClosesAlone, Closing, LookingUp
  <2>2. CASE u = t /\ MayClose(fd'[t])
    <3>1. \A w \in Threads : fd[w] = fd'[t] => ~Clearing(w) /\ ~Looking(w)
      BY <2>2 DEF MayClose, PromisesKept, Closing, LookingUp
    <3>2. QED
      BY <1>2, <1>4, <2>2, <3>1
  <2>3. CASE v = t /\ (MayClose(fd'[t]) \/ MayTransfer(fd'[t]))
    <3>1. \A w \in Threads : fd[w] = fd'[t] => ~Clearing(w)
      BY <2>3 DEF MayClose, MayTransfer, PromisesKept, Closing
    <3>2. QED
      BY <1>2, <1>4, <2>3, <3>1
  <2>4. QED
    BY <1>2, <1>4, <2>1, <2>2, <2>3
<1>5. QED
  BY <1>3, <1>4 DEF ClosesAlone, Closing, LookingUp

\* Where a call has its file from.
LEMMA GetsFile ==
  ASSUME Table, NEW t \in Threads, Step(t)
  PROVE  \/ file'[t] = file[t] \/ file'[t] = NULL
         \/ /\ open_alloc(t) /\ pc'[t] = "walk"
            /\ file'[t] \in Files /\ life[file'[t]] = "none"
         \/ /\ pc[t] \in {"close_read", "fget"} /\ pc'[t] \in {"close_clear", "fget_inc"}
            /\ fd[t] \in Fds /\ fd'[t] = fd[t] /\ table[fd[t]] \in Files
            /\ file'[t] = table[fd[t]]
<1>1. TypeOK
  BY DEF Table
<1>2. CASE open_alloc(t)
  BY <1>1, <1>2 DEF open_alloc, Go, TypeOK
<1>3. CASE close_read(t) \/ fget_lookup(t)
  <2>1. fd[t] \in Fds
    BY <1>3 DEF Table, ClosesAlone, close_read, fget_lookup, Go, Return, ClosePc, XferPc
  <2>2. CASE /\ pc[t] \in {"close_read", "fget"} /\ pc'[t] \in {"close_clear", "fget_inc"}
             /\ fd' = fd /\ table[fd[t]] \in Files
             /\ file' = [file EXCEPT ![t] = table[fd[t]]]
    BY <1>1, <2>1, <2>2 DEF TypeOK
  <2>3. CASE Return(t, pc[t])
    BY <1>1, <2>3 DEF Return, TypeOK
  <2>4. \/ /\ pc[t] \in {"close_read", "fget"} /\ pc'[t] \in {"close_clear", "fget_inc"}
           /\ fd' = fd /\ table[fd[t]] \in Files
           /\ file' = [file EXCEPT ![t] = table[fd[t]]]
        \/ Return(t, pc[t])
    BY <1>1, <1>3 DEF close_read, fget_lookup, Go, Return, TypeOK
  <2>5. QED
    BY <2>2, <2>3, <2>4
<1>4. CASE ~open_alloc(t) /\ ~close_read(t) /\ ~fget_lookup(t)
  BY <1>1, <1>4
     DEF Step, Continue, open_begin, slot_scan, slot_mark, open_nomem, open_walk,
       open_fails, open_install, close_begin, close_clear, close_put, xfer_begin,
       fget_inc, xfer_pos, xfer_io, xfer_store, lseek_store, xfer_fput, Return, locals,
       TypeOK
<1>5. QED
  BY <1>2, <1>3, <1>4

\* Only close clears an entry, and it is alone in looking at it.
LEMMA NextEntryStays ==
  ASSUME Table, NEW t \in Threads, Step(t)
  PROVE  EntryStays'
<1>1. TypeOK /\ EntryStays /\ NoFileYet /\ NULL # FD_USED /\ NULL \notin Files /\ FD_USED \notin Files
  BY DistinctEntries DEF Table
<1> DEFINE Keeps(u) == pc[u] \in {"close_clear", "fget_inc"}
<1>2. \A u \in Threads : Keeps(u) =>
        /\ fd[u] \in Fds /\ file[u] \in Files /\ table[fd[u]] = file[u]
        /\ fd[u] = fd[t] /\ pc[t] = "close_clear" => u = t
  BY <1>1 DEF Table, ClosesAlone, Closing, LookingUp, EntryStays, NoFileYet, ClosePc, XferPc, TypeOK
<1>3. ASSUME NEW u \in Threads, u # t, Keeps(u)'
      PROVE  table'[fd'[u]] = file'[u]
  <2>1. Keeps(u) /\ fd'[u] = fd[u] /\ file'[u] = file[u]
    BY <1>1, <1>3, OthersAreStill
  <2>2. fd[u] \in Fds /\ file[u] \in Files /\ table[fd[u]] = file[u]
    BY <1>2, <2>1
  <2>3. table'[fd[u]] = table[fd[u]]
    BY <1>1, <1>2, <1>3, <2>1, <2>2, WritesOfEntry
  <2>4. QED
    BY <2>1, <2>2, <2>3
<1>4. ASSUME Keeps(t)'
      PROVE  table'[fd'[t]] = file'[t]
  <2>1. ~slot_mark(t) /\ ~open_install(t) /\ ~close_clear(t)
    BY <1>1, <1>4 DEF slot_mark, open_install, close_clear, Go, Return, XferPc, TypeOK
  <2>2. table' = table
    BY <2>1, WritesOfTable
  <2>3. CASE close_read(t) \/ fget_lookup(t)
    <3>1. pc[t] \in {"close_read", "fget"} /\ file'[t] # NULL /\ file[t] = NULL
      <4>1. pc[t] \in {"close_read", "fget"}
        BY <2>3 DEF close_read, fget_lookup, Go, Return
      <4>2. pc'[t] # "idle" /\ pc \in [Threads -> {"idle"} \cup OpenPc \cup ClosePc \cup XferPc]
        BY <1>1, <1>4 DEF TypeOK, XferPc
      <4>3. table[fd[t]] \in Files /\ file' = [file EXCEPT ![t] = table[fd[t]]]
        BY <2>3, <4>2 DEF close_read, fget_lookup, Return, Go
      <4>4. QED
        BY <1>1, <4>1, <4>3 DEF NoFileYet, TypeOK
    <3>2. file'[t] = table[fd[t]] /\ fd'[t] = fd[t]
      BY <3>1, GetsFile DEF open_alloc, Go
    <3>3. QED
      BY <2>2, <3>2
  <2>4. CASE ~close_read(t) /\ ~fget_lookup(t)
    <3>1. Keeps(t) /\ fd' = fd /\ file' = file
      BY <1>1, <1>4, <2>1, <2>4
         DEF Step, Continue, open_begin, slot_scan, open_alloc, open_nomem, open_walk,
           open_fails, close_begin, close_put, xfer_begin, fget_inc, xfer_pos, xfer_io,
           xfer_store, lseek_store, xfer_fput, Go, Return, TypeOK
    <3>2. QED
      BY <1>2, <2>2, <3>1
  <2>5. QED
    BY <2>3, <2>4
<1>5. QED
  BY <1>3, <1>4 DEF EntryStays

\* What a step may do to the life of a file.
LEMMA LivesChange ==
  ASSUME TypeOK, NEW t \in Threads, Step(t), NEW f \in Files
  PROVE  \/ life'[f] = life[f]
         \/ open_alloc(t) /\ file'[t] = f /\ life[f] = "none" /\ life'[f] = "live"
         \/ close_put(t) /\ file[t] = f
         \/ xfer_fput(t) /\ file[t] = f
<1>1. CASE open_alloc(t)
  <2>1. PICK g \in Files :
          /\ life[g] = "none" /\ life' = [life EXCEPT ![g] = "live"]
          /\ file' = [file EXCEPT ![t] = g]
    BY <1>1 DEF open_alloc
  <2>2. file'[t] = g /\ (f # g => life'[f] = life[f]) /\ life'[g] = "live"
    BY <2>1 DEF TypeOK
  <2>3. QED
    BY <1>1, <2>1, <2>2
<1>2. CASE close_put(t)
  BY <1>2 DEF close_put, RefPut, TypeOK
<1>3. CASE xfer_fput(t)
  BY <1>3 DEF xfer_fput, RefPut, TypeOK
<1>4. CASE ~open_alloc(t) /\ ~close_put(t) /\ ~xfer_fput(t)
  BY <1>4
     DEF Step, Continue, open_begin, slot_scan, slot_mark, open_nomem, open_walk,
       open_fails, open_install, close_begin, close_read, close_clear, xfer_begin,
       fget_lookup, fget_inc, RefInc, xfer_pos, xfer_io, xfer_store, lseek_store, shared
<1>5. QED
  BY <1>1, <1>2, <1>3, <1>4

\* A new file stays with the one call that holds it.
LEMMA NextUnpublished ==
  ASSUME Table, NEW t \in Threads, Step(t)
  PROVE  Unpublished'
<1>1. /\ TypeOK /\ NoFileYet /\ Unpublished /\ LostAreLive /\ NothingDangles
      /\ EntryStays /\ ClosesAlone
      /\ NULL \notin Files /\ Files \cap Fds = {}
  BY DistinctEntries DEF Table
<1> DEFINE Private(u) == pc[u] \in {"walk", "install"}
\* A thread that had such a file and keeps it.
<1>2. ASSUME NEW u \in Threads, Private(u), Private(u)', file'[u] = file[u]
      PROVE  Slots(file[u])' = {} /\ file[u] \notin lost' /\ \A v \in Threads : file'[v] = file[u] => v = u
  <2>1. /\ file[u] \in Files /\ Slots(file[u]) = {} /\ file[u] \notin lost
        /\ \A v \in Threads : file[v] = file[u] => v = u
    BY <1>1, <1>2 DEF Unpublished, NoFileYet, OnlyOneWith, TypeOK
  <2>2. \A i \in Fds : table'[i] # file[u]
    <3>1. ASSUME NEW i \in Fds, table'[i] = file[u]
          PROVE  FALSE
      <4>1. table[i] # file[u]
        BY <2>1 DEF Slots
      <4>2. NULL # file[u] /\ FD_USED # file[u]
        BY <2>1, DistinctEntries
      <4>3. open_install(t) /\ file[t] = file[u]
        BY <3>1, <4>1, <4>2, WritesOfEntry
      <4>4. t = u /\ pc'[t] = "idle"
        BY <1>1, <2>1, <4>3 DEF open_install, Go, Return, TypeOK
      <4>5. QED
        BY <1>2, <4>4
    <3>2. QED
      BY <3>1
  <2>3. file[u] \notin lost'
    <3>1. open_fails(t) => t # u
      BY <1>1, <1>2 DEF open_fails, Go, Return, TypeOK
    <3>2. QED
      BY <1>1, <2>1, <3>1, LostGrows
  <2>4. \A v \in Threads : file'[v] = file[u] => v = u
    <3>1. ASSUME NEW v \in Threads, v # u, file'[v] = file[u]
          PROVE  FALSE
      <4>1. v = t
        BY <1>1, <2>1, <3>1, OthersAreStill
      <4>2. file[v] # file[u] /\ file[u] # NULL
        BY <1>1, <2>1, <3>1
      <4>3. life[file[u]] # "none"
        BY <1>1, <2>1 DEF NothingDangles
      <4>4. \A i \in Fds : table[i] # file[u]
        BY <2>1 DEF Slots
      <4>5. QED
        BY <3>1, <4>1, <4>2, <4>3, <4>4, GetsFile
    <3>2. QED
      BY <3>1
  <2>5. QED
    BY <1>2, <2>2, <2>3, <2>4 DEF Slots
\* A new file.
<1>3. CASE open_alloc(t)
  <2>1. /\ file'[t] \in Files /\ life[file'[t]] = "none" /\ table' = table /\ lost' = lost
    BY <1>1, <1>3 DEF open_alloc, TypeOK
  <2>2. Slots(file'[t]) = {} /\ \A v \in Threads : file[v] # file'[t]
    BY <1>1, <2>1 DEF NothingDangles
  <2>3. file'[t] \notin lost
    BY <1>1, <2>1 DEF LostAreLive
  <2>4. \A v \in Threads : file'[v] = file'[t] => v = t
    BY <1>1, <2>2, OthersAreStill
  <2>5. Slots(file[t])' = {}
    BY <2>1, <2>2 DEF Slots
  <2>6. ASSUME NEW u \in Threads, Private(u)'
        PROVE  Slots(file[u])' = {} /\ file'[u] \notin lost' /\ OnlyOneWith(u)'
    <3>1. CASE u = t
      BY <2>1, <2>2, <2>3, <2>4, <3>1 DEF Slots, OnlyOneWith
    <3>2. CASE u # t
      BY <1>1, <1>2, <2>6, <3>2, OthersAreStill DEF Slots, OnlyOneWith
    <3>3. QED
      BY <3>1, <3>2
  <2>7. QED
    BY <2>6 DEF Unpublished
<1>4. CASE ~open_alloc(t)
  <2>1. ASSUME NEW u \in Threads, Private(u)'
        PROVE  Private(u) /\ file'[u] = file[u]
    <3>1. CASE u # t
      BY <1>1, <2>1, <3>1, OthersAreStill
    <3>2. CASE u = t
      <4>1. open_walk(t)
        BY <1>1, <1>4, <2>1, <3>2
           DEF Step, Continue, open_begin, slot_scan, slot_mark, open_nomem, open_fails,
             open_install, close_begin, close_read, close_clear, close_put, xfer_begin, fget_lookup,
             fget_inc, xfer_pos, xfer_io, xfer_store, lseek_store, xfer_fput, Go, Return,
             TypeOK
      <4>2. QED
        BY <3>2, <4>1 DEF open_walk, Go, locals
    <3>3. QED
      BY <3>1, <3>2
  <2>2. QED
    BY <1>2, <2>1 DEF Unpublished, Slots, OnlyOneWith
<1>5. QED
  BY <1>3, <1>4

-----------------------------------------------------------------------------
(* The counts. *)

\* The sets that are counted are finite; an entry of a file is its only one.
LEMMA CountedSets ==
  ASSUME Table, CountsFit, NEW f \in Files
  PROVE  /\ IsFiniteSet(Owners(f)) /\ Cardinality(Owners(f)) \in Nat
         /\ Cardinality(Owners(f)) <= MAXREF /\ MAXREF \in Nat
         /\ Slots(f) = {} => Cardinality(Slots(f)) = 0
         /\ \A i \in Fds : table[i] = f => Cardinality(Slots(f)) = 1
<1>1. Owners(f) \in SUBSET Threads
  BY DEF Owners
<1>2. /\ IsFiniteSet(Owners(f)) /\ Cardinality(Owners(f)) <= Cardinality(Threads)
      /\ Cardinality(Threads) \in Nat /\ Cardinality(Owners(f)) \in Nat
  BY <1>1, FS_Subset, FS_CardinalityType DEF CountsFit
<1>3. MAXREF \in Nat
  BY ScaleAssumption DEF MAXREF
<1>4. Slots(f) = {} => Cardinality(Slots(f)) = 0
  BY FS_EmptySet
<1>5. ASSUME NEW i \in Fds, table[i] = f
      PROVE  Cardinality(Slots(f)) = 1
  <2>1. Slots(f) = {i}
    BY <1>5 DEF Slots, Table, NothingDangles
  <2>2. QED
    BY <2>1, FS_Singleton
<1>6. QED
  BY <1>2, <1>3, <1>4, <1>5 DEF CountsFit

\* A call that holds a reference finds a counter that is exact, and is alone
\* with a file whose counter is at its last reference.
LEMMA OwnersCount ==
  ASSUME Table, Counts, CountsFit, NEW t \in Threads, Owns(t, file[t]), file[t] \in Files
  PROVE  /\ refcnt[file[t]] \in 0 .. MAXREF
         /\ refcnt[file[t]] = 0 =>
              Slots(file[t]) = {} /\ \A u \in Threads : file[u] = file[t] => u = t
<1> DEFINE f == file[t]
<1>1. TypeOK /\ NoFileYet /\ EntryStays /\ ClosesAlone /\ LostAreLive /\ NothingDangles
  BY DEF Table
<1>2. life[f] = "live" /\ f \notin lost
  BY <1>1 DEF LostAreLive, NothingDangles
<1>3. t \in Owners(f)
  BY DEF Owners
<1>4. /\ IsFiniteSet(Owners(f)) /\ Cardinality(Owners(f)) \in Nat \ {0}
      /\ Cardinality(Owners(f)) <= MAXREF /\ MAXREF \in Nat
  BY <1>3, CountedSets, FS_EmptySet
<1>5. \/ Slots(f) = {} /\ Cardinality(Slots(f)) = 0
      \/ Cardinality(Slots(f)) = 1
  BY CountedSets DEF Slots
<1>6. refcnt[f] + 1 = Cardinality(Slots(f)) + Cardinality(Owners(f))
  BY <1>2, <1>4, <1>5 DEF Counts, Counted
<1>7. refcnt[f] \in Int
  BY <1>1, ScaleAssumption DEF TypeOK, Counter, NOREF
<1>8. refcnt[f] \in 0 .. MAXREF
  BY <1>4, <1>5, <1>6, <1>7
<1>9. ASSUME refcnt[f] = 0
      PROVE  Slots(f) = {} /\ \A u \in Threads : file[u] = f => u = t
  <2>1. Slots(f) = {} /\ Cardinality(Owners(f)) = 1
    BY <1>4, <1>5, <1>6, <1>9
  <2>2. Cardinality(Owners(f) \ {t}) = 0 /\ IsFiniteSet(Owners(f) \ {t})
    BY <1>3, <1>4, <2>1, FS_RemoveElement
  <2>3. Owners(f) \ {t} = {}
    BY <2>2, FS_EmptySet
  <2>4. ASSUME NEW u \in Threads, file[u] = f, u # t
        PROVE  FALSE
    <3>1. ~Owns(u, f)
      BY <2>3, <2>4 DEF Owners
    <3>2. file[u] # NULL
      BY <2>4, DistinctEntries
    <3>3. pc[u] \in {"close_clear", "fget_inc"}
      BY <1>1, <2>4, <3>1, <3>2 DEF Owns, NoFileYet, TypeOK, OpenPc, ClosePc, XferPc
    <3>4. fd[u] \in Fds /\ table[fd[u]] = f
      BY <1>1, <2>4, <3>3 DEF EntryStays, ClosesAlone, ClosePc, XferPc
    <3>5. QED
      BY <2>1, <3>4 DEF Slots
  <2>5. QED
    BY <2>1, <2>4
<1>10. QED
  BY <1>8, <1>9

\* A get under file_lock and a put find a counter that is exact; the put that
\* frees the file is the last thing that refers to it.
LEMMA GetsAndPuts ==
  ASSUME Table, Counts, CountsFit, undefined = {}, NEW t \in Threads
  PROVE  /\ fget_inc(t) =>
              /\ refcnt' = [refcnt EXCEPT ![file[t]] = @ + 1]
              /\ undefined' = {} /\ life' = life
         /\ xfer_fput(t) \/ close_put(t) =>
              /\ undefined' = {}
              /\ \/ /\ refcnt' = [refcnt EXCEPT ![file[t]] = @ - 1]
                    /\ life' = life
                 \/ /\ life' = [life EXCEPT ![file[t]] = "freed"]
                    /\ Slots(file[t]) = {}
                    /\ \A u \in Threads : file[u] = file[t] => u = t
<1> DEFINE f == file[t]
<1>1. TypeOK /\ NoFileYet /\ EntryStays /\ ClosesAlone /\ LostAreLive /\ NothingDangles
  BY DEF Table
<1>2. \A c \in Counter : c \in 0 .. MAXREF => ~IsNegative(c) /\ c # NOREF /\ Inc(c) = c + 1
  BY ScaleAssumption DEF IsNegative, MAXREF, NOREF, Inc, Counter
<1>3. ASSUME fget_inc(t)
      PROVE  /\ refcnt' = [refcnt EXCEPT ![f] = @ + 1]
             /\ undefined' = {} /\ life' = life
  <2>1. pc[t] = "fget_inc"
    BY <1>3 DEF fget_inc, Go
  <2>2. f \in Files /\ fd[t] \in Fds /\ table[fd[t]] = f
    BY <1>1, <2>1 DEF NoFileYet, EntryStays, ClosesAlone, XferPc, TypeOK
  <2>3. life[f] = "live" /\ f \notin lost
    <3>1. Slots(f) # {}
      BY <2>2 DEF Slots
    <3>2. QED
      BY <1>1, <2>2, <3>1 DEF NothingDangles, LostAreLive
  <2>4. Cardinality(Slots(f)) = 1
    BY <2>2, CountedSets
  <2>5. refcnt[f] + 1 = 1 + Cardinality(Owners(f)) + 0
    BY <2>2, <2>3, <2>4 DEF Counts, Counted
  <2>6. refcnt[f] \in Int
    BY <1>1, <2>2, ScaleAssumption DEF TypeOK, Counter, NOREF
  <2>7. refcnt[f] \in Counter /\ refcnt[f] \in 0 .. MAXREF
    BY <1>1, <2>2, <2>5, <2>6, CountedSets DEF TypeOK
  <2>8. ~IsNegative(refcnt[f]) /\ Inc(refcnt[f]) = refcnt[f] + 1
    BY <1>2, <2>7
  <2>9. QED
    BY <1>3, <2>8 DEF fget_inc, RefInc
<1>4. ASSUME xfer_fput(t) \/ close_put(t)
      PROVE  /\ undefined' = {}
             /\ \/ refcnt' = [refcnt EXCEPT ![f] = @ - 1] /\ life' = life
                \/ /\ life' = [life EXCEPT ![f] = "freed"]
                   /\ Slots(f) = {} /\ \A u \in Threads : file[u] = f => u = t
  <2>1. pc[t] \in {"fput", "close_put"} /\ RefPut(f)
    BY <1>4 DEF xfer_fput, close_put, Return, Go
  <2>2. f \in Files /\ Owns(t, f)
    BY <1>1, <2>1 DEF NoFileYet, TypeOK, Owns
  <2>3. /\ refcnt[f] \in 0 .. MAXREF
        /\ refcnt[f] = 0 => Slots(f) = {} /\ \A u \in Threads : file[u] = f => u = t
    BY <2>2, OwnersCount
  <2>4. MAXREF \in Nat /\ refcnt[f] \in Counter /\ Dec(refcnt[f]) \in Counter
    BY <1>1, <2>2, ScaleAssumption, CountersStay DEF MAXREF, TypeOK
  <2>5. CASE refcnt[f] # 0
    <3>1. Dec(refcnt[f]) = refcnt[f] - 1 /\ refcnt[f] - 1 \in 0 .. MAXREF
      BY <2>3, <2>4, <2>5 DEF Dec
    <3>2. ~IsNegative(Dec(refcnt[f])) /\ Dec(refcnt[f]) # NOREF
      BY <1>2, <2>4, <3>1
    <3>3. QED
      BY <2>1, <3>1, <3>2 DEF RefPut
  <2>6. CASE refcnt[f] = 0
    <3>1. Dec(refcnt[f]) = NOREF
      BY <2>6 DEF Dec
    <3>2. IsNegative(NOREF)
      BY ScaleAssumption DEF IsNegative, NOREF, MAXREF
    <3>3. life' = [life EXCEPT ![f] = "freed"] /\ undefined' = undefined
      BY <2>1, <3>1, <3>2 DEF RefPut
    <3>4. QED
      BY <2>3, <2>6, <3>3
  <2>7. QED
    BY <2>5, <2>6
<1>5. QED
  BY <1>3, <1>4

\* Every get finds a live file, every put its reference, every install a slot.
LEMMA NextUndefined ==
  ASSUME Table, Counts, CountsFit, undefined = {}, NEW t \in Threads, Step(t)
  PROVE  undefined' = {}
<1>1. CASE fget_inc(t) \/ xfer_fput(t) \/ close_put(t)
  BY <1>1, GetsAndPuts
<1>2. CASE open_install(t)
  <2>1. fd[t] \in Fds
    BY <1>2 DEF Table, ReservedOnce, Reserving, open_install, Go, Return
  <2>2. QED
    BY <1>2, <2>1, DistinctEntries DEF open_install
<1>3. CASE close_read(t) \/ fget_lookup(t)
  <2>1. fd[t] \in Fds
    BY <1>3 DEF Table, ClosesAlone, ClosePc, XferPc, close_read, fget_lookup, Go, Return
  <2>2. QED
    BY <1>3, <2>1 DEF close_read, fget_lookup, shared
<1>4. CASE /\ ~fget_inc(t) /\ ~xfer_fput(t) /\ ~close_put(t) /\ ~open_install(t)
           /\ ~close_read(t) /\ ~fget_lookup(t)
  BY <1>4
     DEF Step, Continue, open_begin, slot_scan, slot_mark, open_alloc, open_nomem,
       open_walk, open_fails, close_begin, close_clear, xfer_begin, xfer_pos, xfer_io,
       xfer_store, lseek_store, shared
<1>5. QED
  BY <1>1, <1>2, <1>3, <1>4

\* An open that fails loses a file nobody else has.
LEMMA NextLostAreLive ==
  ASSUME Table, NEW t \in Threads, Step(t)
  PROVE  LostAreLive'
<1>1. /\ TypeOK /\ NoFileYet /\ Unpublished /\ LostAreLive /\ NothingDangles
      /\ NULL \notin Files /\ FD_USED \notin Files /\ Files \cap Fds = {}
  BY DistinctEntries DEF Table
<1>2. ASSUME NEW f \in Files, f \in lost'
      PROVE  /\ life[f] = "live" /\ Slots(f) = {}
             /\ \A u \in Threads : file[u] = f => u = t /\ open_fails(t)
  <2>1. CASE f \in lost
    BY <1>1, <2>1 DEF LostAreLive
  <2>2. CASE f \notin lost
    <3>1. f \notin Fds
      BY <1>1
    <3>2. open_fails(t) /\ pc[t] = "walk" /\ file[t] = f
      BY <1>2, <2>2, <3>1, LostGrows
    <3>3. Slots(f) = {} /\ \A u \in Threads : file[u] = f => u = t
      BY <1>1, <3>2 DEF Unpublished, OnlyOneWith
    <3>4. life[f] = "live"
      BY <1>1, <3>2 DEF NothingDangles
    <3>5. QED
      BY <3>2, <3>3, <3>4
  <2>3. QED
    BY <2>1, <2>2
<1>3. ASSUME NEW f \in Files, f \in lost'
      PROVE  life'[f] = "live" /\ Slots(f)' = {} /\ \A u \in Threads : file'[u] # f
  <2>1. /\ life[f] = "live" /\ Slots(f) = {}
        /\ \A u \in Threads : file[u] = f => u = t /\ open_fails(t)
    BY <1>2, <1>3
  <2>2. life'[f] = "live"
    <3>1. close_put(t) \/ xfer_fput(t) => ~open_fails(t)
      BY DEF close_put, xfer_fput, open_fails, Go, Return
    <3>2. QED
      BY <1>1, <2>1, <3>1, LivesChange
  <2>3. \A i \in Fds : table'[i] # f
    <3>1. \A i \in Fds : table[i] # f
      BY <2>1 DEF Slots
    <3>2. open_install(t) => file[t] # f
      BY <2>1 DEF open_install, open_fails, Go, Return
    <3>3. NULL # f /\ FD_USED # f
      BY <1>1
    <3>4. QED
      BY <3>1, <3>2, <3>3, WritesOfEntry
  <2>4. ASSUME NEW u \in Threads, file'[u] = f
        PROVE  FALSE
    <3>1. CASE u # t
      BY <1>1, <2>1, <2>4, <3>1, OthersAreStill
    <3>2. CASE u = t
      <4>1. \A i \in Fds : table[i] # f
        BY <2>1 DEF Slots
      <4>2. f # NULL
        BY <1>1
      <4>3. file'[t] = file[t]
        BY <2>1, <2>4, <3>2, <4>1, <4>2, GetsFile
      <4>4. open_fails(t)
        BY <2>1, <2>4, <3>2, <4>3
      <4>5. file'[t] = NULL
        BY <1>1, <4>4 DEF open_fails, Return, TypeOK
      <4>6. QED
        BY <2>4, <3>2, <4>2, <4>5
    <3>3. QED
      BY <3>1, <3>2
  <2>5. QED
    BY <2>2, <2>3, <2>4 DEF Slots
<1>4. QED
  BY <1>3 DEF LostAreLive

\* A file is freed only when nothing refers to it, and installed only once.
LEMMA NextNothingDangles ==
  ASSUME Table, Counts, CountsFit, undefined = {}, NEW t \in Threads, Step(t)
  PROVE  NothingDangles'
<1>1. /\ TypeOK /\ NoFileYet /\ Unpublished /\ NothingDangles
      /\ NULL \notin Files /\ FD_USED \notin Files
  BY DistinctEntries DEF Table
<1>2. ASSUME NEW f \in Files, NEW i \in Fds, NEW j \in Fds, table'[i] = f, table'[j] = f
      PROVE  i = j
  <2>1. f # NULL /\ f # FD_USED
    BY <1>1
  <2>2. CASE table[i] = f /\ table[j] = f
    BY <1>1, <2>2 DEF NothingDangles
  <2>3. CASE table[i] # f
    <3>1. open_install(t) /\ fd[t] = i /\ file[t] = f /\ Slots(f) = {}
      BY <1>2, <2>1, <2>3, WritesOfEntry
    <3>2. table[j] # f
      BY <3>1 DEF Slots
    <3>3. fd[t] = j
      BY <1>2, <2>1, <3>2, WritesOfEntry
    <3>4. QED
      BY <3>1, <3>3
  <2>4. CASE table[j] # f
    <3>1. open_install(t) /\ fd[t] = j /\ file[t] = f /\ Slots(f) = {}
      BY <1>2, <2>1, <2>4, WritesOfEntry
    <3>2. table[i] # f
      BY <3>1 DEF Slots
    <3>3. fd[t] = i
      BY <1>2, <2>1, <3>2, WritesOfEntry
    <3>4. QED
      BY <3>1, <3>3
  <2>5. QED
    BY <2>2, <2>3, <2>4
<1>3. ASSUME NEW f \in Files, life'[f] # "live"
      PROVE  Slots(f)' = {} /\ \A u \in Threads : file'[u] # f
  <2>1. \/ life[f] # "live" /\ ~open_alloc(t)
        \/ life[f] # "live" /\ open_alloc(t) /\ file'[t] # f
        \/ (close_put(t) \/ xfer_fput(t)) /\ file[t] = f /\ life' # life
    <3>2. open_alloc(t) /\ file'[t] = f => life'[f] = "live"
      BY <1>1, <1>3 DEF open_alloc, TypeOK
    <3>3. QED
      BY <1>1, <1>3, <3>2, LivesChange
  <2>2. CASE life[f] # "live" /\ (~open_alloc(t) \/ file'[t] # f)
    <3>1. (\A i \in Fds : table[i] # f) /\ \A u \in Threads : file[u] # f
      BY <1>1, <2>2 DEF NothingDangles, Slots
    <3>2. \A i \in Fds : table'[i] # f
      BY <1>1, <3>1, WritesOfEntry
    <3>3. \A u \in Threads : file'[u] # f
      BY <1>1, <2>2, <3>1, GetsFile, OthersAreStill
    <3>4. QED
      BY <3>2, <3>3 DEF Slots
  <2>3. CASE (close_put(t) \/ xfer_fput(t)) /\ file[t] = f /\ life' # life
    <3>1. file'[t] = NULL /\ table' = table
      BY <1>1, <2>3 DEF close_put, xfer_fput, Go, Return, TypeOK
    <3>2. Slots(f) = {} /\ \A u \in Threads : file[u] = f => u = t
      BY <2>3, GetsAndPuts
    <3>3. \A u \in Threads : file'[u] # f
      BY <1>1, <3>1, <3>2, OthersAreStill
    <3>4. QED
      BY <3>1, <3>2, <3>3 DEF Slots
  <2>4. QED
    BY <2>1, <2>2, <2>3
<1>4. QED
  BY <1>2, <1>3 DEF NothingDangles

\* The steps that change who refers to f.
Touches(t, f) ==
  \/ open_alloc(t) /\ file'[t] = f
  \/ /\ file[t] = f
     /\ \/ open_fails(t) \/ open_install(t) \/ close_clear(t) \/ close_put(t)
        \/ fget_inc(t) \/ xfer_fput(t)

\* A step that does not hand f on leaves all that is counted of it alone.
LEMMA OthersCountTheSame ==
  ASSUME Table, NEW t \in Threads, Step(t), NEW f \in Files, ~Touches(t, f)
  PROVE  /\ Slots(f)' = Slots(f) /\ Owners(f)' = Owners(f)
         /\ refcnt'[f] = refcnt[f] /\ life'[f] = life[f] /\ (f \in lost' <=> f \in lost)
<1>1. /\ TypeOK /\ NoFileYet
      /\ NULL \notin Files /\ FD_USED \notin Files /\ Files \cap Fds = {}
  BY DistinctEntries DEF Table
<1>2. Slots(f)' = Slots(f)
  <2>1. ASSUME NEW i \in Fds
        PROVE  table'[i] = f <=> table[i] = f
    BY <1>1, WritesOfEntry DEF Touches
  <2>2. QED
    BY <2>1 DEF Slots
<1>3. Owners(f)' = Owners(f)
  <2>1. Owns(t, f)' <=> Owns(t, f)
    <3>1. CASE open_alloc(t) \/ open_fails(t) \/ open_install(t) \/ close_clear(t)
               \/ close_put(t) \/ fget_inc(t) \/ xfer_fput(t)
      <4>1. file[t] # f /\ file'[t] # f
        <5>1. CASE open_alloc(t)
          <6>1. file[t] = NULL
            BY <1>1, <5>1 DEF open_alloc, Go, NoFileYet
          <6>2. QED
            BY <1>1, <5>1, <6>1 DEF Touches
        <5>2. CASE ~open_alloc(t)
          <6>1. file[t] # f
            BY <3>1, <5>2 DEF Touches
          <6>2. file'[t] = file[t] \/ file'[t] = NULL
            BY <1>1, <3>1, <5>2 DEF open_fails, open_install, close_clear, close_put,
                 fget_inc, xfer_fput, Return, locals, TypeOK
          <6>3. QED
            BY <1>1, <6>1, <6>2
        <5>3. QED
          BY <5>1, <5>2
      <4>2. QED
        BY <4>1 DEF Owns
    <3>2. CASE open_walk(t) \/ xfer_pos(t) \/ xfer_io(t) \/ xfer_store(t) \/ lseek_store(t)
      BY <1>1, <3>2 DEF open_walk, xfer_pos, xfer_io, xfer_store, lseek_store, Go, shared,
           locals, Owns, TypeOK
    <3>3. CASE \/ open_begin(t) \/ slot_scan(t) \/ slot_mark(t) \/ open_nomem(t)
               \/ close_read(t) \/ fget_lookup(t)
               \/ \E i \in Fds \cup {NoFd} : close_begin(t, i) \/ xfer_begin(t, i)
      <4>1. pc[t] \in {"idle", "scan", "mark", "alloc", "close_read", "fget"}
        BY <3>3 DEF open_begin, slot_scan, slot_mark, open_nomem, close_read, fget_lookup,
             close_begin, xfer_begin, Go, Return
      <4>2. PICK p \in {"scan", "mark", "alloc", "idle", "close_read", "close_clear", "fget",
                        "fget_inc"} :
              pc' = [pc EXCEPT ![t] = p]
        <5>1. CASE open_begin(t) \/ slot_mark(t) \/ open_nomem(t)
          BY <5>1 DEF open_begin, slot_mark, open_nomem, Go, Return
        <5>2. CASE slot_scan(t)
          BY <5>2 DEF slot_scan, Go
        <5>3. CASE close_read(t) \/ fget_lookup(t)
          BY <5>3 DEF close_read, fget_lookup, Go, Return
        <5>4. CASE \E i \in Fds \cup {NoFd} : close_begin(t, i) \/ xfer_begin(t, i)
          BY <5>4 DEF close_begin, xfer_begin, Go
        <5>5. QED
          BY <3>3, <5>1, <5>2, <5>3, <5>4
      <4>3. pc'[t] = p
        BY <1>1, <4>2 DEF TypeOK
      <4>4. QED
        BY <4>1, <4>2, <4>3 DEF Owns
    <3>4. QED
      BY <3>1, <3>2, <3>3 DEF Step, Continue
  <2>2. \A u \in Threads : Owns(u, f)' <=> Owns(u, f)
    BY <1>1, <2>1, OthersAreStill DEF Owns
  <2>3. QED
    BY <2>2 DEF Owners
<1>4. refcnt'[f] = refcnt[f]
  <2>1. CASE open_alloc(t)
    <3>1. PICK g \in Files : /\ refcnt' = [refcnt EXCEPT ![g] = ONEREF]
                             /\ file' = [file EXCEPT ![t] = g]
      BY <2>1 DEF open_alloc
    <3>2. file'[t] = g
      BY <1>1, <3>1 DEF TypeOK
    <3>3. g # f
      BY <2>1, <3>2 DEF Touches
    <3>4. QED
      BY <1>1, <3>1, <3>3 DEF TypeOK
  <2>2. CASE fget_inc(t)
    BY <1>1, <2>2 DEF fget_inc, RefInc, Touches, TypeOK
  <2>3. CASE close_put(t) \/ xfer_fput(t)
    <3>1. RefPut(file[t]) /\ file[t] # f
      BY <2>3 DEF close_put, xfer_fput, Touches
    <3>2. QED
      BY <1>1, <3>1 DEF RefPut, TypeOK
  <2>4. CASE ~open_alloc(t) /\ ~fget_inc(t) /\ ~close_put(t) /\ ~xfer_fput(t)
    BY <2>4
       DEF Step, Continue, open_begin, slot_scan, slot_mark, open_nomem, open_walk,
         open_fails, open_install, close_begin, close_read, close_clear, xfer_begin,
         fget_lookup, xfer_pos, xfer_io, xfer_store, lseek_store, shared
  <2>5. QED
    BY <2>1, <2>2, <2>3, <2>4
<1>5. life'[f] = life[f]
  BY <1>1, LivesChange DEF Touches
<1>6. f \in lost' <=> f \in lost
  BY <1>1, LostGrows DEF Touches
<1>7. QED
  BY <1>2, <1>3, <1>4, <1>5, <1>6

\* Each hand-over moves one reference, or gets or puts one.
LEMMA NextCounts ==
  ASSUME Table, Counts, CountsFit, undefined = {}, NEW t \in Threads, Step(t)
  PROVE  Counts'
<1>1. /\ TypeOK /\ NoFileYet /\ Unpublished /\ LostAreLive /\ NothingDangles
      /\ NULL \notin Files /\ FD_USED \notin Files /\ Files \cap Fds = {}
  BY DistinctEntries DEF Table
<1> SUFFICES ASSUME NEW f \in Files, life'[f] = "live"
             PROVE  Counted(f)'
  BY DEF Counts
<1>2. /\ IsFiniteSet(Owners(f)) /\ Cardinality(Owners(f)) \in Nat
      /\ Slots(f) = {} => Cardinality(Slots(f)) = 0
      /\ \A i \in Fds : table[i] = f => Cardinality(Slots(f)) = 1
  BY CountedSets
<1>3. refcnt[f] \in Nat
  BY <1>1, ScaleAssumption DEF TypeOK, Counter, NOREF
\* f changes hands: what its counted sets become.
<1>4. \A u \in Threads : u # t => (Owns(u, f)' <=> Owns(u, f))
  BY <1>1, OthersAreStill DEF Owns
<1>5. /\ Owns(t, f)' => Owners(f)' = Owners(f) \cup {t}
      /\ ~Owns(t, f)' => Owners(f)' = Owners(f) \ {t}
  BY <1>4 DEF Owners
<1>6. /\ ~Owns(t, f) /\ Owns(t, f)' => Cardinality(Owners(f)') = Cardinality(Owners(f)) + 1
      /\ Owns(t, f) /\ ~Owns(t, f)' => Cardinality(Owners(f)') = Cardinality(Owners(f)) - 1
  <2>1. t \in Owners(f) <=> Owns(t, f)
    BY DEF Owners
  <2>2. t \notin Owners(f) => Cardinality(Owners(f) \cup {t}) = Cardinality(Owners(f)) + 1
    BY <1>2, FS_AddElement
  <2>3. t \in Owners(f) => Cardinality(Owners(f) \ {t}) = Cardinality(Owners(f)) - 1
    BY <1>2, FS_RemoveElement
  <2>4. QED
    BY <1>5, <2>1, <2>2, <2>3
<1>7. (\A i \in Fds : table'[i] # f) => Cardinality(Slots(f)') = 0
  <2>1. (\A i \in Fds : table'[i] # f) => Slots(f)' = {}
    BY DEF Slots
  <2>2. QED
    BY <2>1, FS_EmptySet
<1>8. CASE ~Touches(t, f)
  BY <1>8, OthersCountTheSame DEF Counts, Counted
<1>9. CASE open_alloc(t) /\ file'[t] = f
  <2>1. /\ life[f] = "none" /\ refcnt'[f] = 0 /\ pc'[t] = "walk"
        /\ table' = table /\ lost' = lost
    BY <1>1, <1>9 DEF open_alloc, Go, ONEREF, TypeOK
  <2>2. (\A i \in Fds : table[i] # f) /\ \A u \in Threads : file[u] # f
    BY <1>1, <2>1 DEF NothingDangles, Slots
  <2>3. Cardinality(Slots(f)') = 0
    BY <1>7, <2>1, <2>2
  <2>4. Owners(f)' = {t}
    BY <1>4, <1>9, <2>1, <2>2 DEF Owners, Owns
  <2>5. Cardinality(Owners(f)') = 1
    BY <2>4, FS_Singleton
  <2>6. f \notin lost'
    BY <1>1, <2>1 DEF LostAreLive
  <2>7. QED
    BY <2>1, <2>3, <2>5, <2>6 DEF Counted
<1>10. CASE open_fails(t) /\ file[t] = f
  <2>1. /\ pc[t] = "walk" /\ pc'[t] = "idle" /\ table' = table
        /\ refcnt' = refcnt /\ life' = life /\ f \in lost'
    BY <1>1, <1>10, LostGrows DEF open_fails, Go, Return, TypeOK
  <2>2. Slots(f) = {} /\ f \notin lost
    BY <1>1, <1>10, <2>1 DEF Unpublished
  <2>3. Cardinality(Slots(f)) = 0 /\ Cardinality(Slots(f)') = 0
    BY <1>2, <1>7, <2>1, <2>2 DEF Slots
  <2>4. Cardinality(Owners(f)') = Cardinality(Owners(f)) - 1
    BY <1>6, <1>10, <2>1 DEF Owns
  <2>5. refcnt[f] + 1 = 0 + Cardinality(Owners(f)) + 0
    BY <2>1, <2>2, <2>3 DEF Counts, Counted
  <2>6. QED
    BY <1>2, <1>3, <2>1, <2>3, <2>4, <2>5 DEF Counted
<1>11. CASE open_install(t) /\ file[t] = f
  <2>1. /\ pc[t] = "install" /\ pc'[t] = "idle" /\ fd[t] \in Fds
        /\ table' = [table EXCEPT ![fd[t]] = f]
    BY <1>11, WritesOfTable DEF open_install, slot_mark, close_clear, Go, Return
  <2>2. refcnt' = refcnt /\ life' = life /\ lost' = lost
    BY <1>11 DEF open_install
  <2>3. Slots(f) = {} /\ f \notin lost
    BY <1>1, <1>11, <2>1 DEF Unpublished
  <2>4. Slots(f)' = {fd[t]}
    BY <1>1, <2>1, <2>3 DEF Slots, TypeOK
  <2>5. Cardinality(Slots(f)) = 0 /\ Cardinality(Slots(f)') = 1
    BY <1>2, <2>3, <2>4, FS_Singleton
  <2>6. Cardinality(Owners(f)') = Cardinality(Owners(f)) - 1
    BY <1>6, <1>11, <2>1 DEF Owns
  <2>7. refcnt[f] + 1 = 0 + Cardinality(Owners(f)) + 0
    BY <2>2, <2>3, <2>5 DEF Counts, Counted
  <2>8. QED
    BY <1>2, <1>3, <2>2, <2>3, <2>5, <2>6, <2>7 DEF Counted
<1>12. CASE close_clear(t) /\ file[t] = f
  <2>1. /\ pc[t] = "close_clear" /\ pc'[t] = "close_put" /\ fd[t] \in Fds
        /\ table[fd[t]] = f /\ table' = [table EXCEPT ![fd[t]] = NULL]
    BY <1>12, WritesOfTable DEF open_install, slot_mark, close_clear, Go, Return
  <2>2. refcnt' = refcnt /\ life' = life /\ lost' = lost /\ file' = file
    BY <1>12 DEF close_clear, locals
  <2>3. \A i \in Fds : table'[i] # f
    BY <1>1, <2>1 DEF NothingDangles, TypeOK
  <2>4. f \notin lost
    BY <1>1, <2>1 DEF LostAreLive, Slots
  <2>5. Cardinality(Slots(f)) = 1 /\ Cardinality(Slots(f)') = 0
    BY <1>2, <1>7, <2>1, <2>3
  <2>6. Cardinality(Owners(f)') = Cardinality(Owners(f)) + 1
    BY <1>6, <1>12, <2>1, <2>2 DEF Owns
  <2>7. refcnt[f] + 1 = 1 + Cardinality(Owners(f)) + 0
    BY <2>2, <2>4, <2>5 DEF Counts, Counted
  <2>8. QED
    BY <1>2, <1>3, <2>2, <2>4, <2>5, <2>6, <2>7 DEF Counted
<1>13. CASE fget_inc(t) /\ file[t] = f
  <2>1. table' = table /\ life' = life /\ lost' = lost /\ refcnt'[f] = refcnt[f] + 1
    BY <1>1, <1>13, GetsAndPuts DEF fget_inc, TypeOK
  <2>2. Slots(f)' = Slots(f) /\ Cardinality(Slots(f)) \in Nat
    BY <1>2, <2>1 DEF Slots
  <2>3. Counted(f) /\ f \notin lost
    BY <1>1, <1>13, <2>1 DEF Counts, LostAreLive
  <2>4. Cardinality(Owners(f)') = Cardinality(Owners(f)) + 1
    BY <1>1, <1>6, <1>13 DEF fget_inc, Go, locals, Owns, TypeOK
  <2>5. QED
    BY <1>2, <1>3, <2>1, <2>2, <2>3, <2>4 DEF Counted
<1>14. CASE (xfer_fput(t) \/ close_put(t)) /\ file[t] = f
  <2>1. table' = table /\ life' = life /\ lost' = lost /\ refcnt'[f] = refcnt[f] - 1
    BY <1>1, <1>14, GetsAndPuts DEF xfer_fput, close_put, TypeOK
  <2>2. Slots(f)' = Slots(f) /\ Cardinality(Slots(f)) \in Nat
    BY <1>2, <2>1 DEF Slots
  <2>3. Counted(f) /\ f \notin lost
    BY <1>1, <1>14, <2>1 DEF Counts, LostAreLive
  <2>4. Cardinality(Owners(f)') = Cardinality(Owners(f)) - 1
    BY <1>1, <1>6, <1>14 DEF xfer_fput, close_put, Go, Return, Owns, TypeOK
  <2>5. QED
    BY <1>2, <1>3, <2>1, <2>2, <2>3, <2>4 DEF Counted
<1>15. QED
  BY <1>8, <1>9, <1>10, <1>11, <1>12, <1>13, <1>14 DEF Touches

-----------------------------------------------------------------------------
(* The invariant, and what follows from it. *)

\* The empty table satisfies the invariant.
LEMMA InitIInv == CountsFit /\ Init => IInv
<1> SUFFICES ASSUME CountsFit, Init
             PROVE  IInv
  OBVIOUS
<1>1. TypeOK /\ NoFileYet
  BY InitTyped DEF Typed
<1>2. /\ NULL \notin Files /\ NULL # FD_USED
      /\ table = [i \in Fds |-> NULL] /\ lost = {} /\ undefined = {}
      /\ pc = [t \in Threads |-> "idle"] /\ file = [t \in Threads |-> NULL]
      /\ life = [f \in Files |-> "none"]
  BY DistinctEntries DEF Init
<1>3. ScanFinds /\ ReservedOnce /\ ClosesAlone /\ EntryStays
  BY <1>2 DEF ScanFinds, ReservedOnce, Reserving, ClosesAlone, Closing, ClosePc, XferPc, EntryStays
<1>4. Unpublished /\ LostAreLive
  BY <1>2 DEF Unpublished, LostAreLive
<1>5. NothingDangles
  BY <1>2 DEF NothingDangles, Slots
<1>6. Counts
  BY <1>2 DEF Counts
<1>7. QED
  BY <1>1, <1>2, <1>3, <1>4, <1>5, <1>6 DEF IInv, Table

\* Every step of callers that keep their promises keeps the invariant.
LEMMA NextIInv ==
  ASSUME PromisesKept, CountsFit
  PROVE  IInv /\ [Next]_vars => IInv'
<1> SUFFICES ASSUME IInv, [Next]_vars
             PROVE  IInv'
  OBVIOUS
<1>1. CASE Next
  <2>1. PICK t \in Threads : Step(t)
    BY <1>1 DEF Next, Step
  <2>2. Table /\ Counts /\ undefined = {}
    BY DEF IInv
  <2>3. Typed'
    BY <2>2, NextTyped DEF Table, Typed
  <2>4. ScanFinds' /\ ReservedOnce' /\ ClosesAlone' /\ EntryStays'
    BY <2>1, <2>2, NextScanFinds, NextReservedOnce, NextClosesAlone, NextEntryStays
  <2>5. Unpublished' /\ LostAreLive' /\ NothingDangles'
    BY <2>1, <2>2, NextUnpublished, NextLostAreLive, NextNothingDangles
  <2>6. Counts' /\ undefined' = {}
    BY <2>1, <2>2, NextCounts, NextUndefined
  <2>7. QED
    BY <2>3, <2>4, <2>5, <2>6 DEF IInv, Table, Typed
<1>2. CASE UNCHANGED vars
  <2>1. /\ TypeOK' <=> TypeOK
        /\ (ScanFinds /\ ReservedOnce /\ ClosesAlone /\ NoFileYet /\ EntryStays)'
           <=> (ScanFinds /\ ReservedOnce /\ ClosesAlone /\ NoFileYet /\ EntryStays)
    BY <1>2 DEF vars, shared, TypeOK, ScanFinds, ReservedOnce, Reserving, ClosesAlone, Closing,
         LookingUp, NoFileYet, EntryStays
  <2>2. (Unpublished /\ LostAreLive /\ NothingDangles)'
        <=> (Unpublished /\ LostAreLive /\ NothingDangles)
    BY <1>2 DEF vars, shared, Unpublished, OnlyOneWith, LostAreLive, NothingDangles, Slots
  <2>3. (Counts /\ undefined = {})' <=> (Counts /\ undefined = {})
    BY <1>2 DEF vars, shared, Counts, Counted, Slots, Owners, Owns
  <2>4. QED
    BY <2>1, <2>2, <2>3 DEF IInv, Table
<1>3. QED
  BY <1>1, <1>2

\* The invariant gives a reserved entry one open, counted.
LEMMA IInvOneReserver ==
  ASSUME IInv, NEW i \in Fds, table[i] = FD_USED, i \notin lost
  PROVE  Cardinality({t \in Threads : fd[t] = i /\ pc[t] \in {"alloc", "walk", "install"}}) = 1
<1>1. PICK t \in Threads : Reserving(t) /\ fd[t] = i
  BY DEF IInv, Table, ReservedOnce
<1>2. {u \in Threads : fd[u] = i /\ pc[u] \in {"alloc", "walk", "install"}} = {t}
  BY <1>1 DEF IInv, Table, ReservedOnce, Reserving
<1>3. QED
  BY <1>2, FS_Singleton

\* The invariant gives a file one entry, counted.
LEMMA IInvOneSlot ==
  ASSUME IInv, NEW f \in Files
  PROVE  Cardinality(Slots(f)) <= 1
<1>1. CASE Slots(f) = {}
  BY <1>1, FS_EmptySet
<1>2. CASE Slots(f) # {}
  <2>1. PICK i \in Fds : table[i] = f
    BY <1>2 DEF Slots
  <2>2. Slots(f) = {i}
    BY <2>1 DEF Slots, IInv, Table, NothingDangles
  <2>3. QED
    BY <2>2, FS_Singleton
<1>3. QED
  BY <1>1, <1>2

\* Every variable keeps its type, whatever callers promise: the counters stay
\* counters, a call works on a file it has, nothing but files and descriptors
\* is ever lost.
THEOREM FdTypeCorrect == Spec => []TypeOK
<1>1. Init => Typed
  BY InitTyped
<1>2. Typed /\ [Next]_vars => Typed'
  BY NextTyped
<1>3. Typed => TypeOK
  BY DEF Typed
<1>4. QED
  BY <1>1, <1>2, <1>3, PTL DEF Spec

\* Between callers that keep the four promises, the counter of every live
\* file is the number of entries and running calls that refer to it, and no
\* entry and no running call refers to a freed file.
THEOREM ReferencesAreCounted ==
  ASSUME PromisesKept, CountsFit
  PROVE  Spec => []CountsAreExact
<1>1. Init => IInv
  BY InitIInv
<1>2. IInv /\ [Next]_vars => IInv'
  BY NextIInv
<1>3. IInv => CountsAreExact
  BY DEF IInv, Table, Counts, Counted, NothingDangles, CountsAreExact
<1>4. QED
  BY <1>1, <1>2, <1>3, PTL DEF Spec

\* Between such callers no entry is reserved by two opens, and no file sits
\* in two entries: a descriptor is never given out twice.
THEOREM DescriptorsAreGivenOnce ==
  ASSUME PromisesKept, CountsFit
  PROVE  Spec => []DescriptorsAreUnique
<1>1. Init => IInv
  BY InitIInv
<1>2. IInv /\ [Next]_vars => IInv'
  BY NextIInv
<1>3. IInv => DescriptorsAreUnique
  BY IInvOneReserver, IInvOneSlot DEF DescriptorsAreUnique
<1>4. QED
  BY <1>1, <1>2, <1>3, PTL DEF Spec

\* Between such callers the code never does what it declares impossible: no
\* reference is taken on a released file, no put is one too many, no open
\* stores through a slot that was never filled in, and no descriptor is looked
\* for beyond the table.
THEOREM PromisesSuffice ==
  ASSUME PromisesKept, CountsFit
  PROVE  Spec => []NothingUndefined
<1>1. Init => IInv
  BY InitIInv
<1>2. IInv /\ [Next]_vars => IInv'
  BY NextIInv
<1>3. IInv => NothingUndefined
  BY DEF IInv, NothingUndefined
<1>4. QED
  BY <1>1, <1>2, <1>3, PTL DEF Spec
=============================================================================
