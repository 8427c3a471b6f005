------------------------------- MODULE FdTable -------------------------------
(***************************************************************************)
(* The file descriptor table of a task group and the calls that use it:    *)
(* open (slot_alloc, alloc_empty_file, namei_open, slot_finstall), close,  *)
(* read and write through fdget_pos / fdput_pos, and lseek                 *)
(* (file/filedesc.c, file/fd.c, api/{open,close,read,write,lseek}.c).      *)
(*                                                                         *)
(* file_lock is taken by __fget_light alone: close and open read and write *)
(* the table without it, so each of their accesses is an action of its     *)
(* own.  The counter of a file is FileRef's, one put in one step; that the *)
(* two-step put is as good as one is what FileRef shows.                   *)
(*                                                                         *)
(* The code asks its callers for nothing.  Promises says what callers do   *)
(* promise in a run, so that a run can say which promise is enough:        *)
(*   "open"  no two opens look for a slot at the same time                 *)
(*   "room"  open is called only while the table has a free entry          *)
(*   "range" a descriptor is an index of the table                         *)
(*   "close" nobody looks a descriptor up while close reads and clears it  *)
(*           (calls that have their reference may go on)                   *)
(***************************************************************************)
EXTENDS FileRefOps, FiniteSets

CONSTANTS
  Threads,
  Files,        \* struct file objects kzalloc can return
  NFds,         \* NR_OPEN_DEFAULT
  MaxPos,       \* bound: bytes transferred through one file
  Promises,   \* what the callers promise
  NoThread, NULL, FD_USED

Fds == 0 .. NFds - 1
\* slot->result_fd of a slot that was never filled in; as the argument of a
\* call, an int that is no index of the table.
NoFd == NFds

ASSUME FdAssumption ==
  /\ NFds \in Nat \ {0} /\ MaxPos \in Nat
  /\ Files \cap Fds = {}
  /\ Promises \subseteq {"open", "room", "range", "close"}
  /\ NoThread \notin Threads /\ NULL \notin Files /\ FD_USED \notin Files
  /\ NULL # FD_USED

VARIABLES
  table,        \* fdt->files
  file_lock,    \* owner of fdp->file_lock
  refcnt,       \* f_ref of each file
  life,         \* "none" before kzalloc, "live", "freed" after file_free
  f_pos,        \* f_pos of each file
  moved,        \* history: bytes transferred through each file
  pc, fd, file, \* where a thread is, the descriptor and file it works on
  pos,          \* its copy of f_pos
  overlap,      \* history: files two calls used f_pos of at a time
  lost,         \* history: slots and files of opens that failed
  undefined     \* what the code did that it declares impossible, or that C does

shared == <<table, file_lock, refcnt, life, f_pos, moved, overlap, lost, undefined>>
vars == <<shared, pc, fd, file, pos>>

OpenPc  == {"scan", "mark", "alloc", "walk", "install"}
ClosePc == {"close_read", "close_clear", "close_put"}
XferPc  == {"fget", "fget_inc", "pos", "io", "store", "fput"}

Init ==
  /\ table = [i \in Fds |-> NULL]
  /\ file_lock = NoThread
  /\ refcnt = [f \in Files |-> 0]
  /\ life = [f \in Files |-> "none"]
  /\ f_pos = [f \in Files |-> 0]
  /\ moved = [f \in Files |-> 0]
  /\ pc = [t \in Threads |-> "idle"]
  /\ fd = [t \in Threads |-> NoFd]
  /\ file = [t \in Threads |-> NULL]
  /\ pos = [t \in Threads |-> 0]
  /\ overlap = {}
  /\ lost = {}
  /\ undefined = {}

-----------------------------------------------------------------------------
(* The promises of the callers.                                            *)

\* Thread t is about to read entry i for close and to clear it; or it looks
\* the entry up for a transfer and has no reference yet.
Closing(t, i) == fd[t] = i /\ pc[t] \in {"close_read", "close_clear"}
LookingUp(t, i) == fd[t] = i /\ pc[t] \in {"fget", "fget_inc"}

InRange(i) == "range" \in Promises => i \in Fds

MayOpen ==
  /\ "open" \in Promises => \A u \in Threads : pc[u] \notin {"scan", "mark"}
  /\ "room" \in Promises => \E i \in Fds : table[i] = NULL

MayClose(i) ==
  /\ InRange(i)
  /\ "close" \in Promises => \A u \in Threads : ~Closing(u, i) /\ ~LookingUp(u, i)

MayTransfer(i) ==
  /\ InRange(i)
  /\ "close" \in Promises => \A u \in Threads : ~Closing(u, i)

-----------------------------------------------------------------------------
(* Control.                                                                *)

\* Thread t goes from one program point to another.
Go(t, from, to) ==
  /\ undefined = {}
  /\ pc[t] = from
  /\ pc' = [pc EXCEPT ![t] = to]

\* It returns to its caller and forgets its locals.
Return(t, from) ==
  /\ Go(t, from, "idle")
  /\ fd' = [fd EXCEPT ![t] = NoFd]
  /\ file' = [file EXCEPT ![t] = NULL]
  /\ pos' = [pos EXCEPT ![t] = 0]

locals == <<fd, file, pos>>

-----------------------------------------------------------------------------
(* vfs_openat_api                                                          *)

open_begin(t) ==
  /\ MayOpen
  /\ Go(t, "idle", "scan")
  /\ fd' = [fd EXCEPT ![t] = 0]
  /\ UNCHANGED <<shared, file, pos>>

\* Mutant: a reserved entry is taken for a free one.
slot_scan_reserved(t) ==
  /\ pc[t] = "scan"
  /\ \/ /\ fd[t] # NoFd /\ table[fd[t]] \notin Files
        /\ Go(t, "scan", "mark")
        /\ UNCHANGED fd
     \/ /\ fd[t] # NoFd /\ table[fd[t]] \in Files
        /\ Go(t, "scan", "scan")
        /\ fd' = [fd EXCEPT ![t] = @ + 1]
     \/ /\ fd[t] = NoFd
        /\ Go(t, "scan", "alloc")
        /\ UNCHANGED fd
  /\ UNCHANGED <<shared, file, pos>>

\* One turn of filedesc_slot_alloc's loop.  A table with no free entry ends
\* the loop, and the call still succeeds: slot is left as it was.
slot_scan(t) ==
  /\ pc[t] = "scan"
  /\ \/ /\ fd[t] # NoFd /\ table[fd[t]] = NULL
        /\ Go(t, "scan", "mark")
        /\ UNCHANGED fd
     \/ /\ fd[t] # NoFd /\ table[fd[t]] # NULL
        /\ Go(t, "scan", "scan")
        /\ fd' = [fd EXCEPT ![t] = @ + 1]
     \/ /\ fd[t] = NoFd
        /\ Go(t, "scan", "alloc")
        /\ UNCHANGED fd
  /\ UNCHANGED <<shared, file, pos>>

slot_mark(t) ==
  /\ Go(t, "mark", "alloc")
  /\ table' = [table EXCEPT ![fd[t]] = FD_USED]
  /\ UNCHANGED <<file_lock, refcnt, life, f_pos, moved, overlap, lost, undefined, locals>>

\* alloc_empty_file
open_alloc(t) ==
  /\ Go(t, "alloc", "walk")
  /\ \E f \in Files :
       /\ life[f] = "none"
       /\ life' = [life EXCEPT ![f] = "live"]
       /\ refcnt' = [refcnt EXCEPT ![f] = ONEREF]
       /\ file' = [file EXCEPT ![t] = f]
  /\ UNCHANGED <<table, file_lock, f_pos, moved, overlap, lost, undefined, fd, pos>>

\* kzalloc fails; filedesc_slot_free is empty and the slot stays FD_USED.
open_nomem(t) ==
  /\ Return(t, "alloc")
  /\ lost' = lost \cup ({fd[t]} \cap Fds)
  /\ UNCHANGED <<table, file_lock, refcnt, life, f_pos, moved, overlap, undefined>>

open_walk(t) == Go(t, "walk", "install") /\ UNCHANGED <<shared, locals>>

\* namei_open fails: neither the file nor the slot is given back.
open_fails(t) ==
  /\ Return(t, "walk")
  /\ lost' = lost \cup {file[t]} \cup ({fd[t]} \cap Fds)
  /\ UNCHANGED <<table, file_lock, refcnt, life, f_pos, moved, overlap, undefined>>

\* filedesc_slot_finstall, through slot->fdt and slot->result_fd.
open_install(t) ==
  /\ Return(t, "install")
  /\ \/ /\ fd[t] \in Fds
        /\ table' = [table EXCEPT ![fd[t]] = file[t]]
        /\ UNCHANGED undefined
     \/ /\ fd[t] = NoFd
        /\ undefined' = undefined \cup {"wild slot"}
        /\ UNCHANGED table
  /\ UNCHANGED <<file_lock, refcnt, life, f_pos, moved, overlap, lost>>

-----------------------------------------------------------------------------
(* file_ref_inc and the whole of file_ref_put, on file f.                  *)

RefInc(f) ==
  /\ refcnt' = [refcnt EXCEPT ![f] = Inc(@)]
  /\ undefined' = undefined \cup
       IF IsNegative(refcnt[f]) THEN {"inc on released"} ELSE {}
  /\ UNCHANGED life

RefPut(f) ==
  LET cnt == Dec(refcnt[f])
  IN \/ /\ ~IsNegative(cnt)
        /\ refcnt' = [refcnt EXCEPT ![f] = cnt]
        /\ UNCHANGED <<life, undefined>>
     \/ /\ cnt = NOREF                          \* __fput
        /\ refcnt' = [refcnt EXCEPT ![f] = DEAD]
        /\ life' = [life EXCEPT ![f] = "freed"]
        /\ UNCHANGED undefined
     \/ /\ IsNegative(cnt) /\ cnt # NOREF      \* __file_ref_put_badval
        /\ refcnt' = [refcnt EXCEPT ![f] = IF cnt >= RELEASED THEN DEAD ELSE SATURATED]
        /\ undefined' = undefined \cup
             IF cnt >= RELEASED THEN {"imbalanced put"} ELSE {}
        /\ UNCHANGED life

-----------------------------------------------------------------------------
(* vfs_close_api: filedesc_file_get(.., true) reads the entry and clears   *)
(* it, without file_lock; fput_close_sync follows.  No caller of           *)
(* filedesc_file_get, nor itself, compares fd with the size of the table.  *)

close_begin(t, i) ==
  /\ MayClose(i)
  /\ Go(t, "idle", "close_read")
  /\ fd' = [fd EXCEPT ![t] = i]
  /\ UNCHANGED <<shared, file, pos>>

close_read(t) ==
  /\ pc[t] = "close_read"
  /\ \/ /\ fd[t] \in Fds /\ table[fd[t]] \in Files
        /\ Go(t, "close_read", "close_clear")
        /\ file' = [file EXCEPT ![t] = table[fd[t]]]
        /\ UNCHANGED <<fd, pos, undefined>>
     \/ /\ fd[t] \in Fds /\ table[fd[t]] \in {NULL, FD_USED}     \* -EBADF
        /\ Return(t, "close_read")
        /\ UNCHANGED undefined
     \/ /\ fd[t] \notin Fds
        /\ Return(t, "close_read")
        /\ undefined' = undefined \cup {"out of bounds"}
  /\ UNCHANGED <<table, file_lock, refcnt, life, f_pos, moved, overlap, lost>>

\* Mutant: close leaves the entry in the table.
close_clear_forgotten(t) ==
  /\ Go(t, "close_clear", "close_put")
  /\ UNCHANGED <<shared, locals>>

close_clear(t) ==
  /\ Go(t, "close_clear", "close_put")
  /\ table' = [table EXCEPT ![fd[t]] = NULL]
  /\ UNCHANGED <<file_lock, refcnt, life, f_pos, moved, overlap, lost, undefined, locals>>

close_put(t) ==
  /\ Return(t, "close_put")
  /\ RefPut(file[t])
  /\ UNCHANGED <<table, file_lock, f_pos, moved, overlap, lost>>

-----------------------------------------------------------------------------
(* vfs_read_api and vfs_write_api, which have the same shape: fdget_pos,   *)
(* copy f_pos, transfer, store f_pos unless the transfer failed, fdput.    *)
(* vfs_lseek_api is in the same frame.                                     *)

xfer_begin(t, i) ==
  /\ MayTransfer(i)
  /\ Go(t, "idle", "fget")
  /\ fd' = [fd EXCEPT ![t] = i]
  /\ UNCHANGED <<shared, file, pos>>

\* Mutant: -EBADF is returned with file_lock held.
fget_lookup_locked(t) ==
  /\ pc[t] = "fget" /\ file_lock = NoThread
  /\ file_lock' = t
  /\ \/ /\ fd[t] \in Fds /\ table[fd[t]] \in Files
        /\ Go(t, "fget", "fget_inc")
        /\ file' = [file EXCEPT ![t] = table[fd[t]]]
        /\ UNCHANGED <<fd, pos>>
     \/ /\ fd[t] \in Fds /\ table[fd[t]] \in {NULL, FD_USED}
        /\ Return(t, "fget")
  /\ UNCHANGED <<table, refcnt, life, f_pos, moved, overlap, lost, undefined>>

\* __fget_light, with file_lock taken: filedesc_file_get(.., false) ...
fget_lookup(t) ==
  /\ pc[t] = "fget" /\ file_lock = NoThread
  /\ \/ /\ fd[t] \in Fds /\ table[fd[t]] \in Files
        /\ Go(t, "fget", "fget_inc")
        /\ file' = [file EXCEPT ![t] = table[fd[t]]]
        /\ file_lock' = t
        /\ UNCHANGED <<fd, pos, undefined>>
     \/ /\ fd[t] \in Fds /\ table[fd[t]] \in {NULL, FD_USED}
        /\ Return(t, "fget")
        /\ UNCHANGED <<file_lock, undefined>>
     \/ /\ fd[t] \notin Fds
        /\ Return(t, "fget")
        /\ undefined' = undefined \cup {"out of bounds"}
        /\ UNCHANGED file_lock
  /\ UNCHANGED <<table, refcnt, life, f_pos, moved, overlap, lost>>

\* Mutant: no get_file under the lock.
fget_inc_forgotten(t) ==
  /\ Go(t, "fget_inc", "pos")
  /\ file_lock' = NoThread
  /\ UNCHANGED <<table, refcnt, life, f_pos, moved, overlap, lost, undefined, locals>>

\* ... get_file, and the unlock.
fget_inc(t) ==
  /\ Go(t, "fget_inc", "pos")
  /\ RefInc(file[t])
  /\ file_lock' = NoThread
  /\ overlap' = overlap \cup
       {file[u] : u \in {v \in Threads : file[v] = file[t] /\ pc[v] \in {"pos", "io", "store"}}}
  /\ UNCHANGED <<table, f_pos, moved, lost, locals>>

xfer_pos(t) ==
  /\ Go(t, "pos", "io")
  /\ pos' = [pos EXCEPT ![t] = f_pos[file[t]]]
  /\ UNCHANGED <<shared, fd, file>>

\* do_read or do_write moves a byte, or fails and leaves f_pos alone.
xfer_io(t) ==
  \/ /\ Go(t, "io", "store")
     /\ pos[t] < MaxPos /\ moved[file[t]] < MaxPos
     /\ moved' = [moved EXCEPT ![file[t]] = @ + 1]
     /\ pos' = [pos EXCEPT ![t] = @ + 1]
     /\ UNCHANGED <<table, file_lock, refcnt, life, f_pos, overlap, lost, undefined, fd, file>>
  \/ /\ Go(t, "io", "fput")
     /\ UNCHANGED <<shared, locals>>

\* Mutant: the new position is not stored.
xfer_store_forgotten(t) ==
  /\ Go(t, "store", "fput")
  /\ UNCHANGED <<shared, locals>>

xfer_store(t) ==
  /\ Go(t, "store", "fput")
  /\ f_pos' = [f_pos EXCEPT ![file[t]] = pos[t]]
  /\ UNCHANGED <<table, file_lock, refcnt, life, moved, overlap, lost, undefined, locals>>

\* vfs_lseek_api has the same frame; the file system's llseek stores f_pos
\* itself (a rewind here), or refuses.
lseek_store(t) ==
  /\ Go(t, "pos", "fput")
  /\ \/ /\ f_pos' = [f_pos EXCEPT ![file[t]] = 0]
        /\ moved' = [moved EXCEPT ![file[t]] = 0]
     \/ UNCHANGED <<f_pos, moved>>
  /\ UNCHANGED <<table, file_lock, refcnt, life, overlap, lost, undefined, locals>>

\* Mutant: a path out of read without fdput.
xfer_fput_forgotten(t) ==
  /\ Return(t, "fput")
  /\ UNCHANGED shared

\* fdput_pos, __fput_sync
xfer_fput(t) ==
  /\ Return(t, "fput")
  /\ RefPut(file[t])
  /\ UNCHANGED <<table, file_lock, f_pos, moved, overlap, lost>>

-----------------------------------------------------------------------------

\* A step of a call that has begun.
Continue(t) ==
  \/ slot_scan(t) \/ slot_mark(t) \/ open_alloc(t) \/ open_nomem(t)
  \/ open_walk(t) \/ open_fails(t) \/ open_install(t)
  \/ close_read(t) \/ close_clear(t) \/ close_put(t)
  \/ fget_lookup(t) \/ fget_inc(t)
  \/ xfer_pos(t) \/ xfer_io(t) \/ xfer_store(t) \/ lseek_store(t)
  \/ xfer_fput(t)

Next ==
  \E t \in Threads :
    \/ open_begin(t)
    \/ \E i \in Fds \cup {NoFd} : close_begin(t, i) \/ xfer_begin(t, i)
    \/ Continue(t)

Spec == Init /\ [][Next]_vars

\* A call that has begun goes on: nothing in it waits but for file_lock, and
\* that is a spinlock held for two steps.
FairSpec == Spec /\ \A t \in Threads : SF_vars(Continue(t))

-----------------------------------------------------------------------------

UndefinedKinds == {"inc on released", "imbalanced put", "wild slot", "out of bounds"}

TypeOK ==
  /\ table \in [Fds -> Files \cup {NULL, FD_USED}]
  /\ file_lock \in Threads \cup {NoThread}
  /\ refcnt \in [Files -> Counter]
  /\ life \in [Files -> {"none", "live", "freed"}]
  /\ f_pos \in [Files -> 0 .. MaxPos] /\ moved \in [Files -> 0 .. MaxPos]
  /\ pc \in [Threads -> {"idle"} \cup OpenPc \cup ClosePc \cup XferPc]
  /\ fd \in [Threads -> Fds \cup {NoFd}]
  /\ file \in [Threads -> Files \cup {NULL}]
  /\ pos \in [Threads -> 0 .. MaxPos]
  /\ overlap \subseteq Files /\ lost \subseteq Fds \cup Files
  /\ undefined \subseteq UndefinedKinds

\* A thread owns a reference from the moment it created or took it until the
\* put.
Owns(t, f) ==
  /\ file[t] = f
  /\ pc[t] \in {"walk", "install", "close_put",
                "pos", "io", "store", "fput"}

Slots(f) == {i \in Fds : table[i] = f}
Owners(f) == {t \in Threads : Owns(t, f)}

\* The counter of every live file is the number of table entries and running
\* calls that refer to it (one leaked by an open that failed keeps its one),
\* and no entry and no running call refers to a freed file.
CountsAreExact ==
  /\ TypeOK
  /\ \A f \in Files :
       /\ life[f] = "live" =>
            refcnt[f] + 1 = Cardinality(Slots(f)) + Cardinality(Owners(f))
                            + (IF f \in lost THEN 1 ELSE 0)
       /\ life[f] = "freed" => Slots(f) = {} /\ \A t \in Threads : file[t] # f

\* A reserved entry belongs to the one open that reserved it, or to one that
\* failed, and a file to one descriptor: no descriptor is given out twice and
\* no open overwrites an entry in use.
DescriptorsAreUnique ==
  /\ \A i \in Fds : table[i] = FD_USED =>
       \/ i \in lost
       \/ Cardinality({t \in Threads : fd[t] = i /\ pc[t] \in {"alloc", "walk", "install"}}) = 1
  /\ \A f \in Files : Cardinality(Slots(f)) <= 1

\* The position of a file accounts for every byte moved, unless two calls on
\* the file overlapped: nothing locks f_pos.
PositionIsExact ==
  \A f \in Files \ overlap :
    (\A t \in Threads : file[t] # f) => f_pos[f] = moved[f]

\* file_ref_inc never runs on a released reference (the WARN of file_ref.h).
NoIncOnReleased == "inc on released" \notin undefined

\* Callers that keep the four promises never get the kernel to do what it
\* declares impossible or what C leaves undefined: no get on a released
\* reference, no imbalanced put (the WARN of file.c), no store through a slot
\* that was never filled in, no read beyond the table.
NothingUndefined == undefined = {}

\* Once its descriptor is gone a file is freed, however many transfers still
\* run on it when close clears its entry (the last of them frees it, or close
\* does); only failed opens keep theirs.
ClosedFilesAreFreed ==
  \A f \in Files :
    (life[f] = "live" /\ f \notin lost /\ Slots(f) = {}) ~>
      (life[f] = "freed" \/ f \in lost \/ Slots(f) # {})

\* No call blocks for ever on the table: file_lock is released on every path
\* that took it.
CallsReturn == \A t \in Threads : pc[t] # "idle" ~> pc[t] = "idle"

=============================================================================
