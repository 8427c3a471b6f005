------------------------------ MODULE DirRead -------------------------------
(***************************************************************************)
(* getdents on one open directory (api/readdir.c, libfs/dir.c): iterate_dir*)
(* under the shared i_rwsem, filldir packing records into the user's       *)
(* buffer, the position f_pos that every call on the file shares, against  *)
(* calls that add and remove names or the directory itself under the       *)
(* exclusive lock (their steps are in DirOps).                             *)
(*                                                                         *)
(* A name is its offset in the directory: "." is 0, ".." is 1, and a file  *)
(* system gives each new name the next offset and never moves one.  That   *)
(* iterate_shared is called with the position of the first name to emit,   *)
(* passes ctx->pos as the offset and moves it on after each one that fits, *)
(* is what dir_emit_dots does and readdir.c relies on.                     *)
(***************************************************************************)
EXTENDS Naturals, Sequences, FiniteSets

CONSTANTS
  Threads,
  MaxOffset,   \* bound: offsets of the directory
  Counts,      \* sizes of buffers, in the unit of Reclen
  Reclen,      \* length of the record of a name
  Bad,         \* names verify_dirent_name refuses
  MaxCalls,    \* bound: getdents calls
  Faults,      \* whether user memory, the file system and waits may fail
  NoThread

Offsets == 0 .. MaxOffset - 1
Dots == {0, 1}

ASSUME ReadAssumption ==
  /\ MaxOffset \in Nat /\ MaxOffset > 2
  /\ Counts \subseteq Nat
  /\ Reclen \in [Offsets -> Nat \ {0}]
  /\ Bad \subseteq Offsets \ Dots
  /\ MaxCalls \in Nat /\ Faults \in BOOLEAN
  /\ NoThread \notin Threads

VARIABLES
  there,       \* the names in the directory, but "." and ".."
  next,        \* the offset the next new name gets
  dead,        \* S_DEAD
  owner, readers,      \* of the directory's i_rwsem
  f_pos,
  pc,
  from,        \* f_pos when the call read it
  pos,         \* ctx.pos
  count,       \* buf.count: the room left
  dirent,      \* the records in the user's buffer
  error,       \* buf.error, then what the call returns if it has no record
  calls,       \* bound: getdents calls that have begun
  given,       \* history: names some call returned
  again,       \* history: names returned when they had been already
  lost,        \* history: names in buffers whose call returned EFAULT
  disturbed    \* history: two calls overlapped, or llseek moved f_pos

dir == <<there, next, dead>>
rwsem == <<owner, readers>>
buf == <<from, pos, count, dirent, error>>
history == <<given, again, lost, disturbed>>
vars == <<dir, rwsem, f_pos, pc, buf, calls, history>>

Init ==
  /\ \E n \in 2 .. MaxOffset : next = n /\ there = 2 .. n - 1
  /\ dead = FALSE
  /\ owner = NoThread /\ readers = {}
  /\ f_pos = 0
  /\ pc = [t \in Threads |-> "idle"]
  /\ from = [t \in Threads |-> 0] /\ pos = [t \in Threads |-> 0]
  /\ count = [t \in Threads |-> 0]
  /\ dirent = [t \in Threads |-> << >>]
  /\ error = [t \in Threads |-> "none"]
  /\ calls = 0
  /\ given = {} /\ again = {} /\ lost = {}
  /\ disturbed = FALSE

Go(t, a, b) == pc[t] = a /\ pc' = [pc EXCEPT ![t] = b]

Listed == Dots \cup there

-----------------------------------------------------------------------------
(* iterate_dir.                                                            *)

\* __getdents: the descriptor names the file (FdTable), the buffer is empty.
getdents(t) ==
  /\ Go(t, "idle", "lock")
  /\ calls < MaxCalls
  /\ calls' = calls + 1
  /\ \E n \in Counts : count' = [count EXCEPT ![t] = n]
  /\ pos' = [pos EXCEPT ![t] = 0] /\ from' = [from EXCEPT ![t] = 0]
  /\ dirent' = [dirent EXCEPT ![t] = << >>]
  /\ error' = [error EXCEPT ![t] = "none"]
  /\ UNCHANGED <<dir, rwsem, f_pos, history>>

\* A reader that does not wait (mutant).
lock_shared_any(t) ==
  /\ Go(t, "lock", "start")
  /\ readers' = readers \cup {t}
  /\ UNCHANGED <<dir, owner, f_pos, buf, calls, history>>

lock_shared(t) ==
  /\ Go(t, "lock", "start")
  /\ owner = NoThread
  /\ readers' = readers \cup {t}
  /\ UNCHANGED <<dir, owner, f_pos, buf, calls, history>>

\* down_read_killable: a task that is killed while it waits gives up.
lock_killed(t) ==
  /\ Faults
  /\ Go(t, "lock", "finish")
  /\ error' = [error EXCEPT ![t] = "EINTR"]
  /\ UNCHANGED <<dir, rwsem, f_pos, from, pos, count, dirent, calls, history>>

start_dead(t) ==
  /\ dead
  /\ Go(t, "start", "unlock")
  /\ error' = [error EXCEPT ![t] = "ENOENT"]
  /\ UNCHANGED <<dir, rwsem, f_pos, from, pos, count, dirent, calls, history>>

\* Between the read of f_pos and its store a call may overlap another.
AtWork(t) == pc[t] \in {"emit", "store"}

start(t) ==
  /\ ~dead
  /\ Go(t, "start", "emit")
  /\ from' = [from EXCEPT ![t] = f_pos]
  /\ pos' = [pos EXCEPT ![t] = f_pos]
  /\ disturbed' = (disturbed \/ \E u \in Threads : AtWork(u))
  /\ UNCHANGED <<dir, rwsem, f_pos, count, dirent, error, calls, given, again, lost>>

-----------------------------------------------------------------------------
(* iterate_shared (external) calls filldir for each name from ctx->pos on. *)

\* The name that comes next, and where the iteration stands for it.
Coming(t, o) == o \in Listed /\ o >= pos[t] /\ \A n \in Listed : n < o => n < pos[t]

\* The record before gets the offset of this one as its d_off.
Packed(t, o) ==
  LET n == Len(dirent[t]) IN
  Append([i \in 1 .. n |->
            IF i = n THEN [dirent[t][i] EXCEPT !.d_off = o] ELSE dirent[t][i]],
         [name |-> o, d_off |-> o])

\* A name that fits: error is left at EINVAL "only used if we fail".
filldir(t) ==
  \E o \in Listed \ Bad :
    /\ Coming(t, o)
    /\ Go(t, "emit", "emit")
    /\ Reclen[o] <= count[t]
    /\ dirent' = [dirent EXCEPT ![t] = Packed(t, o)]
    /\ count' = [count EXCEPT ![t] = @ - Reclen[o]]
    /\ error' = [error EXCEPT ![t] = "EINVAL"]
    /\ pos' = [pos EXCEPT ![t] = o + 1]
    /\ UNCHANGED <<dir, rwsem, f_pos, from, calls, history>>

\* What does not fit is taken for the end (mutant).
filldir_stops_quietly(t) ==
  \E o \in Listed :
    /\ Coming(t, o)
    /\ Go(t, "emit", "store")
    /\ o \in Bad \/ Reclen[o] > count[t]
    /\ pos' = [pos EXCEPT ![t] = o]
    /\ UNCHANGED <<dir, rwsem, f_pos, from, count, dirent, error, calls, history>>

\* ctx->pos moves past the name that did not fit (mutant).
filldir_stops_past(t) ==
  \E o \in Listed :
    /\ Coming(t, o)
    /\ Go(t, "emit", "store")
    /\ o \in Bad \/ Reclen[o] > count[t]
    /\ error' = [error EXCEPT ![t] = "EINVAL"]
    /\ pos' = [pos EXCEPT ![t] = o + 1]
    /\ UNCHANGED <<dir, rwsem, f_pos, from, count, dirent, calls, history>>

\* filldir stops the iteration at a name that is malformed or does not fit,
\* at one it cannot copy, or after a signal if it has a record already.
filldir_stops(t) ==
  \E o \in Listed :
    /\ Coming(t, o)
    /\ Go(t, "emit", "store")
    /\ \/ o \in Bad /\ error' = [error EXCEPT ![t] = "EIO"]
       \/ /\ o \notin Bad
          /\ Reclen[o] > count[t] \/ (Faults /\ dirent[t] # << >>)
          /\ error' = [error EXCEPT ![t] = "EINVAL"]
       \/ /\ Faults /\ o \notin Bad /\ Reclen[o] <= count[t]
          /\ error' = [error EXCEPT ![t] = "EFAULT"]
    /\ pos' = [pos EXCEPT ![t] = o]
    /\ UNCHANGED <<dir, rwsem, f_pos, from, count, dirent, calls, history>>

\* No more names.
iterate_ends(t) ==
  /\ \A o \in Listed : o < pos[t]
  /\ Go(t, "emit", "store")
  /\ UNCHANGED <<dir, rwsem, f_pos, buf, calls, history>>

\* The file system fails between two names.
iterate_fails(t) ==
  /\ Faults
  /\ Go(t, "emit", "store")
  /\ error' = [error EXCEPT ![t] = "EIO"]
  /\ UNCHANGED <<dir, rwsem, f_pos, from, pos, count, dirent, calls, history>>

-----------------------------------------------------------------------------

\* f_pos keeps its old value (mutant).
store_pos_forgotten(t) ==
  /\ Go(t, "store", "unlock")
  /\ UNCHANGED <<dir, rwsem, f_pos, buf, calls, history>>

\* file->f_pos = ctx->pos, whatever iterate_shared returned.
store_pos(t) ==
  /\ Go(t, "store", "unlock")
  /\ f_pos' = pos[t]
  /\ UNCHANGED <<dir, rwsem, buf, calls, history>>

\* ENOENT without inode_unlock_shared (mutant).
unlock_shared_leaks(t) ==
  /\ Go(t, "unlock", "finish")
  /\ readers' = IF error[t] = "ENOENT" THEN readers ELSE readers \ {t}
  /\ UNCHANGED <<dir, owner, f_pos, buf, calls, history>>

unlock_shared(t) ==
  /\ Go(t, "unlock", "finish")
  /\ readers' = readers \ {t}
  /\ UNCHANGED <<dir, owner, f_pos, buf, calls, history>>

Names(t) == {dirent[t][i].name : i \in DOMAIN dirent[t]}

\* __getdents with a record at least: it forgets the error, whatever it was,
\* unless the last d_off cannot be stored.  The call's locals are gone.
finish(t) ==
  /\ Go(t, "finish", "idle")
  /\ \/ /\ dirent[t] # << >>
        /\ given' = given \cup Names(t)
        /\ again' = again \cup (given \cap Names(t))
        /\ UNCHANGED lost
     \/ /\ Faults /\ dirent[t] # << >>
        /\ lost' = lost \cup Names(t)
        /\ UNCHANGED <<given, again>>
     \/ /\ dirent[t] = << >>
        /\ UNCHANGED <<given, again, lost>>
  /\ from' = [from EXCEPT ![t] = 0] /\ pos' = [pos EXCEPT ![t] = 0]
  /\ count' = [count EXCEPT ![t] = 0]
  /\ dirent' = [dirent EXCEPT ![t] = << >>]
  /\ error' = [error EXCEPT ![t] = "none"]
  /\ UNCHANGED <<dir, rwsem, f_pos, calls, disturbed>>

-----------------------------------------------------------------------------
(* The other calls.                                                        *)

\* f_op->llseek back to the start takes no lock (fdget_pos takes none).
llseek(t) ==
  /\ pc[t] = "idle"
  /\ f_pos # 0
  /\ f_pos' = 0
  /\ disturbed' = TRUE
  /\ UNCHANGED <<dir, rwsem, pc, buf, calls, given, again, lost>>

lock_excl(t) ==
  /\ Go(t, "idle", "change")
  /\ owner = NoThread /\ readers = {}
  /\ owner' = t
  /\ UNCHANGED <<dir, readers, f_pos, buf, calls, history>>

\* A create, an unlink, or the rmdir of the directory once it is empty.
change(t) ==
  /\ Go(t, "change", "unlock_excl")
  /\ \/ /\ ~dead /\ next < MaxOffset
        /\ there' = there \cup {next} /\ next' = next + 1
        /\ UNCHANGED dead
     \/ /\ \E o \in there : there' = there \ {o}
        /\ UNCHANGED <<next, dead>>
     \/ /\ there = {}
        /\ dead' = TRUE
        /\ UNCHANGED <<there, next>>
  /\ UNCHANGED <<rwsem, f_pos, buf, calls, history>>

unlock_excl(t) ==
  /\ Go(t, "unlock_excl", "idle")
  /\ owner' = NoThread
  /\ UNCHANGED <<dir, readers, f_pos, buf, calls, history>>

Continue(t) ==
  \/ lock_shared(t) \/ lock_killed(t)
  \/ start_dead(t) \/ start(t)
  \/ filldir(t) \/ filldir_stops(t) \/ iterate_ends(t) \/ iterate_fails(t)
  \/ store_pos(t) \/ unlock_shared(t) \/ finish(t)
  \/ change(t) \/ unlock_excl(t)

Next == \E t \in Threads : getdents(t) \/ llseek(t) \/ lock_excl(t) \/ Continue(t)

Spec == Init /\ [][Next]_vars

\* A call goes on; the writers of the rwsem come and go, and a reader that
\* may have it again and again gets it.
FairSpec == Spec /\ \A t \in Threads : SF_vars(Continue(t))

-----------------------------------------------------------------------------

TypeOK ==
  /\ there \subseteq 2 .. next - 1 /\ next \in 2 .. MaxOffset
  /\ dead \in BOOLEAN
  /\ owner \in Threads \cup {NoThread} /\ readers \subseteq Threads
  /\ owner # NoThread => readers = {}
  /\ f_pos \in 0 .. MaxOffset
  /\ pc \in [Threads -> {"idle", "lock", "start", "emit", "store", "unlock",
                         "finish", "change", "unlock_excl"}]
  /\ from \in [Threads -> 0 .. MaxOffset] /\ pos \in [Threads -> 0 .. MaxOffset]
  /\ count \in [Threads -> Nat]
  /\ dirent \in [Threads -> Seq([name : Offsets, d_off : Offsets])]
  /\ error \in [Threads -> {"none", "EINTR", "ENOENT", "EINVAL", "EIO", "EFAULT"}]
  /\ calls \in 0 .. MaxCalls
  /\ given \subseteq Offsets /\ again \subseteq given /\ lost \subseteq Offsets
  /\ disturbed \in BOOLEAN

\* While it holds the lock, a call's records are a snapshot of a directory
\* that is alive: every name from where it started up to ctx->pos and no
\* other, in order, each d_off leading to the next record; however names come
\* and go before and after.
ListingIsASnapshot ==
  \A t \in Threads : AtWork(t) =>
    /\ ~dead
    /\ Names(t) = {o \in Listed : from[t] <= o /\ o < pos[t]}
    /\ \A i \in 1 .. Len(dirent[t]) - 1 :
         /\ dirent[t][i].name < dirent[t][i + 1].name
         /\ dirent[t][i].d_off = dirent[t][i + 1].name

\* No reader ever misses a name: what is behind f_pos was returned, is in the
\* buffer of a call about to return, or was in the buffer of a call that
\* failed to store its last d_off (readdir.c:158) and returned EFAULT with
\* f_pos already moved.  A record that did not fit, a signal, an error and
\* two overlapping calls lose nothing.
NothingSkipped ==
  \A o \in Listed : o < f_pos =>
    \/ o \in given \cup lost
    \/ \E t \in Threads : pc[t] \in {"unlock", "finish"} /\ o \in Names(t)

\* No name is returned twice, unless two calls overlapped (i_rwsem is shared
\* and fdget_pos locks nothing) or llseek went back.
GivenOnce == disturbed \/ again = {}

\* A call that returns 0, the end of the directory, has seen all of it: none
\* of the ways to stop early leaves error at 0.
EndIsTheEnd ==
  \A t \in Threads : pc[t] = "store" /\ dirent[t] = << >> /\ error[t] = "none" =>
    \A o \in Listed : o < pos[t]

\* Every call returns and has left the lock.
CallsReturn ==
  \A t \in Threads : pc[t] # "idle" ~>
    pc[t] = "idle" /\ t \notin readers /\ owner # t
=============================================================================
