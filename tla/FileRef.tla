------------------------------ MODULE FileRef -------------------------------
(***************************************************************************)
(* The reference count of one struct file: file_ref_inc, file_ref_put,     *)
(* file_ref_put_close, their slow path __file_ref_put, and __fput, which   *)
(* frees the object (include/linux/vfs/private/file_ref.h, file/file.c).   *)
(*                                                                         *)
(* One action is one atomic operation on the counter; what a thread keeps  *)
(* in a local variable between two atomics is in local.  References are    *)
(* anonymous: refs says how many are held outside these functions.  A      *)
(* thread that is inside file_ref_put_close and has read ONEREF still owns *)
(* the reference it came to drop, and that one is not counted in refs.     *)
(*                                                                         *)
(* Callers are as the code's comments describe them: a get may race with   *)
(* the last put as long as that put has not won (file.c:96-101), and a     *)
(* caller may use a pointer it no longer owns after the release, at most   *)
(* MaxStray times: the "imbalanced" operations the dead zone is there for. *)
(***************************************************************************)
EXTENDS FileRefOps

CONSTANTS
  Threads,     \* the tasks that operate on the file
  MaxRefs,     \* bound: references held at once
  MaxStray     \* bound: operations on the counter after its release

ASSUME BoundAssumption == MaxRefs \in Nat \ {0} /\ MaxStray \in Nat

VARIABLES
  refcnt,      \* f_ref.refcnt
  pc,          \* where each thread is between two atomic operations
  local,       \* the thread's cnt
  refs,        \* references held by callers
  stray,       \* operations made after the release
  winners,     \* puts that were told "this was the last reference"
  freed,       \* calls of __fput
  warned       \* a WARN_ONCE of these functions has fired

vars == <<refcnt, pc, local, refs, stray, winners, freed, warned>>

Init ==
  /\ refcnt = ONEREF                       \* file_ref_init(ref, 1)
  /\ pc = [t \in Threads |-> "idle"]
  /\ local = [t \in Threads |-> 0]
  /\ refs = 1
  /\ stray = 0 /\ winners = 0 /\ freed = 0
  /\ warned = FALSE

(***************************************************************************)
(* What callers may do.                                                    *)
(***************************************************************************)
MayGet ==
  \/ /\ winners = 0 /\ refs < MaxRefs
     /\ refs' = refs + 1
     /\ UNCHANGED stray
  \/ /\ winners > 0 /\ stray < MaxStray
     /\ stray' = stray + 1
     /\ UNCHANGED refs

MayPut ==
  \/ /\ winners = 0 /\ refs > 0
     /\ refs' = refs - 1
     /\ UNCHANGED stray
  \/ /\ winners > 0 /\ stray < MaxStray
     /\ stray' = stray + 1
     /\ UNCHANGED refs

\* Mutant: the increment of a released or saturated counter is not reported.
file_ref_inc_quiet(t) ==
  /\ pc[t] = "idle"
  /\ MayGet
  /\ refcnt' = Inc(refcnt)
  /\ UNCHANGED <<pc, local, winners, freed, warned>>

(***************************************************************************)
(* file_ref_inc: one unconditional increment and a warning.                *)
(***************************************************************************)
file_ref_inc(t) ==
  /\ pc[t] = "idle"
  /\ MayGet
  /\ refcnt' = Inc(refcnt)
  /\ warned' = (warned \/ IsNegative(refcnt))
  /\ UNCHANGED <<pc, local, winners, freed>>

(***************************************************************************)
(* file_ref_put: the decrement; a negative result goes to __file_ref_put.  *)
(***************************************************************************)
file_ref_put(t) ==
  /\ pc[t] = "idle"
  /\ MayPut
  /\ refcnt' = Dec(refcnt)
  /\ local' = [local EXCEPT ![t] = Dec(refcnt)]
  /\ pc' = [pc EXCEPT ![t] = IF ~IsNegative(Dec(refcnt)) THEN "idle"
                             ELSE IF Dec(refcnt) = NOREF THEN "noref"
                             ELSE "badval"]
  /\ UNCHANGED <<winners, freed, warned>>

\* Mutant: the slow path trusts its decrement, without the cmpxchg.
put_noref_blind(t) ==
  /\ pc[t] = "noref"
  /\ refcnt' = DEAD
  /\ winners' = winners + 1
  /\ pc' = [pc EXCEPT ![t] = "fput"]
  /\ UNCHANGED <<local, refs, stray, freed, warned>>

\* Mutant: the last put marks the counter but tells its caller nothing.
put_noref_untold(t) ==
  /\ pc[t] = "noref"
  /\ refcnt' = IF refcnt = NOREF THEN DEAD ELSE refcnt
  /\ pc' = [pc EXCEPT ![t] = "idle"]
  /\ UNCHANGED <<local, refs, stray, winners, freed, warned>>

\* __file_ref_put with cnt = NOREF: mark the counter dead unless somebody
\* moved it since.
put_noref(t) ==
  /\ pc[t] = "noref"
  /\ \/ /\ refcnt = NOREF
        /\ refcnt' = DEAD
        /\ winners' = winners + 1
        /\ pc' = [pc EXCEPT ![t] = "fput"]
     \/ /\ refcnt # NOREF
        /\ pc' = [pc EXCEPT ![t] = "idle"]
        /\ UNCHANGED <<refcnt, winners>>
  /\ UNCHANGED <<local, refs, stray, freed, warned>>

\* __file_ref_put_badval: decides on the value its own decrement returned,
\* and stores over whatever the counter holds by now.
put_badval(t) ==
  /\ pc[t] = "badval"
  /\ \/ /\ local[t] >= RELEASED
        /\ warned' = TRUE
        /\ refcnt' = DEAD
     \/ /\ local[t] < RELEASED
        /\ refcnt' = SATURATED
        /\ UNCHANGED warned
  /\ pc' = [pc EXCEPT ![t] = "idle"]
  /\ UNCHANGED <<local, refs, stray, winners, freed>>

(***************************************************************************)
(* file_ref_put_close: the read that finds ONEREF, and then the cmpxchg.   *)
(* A read that finds anything else changes nothing and continues as        *)
(* file_ref_put, which is the action above; so does a cmpxchg that fails,  *)
(* whose caller still owns its reference.                                  *)
(***************************************************************************)
put_close_read(t) ==
  /\ pc[t] = "idle"
  /\ refcnt = ONEREF
  /\ MayPut
  /\ pc' = [pc EXCEPT ![t] = "closing"]
  /\ UNCHANGED <<refcnt, local, winners, freed, warned>>

\* Mutant: a store instead of the cmpxchg.
put_close_store(t) ==
  /\ pc[t] = "closing"
  /\ refcnt' = DEAD
  /\ winners' = winners + 1
  /\ pc' = [pc EXCEPT ![t] = "fput"]
  /\ UNCHANGED <<local, refs, stray, freed, warned>>

put_close_cmpxchg(t) ==
  /\ pc[t] = "closing"
  /\ \/ /\ refcnt = ONEREF
        /\ refcnt' = DEAD
        /\ winners' = winners + 1
        /\ pc' = [pc EXCEPT ![t] = "fput"]
        /\ UNCHANGED refs
     \/ /\ refcnt # ONEREF
        /\ pc' = [pc EXCEPT ![t] = "idle"]
        /\ refs' = refs + 1
        /\ UNCHANGED <<refcnt, winners>>
  /\ UNCHANGED <<local, stray, freed, warned>>

\* __fput: drops the path and frees the file.
fput(t) ==
  /\ pc[t] = "fput"
  /\ freed' = freed + 1
  /\ pc' = [pc EXCEPT ![t] = "idle"]
  /\ UNCHANGED <<refcnt, local, refs, stray, winners, warned>>

InFlight(t) == put_noref(t) \/ put_badval(t) \/ put_close_cmpxchg(t) \/ fput(t)

Step(t) == file_ref_inc(t) \/ file_ref_put(t) \/ put_close_read(t) \/ InFlight(t)

\* Once released and out of stray operations nobody has anything to do.
Quiescent ==
  /\ freed > 0 /\ stray = MaxStray
  /\ \A t \in Threads : pc[t] = "idle"
  /\ UNCHANGED vars

Next == (\E t \in Threads : Step(t)) \/ Quiescent

Spec == Init /\ [][Next]_vars

\* A thread inside one of these functions is running kernel code that takes
\* no lock and waits for nothing: it reaches its next atomic operation.
FairSpec == Spec /\ \A t \in Threads : WF_vars(InFlight(t))

-----------------------------------------------------------------------------

TypeOK ==
  /\ refcnt \in Counter
  /\ pc \in [Threads -> {"idle", "noref", "badval", "closing", "fput"}]
  /\ local \in [Threads -> Counter]
  /\ refs \in Nat /\ stray \in 0 .. MaxStray
  /\ winners \in Nat /\ freed \in Nat
  /\ warned \in BOOLEAN

\* The object is released once, and only when no caller holds a reference:
\* the return value of file_ref_put and file_ref_put_close lets at most one
\* caller run __fput, whatever gets race with the last put, and operations
\* made after the release do not bring the counter back to life.
ReleasedOnce == winners <= 1 /\ (winners = 1 => refs = 0)

\* Without the bound on the number of references: a counter pushed beyond
\* MAXREF may release an object in use, but never before one of the two
\* WARN_ONCE of these functions has reported it.
NoSilentRelease == warned \/ ReleasedOnce

\* The last put is not lost: when no caller holds a reference, the file is
\* freed, unless a racing get takes a new reference first.
LastPutFrees == refs = 0 ~> (freed = 1 \/ refs > 0)

\* The counter implements the life of a file.
Life == INSTANCE FileLife
ImplementsLife == Life!Spec

=============================================================================
