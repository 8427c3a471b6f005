-------------------------------- MODULE Dput --------------------------------
(***************************************************************************)
(* The life of a dentry: d_alloc, d_add, d_instantiate, dget, d_lookup and *)
(* dput with its fast path, lock_for_kill and __dentry_kill, which climbs  *)
(* to the parents the last child kept alive (dentry/{dentry,dcache,        *)
(* d_alloc,d_lookup}.c).                                                   *)
(*                                                                         *)
(* d_lock is inside the lockref, so what counts without the lock only      *)
(* does so while nobody has it; lockref and spinlocks are external.  Who   *)
(* holds a reference does not matter here: refs counts the references held *)
(* outside dput, and any thread may give one up.                           *)
(***************************************************************************)
EXTENDS Integers, FiniteSets

CONSTANTS
  Threads, NoThread,
  Dentries, Root,
  Parent,       \* d_parent; the root is its own
  Dropped,      \* dentries their d_flags or d_delete tell dput not to keep
  MaxRefs,      \* bound: references to one dentry held outside dput
  Ops           \* the calls a run allows

ASSUME DputAssumption ==
  /\ NoThread \notin Threads
  /\ Root \in Dentries /\ Parent \in [Dentries -> Dentries] /\ Parent[Root] = Root
  /\ Dropped \subseteq Dentries /\ MaxRefs \in Nat \ {0}
  /\ Ops \subseteq {"d_add", "d_instantiate", "d_lookup", "i_lock"}

\* Threads and dentries live in memory.
ASSUME FiniteSystem == IsFiniteSet(Threads) /\ IsFiniteSet(Dentries)

Dead == -128             \* lockref_mark_dead

VARIABLES
  life,         \* "none" until allocated, "alive", "killed"
  hashed,       \* dentries in the hash table
  positive,     \* dentries with an inode
  count,        \* d_lockref.count
  d_lock,       \* owner of d_lockref.lock
  i_lock,       \* owner of the i_lock of the dentry's inode
  refs,
  borrowed,     \* history: d_lookup has been called
  pc, cur       \* where a thread is in dput, and the dentry it works on

vars == <<life, hashed, positive, count, d_lock, i_lock, refs, borrowed, pc, cur>>

Alive(d)    == life[d] = "alive"
Children(d) == {c \in Dentries \ {Root} : Parent[c] = d}

Init ==
  /\ life = [d \in Dentries |-> IF d = Root THEN "alive" ELSE "none"]
  /\ hashed = {}
  /\ positive = {}
  /\ count = [d \in Dentries |-> IF d = Root THEN 1 ELSE 0]
  /\ d_lock = [d \in Dentries |-> NoThread]
  /\ i_lock = [d \in Dentries |-> NoThread]
  /\ refs = [d \in Dentries |-> IF d = Root THEN 1 ELSE 0]
  /\ borrowed = FALSE
  /\ pc = [t \in Threads |-> "idle"]
  /\ cur = [t \in Threads |-> Root]

Go(t, from, to) == pc[t] = from /\ pc' = [pc EXCEPT ![t] = to]

Return(t, from) == Go(t, from, "idle") /\ cur' = [cur EXCEPT ![t] = Root]

Lock(t, d) == d_lock[d] = NoThread /\ d_lock' = [d_lock EXCEPT ![d] = t]
Unlock(d)  == d_lock' = [d_lock EXCEPT ![d] = NoThread]

\* retain_dentry with d_lock taken: d_lru_add is empty, so a dentry is kept
\* that is hashed and nobody wants dropped.
Keep(d) == d \in hashed /\ d \notin Dropped

-----------------------------------------------------------------------------
(* The users of dentries: one step each, for each holds d_lock throughout  *)
(* or takes no lock.                                                       *)

\* dget_dlock(parent) forgotten (mutant).
d_alloc_orphan(t, d) ==
  /\ pc[t] = "idle" /\ d # Root /\ life[d] = "none"
  /\ refs[Parent[d]] > 0 /\ d_lock[Parent[d]] = NoThread
  /\ life' = [life EXCEPT ![d] = "alive"]
  /\ count' = [count EXCEPT ![d] = 1]
  /\ refs' = [refs EXCEPT ![d] = 1]
  /\ UNCHANGED <<hashed, positive, d_lock, i_lock, pc, cur, borrowed>>

\* The new dentry's reference is its caller's; it holds one on its parent.
d_alloc(t, d) ==
  /\ pc[t] = "idle" /\ d # Root /\ life[d] = "none"
  /\ refs[Parent[d]] > 0 /\ d_lock[Parent[d]] = NoThread
  /\ life' = [life EXCEPT ![d] = "alive"]
  /\ count' = [count EXCEPT ![d] = 1, ![Parent[d]] = @ + 1]
  /\ refs' = [refs EXCEPT ![d] = 1]
  /\ UNCHANGED <<hashed, positive, d_lock, i_lock, pc, cur, borrowed>>

d_add(t, d) ==
  /\ "d_add" \in Ops /\ pc[t] = "idle"
  /\ d \notin hashed /\ refs[d] > 0 /\ d_lock[d] = NoThread
  /\ hashed' = hashed \cup {d}
  /\ UNCHANGED <<life, positive, count, d_lock, i_lock, refs, borrowed, pc, cur>>

d_instantiate(t, d) ==
  /\ "d_instantiate" \in Ops /\ pc[t] = "idle"
  /\ Alive(d) /\ refs[d] > 0
  /\ positive' = positive \cup {d}
  /\ UNCHANGED <<life, hashed, count, d_lock, i_lock, refs, borrowed, pc, cur>>

\* dget clones a reference, and spins while d_lock is held.  A killed dentry
\* is not cloned (bound).
dget(t, d) ==
  /\ pc[t] = "idle" /\ Alive(d) /\ 0 < refs[d] /\ refs[d] < MaxRefs
  /\ d_lock[d] = NoThread
  /\ count' = [count EXCEPT ![d] = @ + 1]
  /\ refs' = [refs EXCEPT ![d] = @ + 1]
  /\ UNCHANGED <<life, hashed, positive, d_lock, i_lock, pc, cur, borrowed>>

\* d_lookup returns what is hashed, killed or not, and takes no reference; its
\* callers dput what it returned.
d_lookup(t, d) ==
  /\ "d_lookup" \in Ops /\ pc[t] = "idle"
  /\ d \in hashed /\ refs[Parent[d]] > 0 /\ refs[d] < MaxRefs
  /\ refs' = [refs EXCEPT ![d] = @ + 1]
  /\ borrowed' = TRUE
  /\ UNCHANGED <<life, hashed, positive, count, d_lock, i_lock, pc, cur>>

\* Somebody else uses the inode's i_lock for a while.
use_i_lock(t, d) ==
  /\ "i_lock" \in Ops /\ d \in positive
  /\ i_lock[d] = NoThread
  /\ Go(t, "idle", "using_i_lock")
  /\ i_lock' = [i_lock EXCEPT ![d] = t]
  /\ cur' = [cur EXCEPT ![t] = d]
  /\ UNCHANGED <<life, hashed, positive, count, d_lock, refs, borrowed>>

used_i_lock(t) ==
  /\ Return(t, "using_i_lock")
  /\ i_lock' = [i_lock EXCEPT ![cur[t]] = NoThread]
  /\ UNCHANGED <<life, hashed, positive, count, d_lock, refs, borrowed>>

-----------------------------------------------------------------------------
(* fast_dput                                                               *)

dput(t, d) ==
  /\ Go(t, "idle", "put")
  /\ refs[d] > 0
  /\ refs' = [refs EXCEPT ![d] = @ - 1]
  /\ cur' = [cur EXCEPT ![t] = d]
  /\ UNCHANGED <<life, hashed, positive, count, d_lock, i_lock, borrowed>>

\* lockref_put_return: -1 if the lock is held or there is nothing to put.
\* retain_dentry without the lock is false, for no dentry is on the LRU.
put_fast(t) ==
  LET d == cur[t]
  IN \/ /\ d_lock[d] = NoThread /\ count[d] > 1
        /\ count' = [count EXCEPT ![d] = @ - 1]
        /\ Return(t, "put")
        /\ UNCHANGED <<life, hashed, positive, d_lock, i_lock, refs, borrowed>>
     \/ /\ d_lock[d] = NoThread /\ count[d] = 1
        /\ count' = [count EXCEPT ![d] = 0]
        /\ Go(t, "put", "relock")
        /\ UNCHANGED <<life, hashed, positive, d_lock, i_lock, refs, cur, borrowed>>
     \/ /\ d_lock[d] # NoThread \/ count[d] <= 0
        /\ Go(t, "put", "slow")
        /\ UNCHANGED <<life, hashed, positive, count, d_lock, i_lock, refs, cur, borrowed>>

put_slow_lock(t) ==
  /\ Go(t, "slow", "slow_locked")
  /\ Lock(t, cur[t])
  /\ UNCHANGED <<life, hashed, positive, count, i_lock, refs, cur, borrowed>>

\* Under the lock the count is left as it was (mutant).
put_slow_uncounted(t) ==
  LET d == cur[t]
  IN /\ IF count[d] <= 0 THEN Return(t, "slow_locked") /\ Unlock(d)
        ELSE Go(t, "slow_locked", "check") /\ UNCHANGED <<d_lock, cur>>
     /\ UNCHANGED <<life, hashed, positive, count, i_lock, refs, borrowed>>

\* The WARN_ON_ONCE gives up.
put_slow(t) ==
  LET d == cur[t]
  IN \/ /\ count[d] <= 0
        /\ Return(t, "slow_locked")
        /\ Unlock(d)
        /\ UNCHANGED <<life, hashed, positive, count, i_lock, refs, borrowed>>
     \/ /\ count[d] > 0
        /\ Go(t, "slow_locked", "check")
        /\ count' = [count EXCEPT ![d] = @ - 1]
        /\ UNCHANGED <<life, hashed, positive, d_lock, i_lock, refs, cur, borrowed>>

put_relock(t) ==
  /\ Go(t, "relock", "check")
  /\ Lock(t, cur[t])
  /\ UNCHANGED <<life, hashed, positive, count, i_lock, refs, cur, borrowed>>

\* Returns with d_lock (mutant).
put_check_locked(t) ==
  LET d == cur[t]
  IN /\ IF count[d] # 0 \/ Keep(d) THEN Return(t, "check")
        ELSE Go(t, "check", "kill") /\ UNCHANGED cur
     /\ UNCHANGED <<life, hashed, positive, count, d_lock, i_lock, refs, borrowed>>

put_check(t) ==
  LET d == cur[t]
  IN \/ /\ count[d] # 0 \/ Keep(d)
        /\ Return(t, "check")
        /\ Unlock(d)
        /\ UNCHANGED <<life, hashed, positive, count, i_lock, refs, borrowed>>
     \/ /\ count[d] = 0 /\ ~Keep(d)
        /\ Go(t, "check", "kill")
        /\ UNCHANGED <<life, hashed, positive, count, d_lock, i_lock, refs, cur, borrowed>>

-----------------------------------------------------------------------------
(* lock_for_kill: i_lock comes before d_lock, so it is only tried first.   *)

lock_for_kill(t) ==
  LET d == cur[t]
  IN \/ /\ count[d] # 0
        /\ Go(t, "kill", "stop")
        /\ UNCHANGED <<d_lock, i_lock>>
     \/ /\ count[d] = 0 /\ d \notin positive
        /\ Go(t, "kill", "dying")
        /\ UNCHANGED <<d_lock, i_lock>>
     \/ /\ count[d] = 0 /\ d \in positive /\ i_lock[d] = NoThread
        /\ Go(t, "kill", "dying")
        /\ i_lock' = [i_lock EXCEPT ![d] = t]
        /\ UNCHANGED d_lock
     \/ /\ count[d] = 0 /\ d \in positive /\ i_lock[d] # NoThread
        /\ Go(t, "kill", "wait_i_lock")
        /\ Unlock(d)
        /\ UNCHANGED i_lock

kill_wait_i_lock(t) ==
  /\ Go(t, "wait_i_lock", "wait_d_lock")
  /\ i_lock[cur[t]] = NoThread
  /\ i_lock' = [i_lock EXCEPT ![cur[t]] = t]
  /\ UNCHANGED d_lock

kill_wait_d_lock(t) ==
  /\ Go(t, "wait_d_lock", "recheck")
  /\ Lock(t, cur[t])
  /\ UNCHANGED i_lock

\* i_lock is kept when the kill is given up (mutant).
kill_recheck_keeps(t) ==
  /\ Go(t, "recheck", IF count[cur[t]] = 0 THEN "dying" ELSE "stop")
  /\ UNCHANGED <<d_lock, i_lock>>

\* The inode is the same: nothing takes it from a dentry.
kill_recheck(t) ==
  \/ /\ count[cur[t]] = 0
     /\ Go(t, "recheck", "dying")
     /\ UNCHANGED <<d_lock, i_lock>>
  \/ /\ count[cur[t]] # 0
     /\ Go(t, "recheck", "stop")
     /\ i_lock' = [i_lock EXCEPT ![cur[t]] = NoThread]
     /\ UNCHANGED d_lock

\* The end of dput when lock_for_kill refused.
kill_stop(t) == Return(t, "stop") /\ Unlock(cur[t]) /\ UNCHANGED i_lock

LockForKill(t) ==
  /\ \/ (lock_for_kill(t) \/ kill_wait_i_lock(t) \/ kill_wait_d_lock(t)
         \/ kill_recheck(t)) /\ UNCHANGED cur
     \/ kill_stop(t)
  /\ UNCHANGED <<life, hashed, positive, count, refs, borrowed>>

-----------------------------------------------------------------------------
(* __dentry_kill, and dput's loop over the parents.                        *)

\* __d_drop is empty.  dentry_unlink_inode, which is to release the locks of
\* a dentry that has an inode, is empty too.
kill_mark(t) ==
  LET d == cur[t]
  IN /\ Go(t, "dying", IF d = Root THEN "unlist" ELSE "lock_parent")
     /\ count' = [count EXCEPT ![d] = Dead]
     /\ life' = [life EXCEPT ![d] = "killed"]
     /\ IF d \in positive THEN UNCHANGED d_lock ELSE Unlock(d)
     /\ UNCHANGED <<hashed, positive, i_lock, refs, cur, borrowed>>

kill_lock_parent(t) ==
  /\ Go(t, "lock_parent", "unlist")
  /\ Lock(t, Parent[cur[t]])
  /\ UNCHANGED <<life, hashed, positive, count, i_lock, refs, cur, borrowed>>

\* d_lock_nested, dentry_unlist, d_unlock: d_lock only has to be free.
kill_unlist(t) ==
  LET d == cur[t]
      p == Parent[d]
  IN /\ d_lock[d] = NoThread
     /\ \/ /\ d = Root
           /\ Return(t, "unlist")
           /\ UNCHANGED <<count, d_lock>>
        \/ /\ d # Root /\ count[p] # 1
           /\ Return(t, "unlist")
           /\ count' = [count EXCEPT ![p] = @ - 1]
           /\ Unlock(p)
        \/ /\ d # Root /\ count[p] = 1
           /\ Go(t, "unlist", "retain")
           /\ count' = [count EXCEPT ![p] = 0]
           /\ cur' = [cur EXCEPT ![t] = p]
           /\ UNCHANGED d_lock
     /\ UNCHANGED <<life, hashed, positive, i_lock, refs, borrowed>>

\* The parent of the last child is let be (mutant).
kill_retain_stops(t) ==
  /\ Return(t, "retain")
  /\ Unlock(cur[t])
  /\ UNCHANGED <<life, hashed, positive, count, i_lock, refs, borrowed>>

kill_retain(t) ==
  /\ \/ /\ Keep(cur[t])
        /\ Return(t, "retain")
        /\ Unlock(cur[t])
     \/ /\ ~Keep(cur[t])
        /\ Go(t, "retain", "kill")
        /\ UNCHANGED <<d_lock, cur>>
  /\ UNCHANGED <<life, hashed, positive, count, i_lock, refs, borrowed>>

-----------------------------------------------------------------------------

Use(t, d) ==
  \/ d_alloc(t, d) \/ d_add(t, d) \/ d_instantiate(t, d)
  \/ dget(t, d) \/ d_lookup(t, d) \/ use_i_lock(t, d) \/ dput(t, d)

Continue(t) ==
  \/ put_fast(t) \/ put_slow_lock(t) \/ put_slow(t) \/ put_relock(t) \/ put_check(t)
  \/ LockForKill(t)
  \/ kill_mark(t) \/ kill_lock_parent(t) \/ kill_unlist(t) \/ kill_retain(t)
  \/ used_i_lock(t)

Next == \E t \in Threads : Continue(t) \/ \E d \in Dentries : Use(t, d)

Spec == Init /\ [][Next]_vars

\* A dput goes on, and gets a lock that is free again and again.
FairSpec == Spec /\ \A t \in Threads : SF_vars(Continue(t))

-----------------------------------------------------------------------------

Pcs == {"idle", "using_i_lock", "put", "slow", "slow_locked", "relock",
        "check", "kill", "wait_i_lock", "wait_d_lock", "recheck", "stop",
        "dying", "lock_parent", "unlist", "retain"}

\* Values; and as long as every reference was taken, only a killed dentry's
\* counter is negative.
TypeOK ==
  /\ life \in [Dentries -> {"none", "alive", "killed"}]
  /\ hashed \subseteq Dentries /\ positive \subseteq Dentries
  /\ count \in [Dentries -> Int]
  /\ ~borrowed => \A d \in Dentries : count[d] >= 0 \/ life[d] = "killed"
  /\ d_lock \in [Dentries -> Threads \cup {NoThread}]
  /\ i_lock \in [Dentries -> Threads \cup {NoThread}]
  /\ refs \in [Dentries -> 0 .. MaxRefs]
  /\ borrowed \in BOOLEAN
  /\ pc \in [Threads -> Pcs]
  /\ cur \in [Threads -> Dentries]

\* References a running dput has taken over and not yet put.
Putting(d) == {t \in Threads : cur[t] = d /\ pc[t] \in {"put", "slow", "slow_locked"}}

\* Children that are alive, or killed by a thread that has not yet told the
\* parent.
Leaning(d) ==
  {c \in Children(d) :
     Alive(c) \/ \E t \in Threads : cur[t] = c /\ pc[t] \in {"lock_parent", "unlist"}}

\* The counter of a living dentry is the references there are to it, as long
\* as every reference was taken: d_lookup's are not.
CountIsExact ==
  /\ TypeOK
  /\ \A d \in Dentries : Alive(d) /\ ~borrowed =>
       count[d] = refs[d] + Cardinality(Putting(d)) + Cardinality(Leaning(d))

NothingLeansOnKilled ==
  \A d \in Dentries : life[d] = "killed" /\ ~borrowed =>
    refs[d] = 0 /\ Putting(d) = {} /\ Leaning(d) = {}

Deciding == {"relock", "check", "kill", "wait_i_lock", "wait_d_lock", "recheck",
             "dying", "retain"}

OneKiller ==
  \A t \in Threads : pc[t] \in Deciding /\ count[cur[t]] <= 0 /\ ~borrowed =>
    /\ Alive(cur[t])
    /\ \A u \in Threads : pc[u] \in Deciding /\ cur[u] = cur[t] => u = t

\* A dentry is killed only when nobody has a reference to it, and never
\* before its children; and however puts race, one thread at a time decides
\* over a dentry whose count reached zero, and it decides over a living one.
KilledOnceUnused == NothingLeansOnKilled /\ OneKiller

\* Outside dput no thread holds a lock of a dentry or its inode, even if its
\* reference was one d_lookup did not take.
LocksAreReleased ==
  \A t \in Threads, d \in Dentries :
    /\ d_lock[d] = t => pc[t] # "idle"
    /\ i_lock[d] = t => pc[t] # "idle"

\* What nobody refers to and nobody keeps is killed, and so are the parents
\* it kept alive, if all dentries are negative.
UnusedIsKilled ==
  \A d \in Dentries :
    (Alive(d) /\ count[d] = 0 /\ ~Keep(d)) ~> life[d] = "killed"

\* dput returns, if all dentries are negative.
DputReturns == \A t \in Threads : pc[t] # "idle" ~> pc[t] = "idle"

\* dput releases the dentry's resources ("release a dentry"): it never waits
\* for a lock it holds.
NoSelfDeadlock ==
  \A t \in Threads : pc[t] = "unlist" => d_lock[cur[t]] # t

=============================================================================
