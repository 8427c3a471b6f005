----------------------------- MODULE DputProofs -----------------------------
(***************************************************************************)
(* What holds of dentries for every tree, any number of threads and any    *)
(* order of their puts: a living dentry counts its references, one is      *)
(* killed once and only when unused, and dput leaves no lock behind.       *)
(*                                                                         *)
(* A count that has reached zero stays zero, for every way to raise it     *)
(* needs a reference.  So a thread that dropped a dentry's lock to get its *)
(* inode's first, or has not taken it yet, still finds the count it left   *)
(* (Deciders), and no second thread can come to decide over the dentry.    *)
(* Only a thread that found the lock taken decides over a count that may   *)
(* not be zero, and it has the lock (Locked).                              *)
(***************************************************************************)
EXTENDS Dput, FiniteSetTheorems, TLAPS

-----------------------------------------------------------------------------

Typed ==
  /\ life \in [Dentries -> {"none", "alive", "killed"}]
  /\ hashed \subseteq Dentries /\ positive \subseteq Dentries
  /\ count \in [Dentries -> Int]
  /\ d_lock \in [Dentries -> Threads \cup {NoThread}]
  /\ i_lock \in [Dentries -> Threads \cup {NoThread}]
  /\ refs \in [Dentries -> 0 .. MaxRefs]
  /\ borrowed \in BOOLEAN
  /\ pc \in [Threads -> Pcs]
  /\ cur \in [Threads -> Dentries]

\* Where a thread has the lock of its dentry.
Holding == {"slow_locked", "check", "kill", "recheck", "stop", "dying", "retain"}

\* Where a thread tells the parent of the dentry it killed.
Telling == {"lock_parent", "unlist"}

\* Where a thread may have the lock of its dentry's inode.
Inoded == {"using_i_lock", "wait_d_lock", "recheck", "dying"} \cup Telling

Locked ==
  /\ \A t \in Threads : pc[t] \in Holding => d_lock[cur[t]] = t
  /\ \A t \in Threads : pc[t] = "unlist" /\ cur[t] # Root =>
       d_lock[Parent[cur[t]]] = t

\* The locks a thread has; it tells no parent before it gave back the
\* inode's, for then it waits for its own lock.
Owned ==
  /\ \A t \in Threads, d \in Dentries : d_lock[d] = t =>
       \/ pc[t] \in Holding \cup Telling /\ cur[t] = d
       \/ pc[t] = "unlist" /\ cur[t] # Root /\ d = Parent[cur[t]]
  /\ \A t \in Threads, d \in Dentries : i_lock[d] = t =>
       /\ pc[t] \in Inoded /\ cur[t] = d /\ d \in positive
       /\ pc[t] \in Telling => d_lock[d] = t
  /\ \A t \in Threads : pc[t] = "wait_i_lock" => cur[t] \in positive
  /\ \A t \in Threads : pc[t] = "lock_parent" => cur[t] # Root

-----------------------------------------------------------------------------

Exact ==
  \A d \in Dentries : Alive(d) =>
    count[d] = refs[d] + Cardinality(Putting(d)) + Cardinality(Leaning(d))

\* What was never allocated, or is killed, is not used.
Unused ==
  \A d \in Dentries : ~Alive(d) =>
    /\ refs[d] = 0 /\ Putting(d) = {} /\ Leaning(d) = {}
    /\ life[d] = "none" => count[d] = 0

Deciders ==
  \A t \in Threads : pc[t] \in Deciding =>
    /\ Alive(cur[t])
    /\ pc[t] # "check" => count[cur[t]] = 0
    /\ count[cur[t]] = 0 =>
         \A u \in Threads : pc[u] \in Deciding /\ cur[u] = cur[t] => u = t

Tellers ==
  \A t \in Threads : pc[t] \in Telling =>
    /\ life[cur[t]] = "killed"
    /\ \A u \in Threads : pc[u] \in Telling /\ cur[u] = cur[t] => u = t

Counted == ~borrowed => Exact /\ Unused /\ Deciders /\ Tellers

IInv == Typed /\ Locked /\ Owned /\ Counted

-----------------------------------------------------------------------------
(***************************************************************************)
(* The steps.                                                              *)
(***************************************************************************)
Step(t, d) == Continue(t) \/ Use(t, d)

LEMMA NextTyped ==
  ASSUME Typed, [Next]_vars
  PROVE  Typed'
<1> USE DEF Typed, Pcs, Go, Return, Lock, Unlock
<1>1. CASE UNCHANGED vars
  BY <1>1 DEF vars
<1>2. ASSUME NEW t \in Threads, NEW d \in Dentries, Use(t, d)
      PROVE  Typed'
  <2>1. Parent[d] \in Dentries /\ MaxRefs \in Nat \ {0}
    BY DputAssumption
  <2>2. CASE d_alloc(t, d)
    BY <2>1, <2>2 DEF d_alloc
  <2>3. CASE d_add(t, d) \/ d_instantiate(t, d)
    BY <2>3 DEF d_add, d_instantiate
  <2>4. CASE dget(t, d)
    BY <2>1, <2>4 DEF dget
  <2>5. CASE d_lookup(t, d)
    BY <2>1, <2>5 DEF d_lookup
  <2>6. CASE use_i_lock(t, d)
    BY <2>6 DEF use_i_lock
  <2>7. CASE dput(t, d)
    BY <2>1, <2>7 DEF dput
  <2> QED
    BY <1>2, <2>2, <2>3, <2>4, <2>5, <2>6, <2>7 DEF Use
<1>3. ASSUME NEW t \in Threads, Continue(t)
      PROVE  Typed'
  <2>1. cur[t] \in Dentries /\ Parent[cur[t]] \in Dentries /\ Root \in Dentries
    BY DputAssumption
  <2>2. CASE put_fast(t)
    BY <2>1, <2>2 DEF put_fast
  <2>3. CASE put_slow_lock(t) \/ put_relock(t)
    BY <2>1, <2>3 DEF put_slow_lock, put_relock
  <2>4. CASE put_slow(t)
    BY <2>1, <2>4 DEF put_slow
  <2>5. CASE put_check(t)
    BY <2>1, <2>5 DEF put_check
  <2>6. CASE LockForKill(t)
    <3>1. CASE lock_for_kill(t)
      BY <2>1, <2>6, <3>1 DEF LockForKill, lock_for_kill, kill_stop
    <3>2. CASE kill_wait_i_lock(t) \/ kill_wait_d_lock(t) \/ kill_recheck(t)
      BY <2>1, <2>6, <3>2
         DEF LockForKill, kill_wait_i_lock, kill_wait_d_lock, kill_recheck, kill_stop
    <3>3. CASE kill_stop(t)
      BY <2>1, <2>6, <3>3 DEF LockForKill, kill_stop
    <3> QED
      BY <2>6, <3>1, <3>2, <3>3 DEF LockForKill
  <2>7. CASE kill_mark(t)
    BY <2>1, <2>7 DEF kill_mark, Dead
  <2>8. CASE kill_lock_parent(t)
    BY <2>1, <2>8 DEF kill_lock_parent
  <2>9. CASE kill_unlist(t)
    BY <2>1, <2>9 DEF kill_unlist
  <2>10. CASE kill_retain(t)
    BY <2>1, <2>10 DEF kill_retain
  <2>11. CASE used_i_lock(t)
    BY <2>1, <2>11 DEF used_i_lock
  <2> QED
    BY <1>3, <2>2, <2>3, <2>4, <2>5, <2>6, <2>7, <2>8, <2>9, <2>10, <2>11 DEF Continue
<1> QED
  BY <1>1, <1>2, <1>3 DEF Next

\* A step is one thread's.
LEMMA OthersAreStill ==
  ASSUME Typed, NEW t \in Threads, NEW d \in Dentries, Step(t, d)
  PROVE  \A u \in Threads \ {t} : pc'[u] = pc[u] /\ cur'[u] = cur[u]
<1> USE DEF Typed, Go, Return
<1>1. CASE Use(t, d)
  BY <1>1 DEF Use, d_alloc, d_add, d_instantiate, dget, d_lookup, use_i_lock, dput
<1>2. CASE put_fast(t) \/ put_slow_lock(t) \/ put_slow(t) \/ put_relock(t) \/ put_check(t)
  BY <1>2 DEF put_fast, put_slow_lock, put_slow, put_relock, put_check
<1>3. CASE LockForKill(t)
  BY <1>3 DEF LockForKill, lock_for_kill, kill_wait_i_lock, kill_wait_d_lock,
              kill_recheck, kill_stop
<1>4. CASE kill_mark(t) \/ kill_lock_parent(t) \/ kill_unlist(t) \/ kill_retain(t)
  BY <1>4 DEF kill_mark, kill_lock_parent, kill_unlist, kill_retain
<1>5. CASE used_i_lock(t)
  BY <1>5 DEF used_i_lock
<1> QED
  BY <1>1, <1>2, <1>3, <1>4, <1>5 DEF Step, Continue

-----------------------------------------------------------------------------
(***************************************************************************)
(* The locks.                                                              *)
(***************************************************************************)

\* A thread takes a lock that is free, and gives back one it has.
LEMMA LocksOfDentries ==
  ASSUME Typed, Locked, NEW t \in Threads, NEW d \in Dentries, Step(t, d),
         NEW e \in Dentries
  PROVE  \/ d_lock'[e] = d_lock[e]
         \/ d_lock[e] = NoThread /\ d_lock'[e] = t
         \/ d_lock[e] = t /\ d_lock'[e] = NoThread
<1> USE DEF Typed, Go, Return, Lock, Unlock
<1>1. CASE Use(t, d)
  BY <1>1 DEF Use, d_alloc, d_add, d_instantiate, dget, d_lookup, use_i_lock, dput
<1>2. CASE put_fast(t) \/ put_slow_lock(t) \/ put_relock(t)
  BY <1>2 DEF put_fast, put_slow_lock, put_relock
<1>3. CASE put_slow(t) \/ put_check(t)
  BY <1>3 DEF put_slow, put_check, Locked, Holding
<1>4. CASE LockForKill(t)
  BY <1>4 DEF LockForKill, lock_for_kill, kill_wait_i_lock, kill_wait_d_lock,
              kill_recheck, kill_stop, Locked, Holding
<1>5. CASE kill_mark(t)
  BY <1>5 DEF kill_mark, Locked, Holding
<1>6. CASE kill_lock_parent(t)
  BY <1>6 DEF kill_lock_parent
<1>7. CASE kill_unlist(t)
  BY <1>7 DEF kill_unlist, Locked
<1>8. CASE kill_retain(t) \/ used_i_lock(t)
  BY <1>8 DEF kill_retain, used_i_lock, Locked, Holding
<1> QED
  BY <1>1, <1>2, <1>3, <1>4, <1>5, <1>6, <1>7, <1>8 DEF Step, Continue

\* A thread that works on a dentry under its lock has the lock.
LEMMA NextLocked ==
  ASSUME Typed, Locked, [Next]_vars
  PROVE  Locked'
<1>1. CASE UNCHANGED vars
  BY <1>1 DEF vars, Locked
<1>2. ASSUME NEW t \in Threads, NEW d \in Dentries, Step(t, d)
      PROVE  Locked'
  <2>1. \A u \in Threads \ {t} : pc'[u] = pc[u] /\ cur'[u] = cur[u]
    BY <1>2, OthersAreStill
  <2>2. ASSUME NEW u \in Threads \ {t}, NEW e \in Dentries, d_lock[e] = u
        PROVE  d_lock'[e] = u
    BY <1>2, <2>2, LocksOfDentries, DputAssumption
  <2>3. cur \in [Threads -> Dentries] /\ Parent \in [Dentries -> Dentries]
    BY DputAssumption DEF Typed
  <2>4. ASSUME NEW u \in Threads \ {t}
        PROVE  /\ pc'[u] \in Holding => d_lock'[cur'[u]] = u
               /\ pc'[u] = "unlist" /\ cur'[u] # Root => d_lock'[Parent[cur'[u]]] = u
    BY <2>1, <2>2, <2>3 DEF Locked
  <2>5. /\ pc'[t] \in Holding => d_lock'[cur'[t]] = t
        /\ pc'[t] = "unlist" /\ cur'[t] # Root => d_lock'[Parent[cur'[t]]] = t
    <3> USE DEF Typed, Go, Return, Lock, Unlock, Holding
    <3>1. CASE Use(t, d)
      BY <1>2, <3>1
         DEF Use, d_alloc, d_add, d_instantiate, dget, d_lookup, use_i_lock, dput, Locked
    <3>2. CASE put_fast(t)
      BY <3>2 DEF put_fast
    <3>3. CASE put_slow_lock(t) \/ put_relock(t)
      BY <3>3 DEF put_slow_lock, put_relock
    <3>4. CASE put_slow(t) \/ put_check(t)
      BY <3>4 DEF put_slow, put_check, Locked
    <3>5. CASE LockForKill(t)
      BY <3>5 DEF LockForKill, lock_for_kill, kill_wait_i_lock, kill_wait_d_lock,
                  kill_recheck, kill_stop, Locked
    <3>6. CASE kill_mark(t)
      BY <3>6 DEF kill_mark
    <3>7. CASE kill_lock_parent(t)
      BY <2>3, <3>7 DEF kill_lock_parent
    <3>8. CASE kill_unlist(t)
      BY <2>3, <3>8 DEF kill_unlist, Locked
    <3>9. CASE kill_retain(t)
      BY <3>9 DEF kill_retain, Locked
    <3>10. CASE used_i_lock(t)
      BY <3>10 DEF used_i_lock
    <3> QED
      BY <1>2, <3>1, <3>2, <3>3, <3>4, <3>5, <3>6, <3>7, <3>8, <3>9, <3>10
         DEF Step, Continue
  <2> QED
    BY <2>4, <2>5 DEF Locked
<1> QED
  BY <1>1, <1>2, DputAssumption DEF Next, Step

LEMMA LocksOfInodes ==
  ASSUME Typed, NEW t \in Threads, NEW d \in Dentries, Step(t, d)
  PROVE  /\ \A e \in Dentries : i_lock'[e] \in {i_lock[e], t, NoThread}
         /\ positive \subseteq positive'
<1> USE DEF Typed
<1>1. CASE Use(t, d)
  BY <1>1 DEF Use, d_alloc, d_add, d_instantiate, dget, d_lookup, use_i_lock, dput
<1>2. CASE put_fast(t) \/ put_slow_lock(t) \/ put_slow(t) \/ put_relock(t) \/ put_check(t)
  BY <1>2 DEF put_fast, put_slow_lock, put_slow, put_relock, put_check
<1>3. CASE LockForKill(t)
  BY <1>3 DEF LockForKill, lock_for_kill, kill_wait_i_lock, kill_wait_d_lock,
              kill_recheck, kill_stop
<1>4. CASE kill_mark(t) \/ kill_lock_parent(t) \/ kill_unlist(t) \/ kill_retain(t)
  BY <1>4 DEF kill_mark, kill_lock_parent, kill_unlist, kill_retain
<1>5. CASE used_i_lock(t)
  BY <1>5 DEF used_i_lock
<1> QED
  BY <1>1, <1>2, <1>3, <1>4, <1>5 DEF Step, Continue

\* What Owned says of one thread.
Owns(t) ==
  /\ \A d \in Dentries : d_lock[d] = t =>
       \/ pc[t] \in Holding \cup Telling /\ cur[t] = d
       \/ pc[t] = "unlist" /\ cur[t] # Root /\ d = Parent[cur[t]]
  /\ \A d \in Dentries : i_lock[d] = t =>
       /\ pc[t] \in Inoded /\ cur[t] = d /\ d \in positive
       /\ pc[t] \in Telling => d_lock[d] = t
  /\ pc[t] = "wait_i_lock" => cur[t] \in positive
  /\ pc[t] = "lock_parent" => cur[t] # Root

\* A thread has no lock but those its place in dput accounts for.
LEMMA NextOwned ==
  ASSUME Typed, Locked, Owned, [Next]_vars
  PROVE  Owned'
<1>1. CASE UNCHANGED vars
  BY <1>1 DEF vars, Owned
<1>2. ASSUME NEW t \in Threads, NEW d \in Dentries, Step(t, d)
      PROVE  Owned'
  <2>1. \A u \in Threads \ {t} : pc'[u] = pc[u] /\ cur'[u] = cur[u]
    BY <1>2, OthersAreStill
  <2>2. \A e \in Dentries :
          \/ d_lock'[e] = d_lock[e]
          \/ d_lock[e] = NoThread /\ d_lock'[e] = t
          \/ d_lock[e] = t /\ d_lock'[e] = NoThread
    BY <1>2, LocksOfDentries
  <2>3. /\ \A e \in Dentries : i_lock'[e] \in {i_lock[e], t, NoThread}
        /\ positive \subseteq positive'
    BY <1>2, LocksOfInodes
  <2>4. NoThread \notin Threads
    BY DputAssumption
  <2>5. ASSUME NEW u \in Threads \ {t}
        PROVE  Owns(u)'
    <3>1. \A e \in Dentries : d_lock'[e] = u <=> d_lock[e] = u
      BY <2>2, <2>4
    <3>2. \A e \in Dentries : i_lock'[e] = u => i_lock[e] = u
      BY <2>3, <2>4
    <3>3. Owns(u)
      BY DEF Owned, Owns
    <3> QED
      BY <2>1, <2>3, <3>1, <3>2, <3>3 DEF Owns
  <2>6. Owns(t)'
    <3>1. Owns(t)
      BY DEF Owned, Owns
    <3>2. /\ pc[t] \in Pcs /\ cur[t] \in Dentries /\ NoThread # t
          /\ pc[t] \in Holding => d_lock[cur[t]] = t
      BY <2>4 DEF Typed, Locked
    <3> USE DEF Typed, Go, Return, Lock, Unlock, Holding, Telling, Inoded
    <3>3. CASE Use(t, d)
      <4>1. CASE use_i_lock(t, d)
        BY <3>1, <3>2, <4>1 DEF use_i_lock, Owns
      <4>2. CASE dput(t, d)
        BY <3>1, <3>2, <4>2 DEF dput, Owns
      <4>3. CASE ~use_i_lock(t, d) /\ ~dput(t, d)
        BY <3>1, <3>2, <3>3, <4>3
           DEF Use, d_alloc, d_add, d_instantiate, dget, d_lookup, Owns
      <4> QED
        BY <4>1, <4>2, <4>3
    <3>4. CASE put_fast(t)
      BY <3>1, <3>2, <3>4 DEF put_fast, Owns
    <3>5. CASE put_slow_lock(t) \/ put_relock(t)
      BY <3>1, <3>2, <3>5 DEF put_slow_lock, put_relock, Owns
    <3>6. CASE put_slow(t)
      BY <3>1, <3>2, <3>6 DEF put_slow, Owns
    <3>7. CASE put_check(t)
      BY <3>1, <3>2, <3>7 DEF put_check, Owns
    <3>8. CASE LockForKill(t)
      <4>1. CASE lock_for_kill(t) /\ UNCHANGED cur
        BY <3>1, <3>2, <3>8, <4>1 DEF LockForKill, lock_for_kill, kill_stop, Owns
      <4>2. CASE kill_wait_i_lock(t) /\ UNCHANGED cur
        BY <3>1, <3>2, <3>8, <4>2 DEF LockForKill, kill_wait_i_lock, kill_stop, Owns
      <4>3. CASE kill_wait_d_lock(t) /\ UNCHANGED cur
        BY <3>1, <3>2, <3>8, <4>3 DEF LockForKill, kill_wait_d_lock, kill_stop, Owns
      <4>4. CASE kill_recheck(t) /\ UNCHANGED cur
        BY <3>1, <3>2, <3>8, <4>4 DEF LockForKill, kill_recheck, kill_stop, Owns
      <4>5. CASE kill_stop(t)
        BY <3>1, <3>2, <3>8, <4>5 DEF LockForKill, kill_stop, Owns
      <4> QED
        BY <3>8, <4>1, <4>2, <4>3, <4>4, <4>5 DEF LockForKill
    <3>9. CASE kill_mark(t)
      BY <3>1, <3>2, <3>9 DEF kill_mark, Owns
    <3>10. CASE kill_lock_parent(t)
      BY <3>1, <3>2, <3>10 DEF kill_lock_parent, Owns
    <3>11. CASE kill_unlist(t)
      BY <3>1, <3>2, <3>11 DEF kill_unlist, Owns
    <3>12. CASE kill_retain(t)
      BY <3>1, <3>2, <3>12 DEF kill_retain, Owns
    <3>13. CASE used_i_lock(t)
      BY <3>1, <3>2, <3>13 DEF used_i_lock, Owns
    <3> QED
      BY <1>2, <3>3, <3>4, <3>5, <3>6, <3>7, <3>8, <3>9, <3>10, <3>11, <3>12, <3>13
         DEF Step, Continue
  <2> QED
    BY <2>5, <2>6 DEF Owned, Owns
<1> QED
  BY <1>1, <1>2, DputAssumption DEF Next, Step

-----------------------------------------------------------------------------
(***************************************************************************)
(* The counts.                                                             *)
(***************************************************************************)
Puts == {"put", "slow", "slow_locked"}

LEMMA FiniteCounts ==
  ASSUME NEW d \in Dentries
  PROVE  /\ IsFiniteSet(Putting(d)) /\ Cardinality(Putting(d)) \in Nat
         /\ IsFiniteSet(Leaning(d)) /\ Cardinality(Leaning(d)) \in Nat
         /\ Putting(d) # {} => Cardinality(Putting(d)) > 0
         /\ Leaning(d) # {} => Cardinality(Leaning(d)) > 0
<1>1. Putting(d) \subseteq Threads /\ Leaning(d) \subseteq Dentries
  BY DEF Putting, Leaning, Children
<1>2. IsFiniteSet(Putting(d)) /\ IsFiniteSet(Leaning(d))
  BY <1>1, FiniteSystem, FS_Subset
<1>3. Cardinality(Putting(d)) \in Nat /\ Cardinality(Leaning(d)) \in Nat
  BY <1>2, FS_CardinalityType
<1>4. /\ Putting(d) # {} => Cardinality(Putting(d)) # 0
      /\ Leaning(d) # {} => Cardinality(Leaning(d)) # 0
  BY <1>2, FS_EmptySet
<1> QED
  BY <1>2, <1>3, <1>4

\* What is used is alive, and its count is not zero.
LEMMA UsedIsCounted ==
  ASSUME Typed, Exact, Unused, NEW d \in Dentries,
         refs[d] > 0 \/ Putting(d) # {} \/ Leaning(d) # {}
  PROVE  Alive(d) /\ count[d] > 0
<1>1. refs[d] \in Nat
  BY DputAssumption DEF Typed
<1>2. Alive(d)
  BY <1>1 DEF Unused
<1> QED
  BY <1>1, <1>2, FiniteCounts DEF Exact

\* A dentry whose count is zero is not used.
LEMMA ZeroIsUnused ==
  ASSUME Typed, Exact, Unused, NEW d \in Dentries, count[d] <= 0
  PROVE  refs[d] = 0 /\ Putting(d) = {} /\ Leaning(d) = {}
<1>1. refs[d] \in Nat /\ count[d] \in Int
  BY DputAssumption DEF Typed
<1> QED
  BY <1>1, UsedIsCounted

\* A step that does not change what is counted, nor who decides.
Calm(t) ==
  /\ UNCHANGED <<life, count, refs>>
  /\ pc'[t] \in Puts <=> pc[t] \in Puts
  /\ pc'[t] \in Telling <=> pc[t] \in Telling
  /\ pc'[t] \in Puts \cup Telling => cur'[t] = cur[t]
  /\ pc'[t] \in Deciding =>
       /\ pc[t] \in Deciding /\ cur'[t] = cur[t]
       /\ pc'[t] = "check" \/ pc[t] # "check" \/ count[cur[t]] = 0

LEMMA CountingSteps ==
  ASSUME Typed, Exact, Unused, ~borrowed',
         NEW t \in Threads, NEW d \in Dentries, Step(t, d)
  PROVE  /\ ~borrowed
         /\ \/ Calm(t)
            \/ d_alloc(t, d) \/ dget(t, d) \/ dput(t, d)
            \/ put_fast(t) /\ d_lock[cur[t]] = NoThread /\ count[cur[t]] > 0
            \/ put_slow(t) /\ count[cur[t]] > 0
            \/ kill_mark(t) \/ kill_unlist(t)
<1> USE DEF Typed, Go, Return, Calm, Puts, Telling, Deciding
<1>0. cur[t] \in Dentries /\ count[cur[t]] \in Int
  OBVIOUS
<1>1. CASE Use(t, d)
  <2>1. CASE d_add(t, d) \/ d_instantiate(t, d)
    BY <2>1 DEF d_add, d_instantiate
  <2>2. CASE use_i_lock(t, d)
    BY <2>2 DEF use_i_lock
  <2>3. CASE d_lookup(t, d)
    BY <2>3 DEF d_lookup
  <2>4. CASE d_alloc(t, d) \/ dget(t, d) \/ dput(t, d)
    BY <2>4 DEF d_alloc, dget, dput
  <2> QED
    BY <1>1, <2>1, <2>2, <2>3, <2>4 DEF Use
<1>2. CASE put_fast(t)
  BY <1>0, <1>2 DEF put_fast
<1>3. CASE put_slow_lock(t) \/ put_relock(t)
  BY <1>3 DEF put_slow_lock, put_relock
<1>4. CASE put_slow(t)
  <2>1. pc[t] = "slow_locked" /\ UNCHANGED borrowed
    BY <1>4 DEF put_slow
  <2>2. t \in Putting(cur[t])
    BY <2>1 DEF Putting
  <2>3. count[cur[t]] > 0
    BY <1>0, <2>2, UsedIsCounted
  <2> QED
    BY <1>4, <2>1, <2>3
<1>5. CASE put_check(t)
  BY <1>5 DEF put_check
<1>6. CASE LockForKill(t)
  <2>1. CASE lock_for_kill(t) /\ UNCHANGED cur
    BY <1>6, <2>1 DEF LockForKill, lock_for_kill, kill_stop
  <2>2. CASE (kill_wait_i_lock(t) \/ kill_wait_d_lock(t) \/ kill_recheck(t)) /\ UNCHANGED cur
    BY <1>6, <2>2
       DEF LockForKill, kill_wait_i_lock, kill_wait_d_lock, kill_recheck, kill_stop
  <2>3. CASE kill_stop(t)
    BY <1>6, <2>3 DEF LockForKill, kill_stop
  <2> QED
    BY <1>6, <2>1, <2>2, <2>3 DEF LockForKill
<1>7. CASE kill_mark(t) \/ kill_unlist(t)
  BY <1>7 DEF kill_mark, kill_unlist
<1>8. CASE kill_lock_parent(t)
  BY <1>8 DEF kill_lock_parent
<1>9. CASE kill_retain(t)
  BY <1>9 DEF kill_retain
<1>10. CASE used_i_lock(t)
  BY <1>10 DEF used_i_lock
<1> QED
  BY <1>1, <1>2, <1>3, <1>4, <1>5, <1>6, <1>7, <1>8, <1>9, <1>10 DEF Step, Continue

LEMMA PuttingStays ==
  ASSUME NEW t \in Threads, NEW e \in Dentries,
         \A u \in Threads \ {t} : pc'[u] = pc[u] /\ cur'[u] = cur[u],
         cur'[t] = e /\ pc'[t] \in Puts <=> cur[t] = e /\ pc[t] \in Puts
  PROVE  Putting(e)' = Putting(e)
<1>1. \A u \in Threads : cur'[u] = e /\ pc'[u] \in Puts <=> cur[u] = e /\ pc[u] \in Puts
  OBVIOUS
<1>2. \A u : u \in Putting(e)' <=> u \in Putting(e)
  BY <1>1 DEF Putting, Puts
<1> QED
  BY <1>2

\* A child leans on its parent.
Leans(c) == Alive(c) \/ \E t \in Threads : cur[t] = c /\ pc[t] \in Telling

LEMMA LeaningIs ==
  ASSUME NEW e \in Dentries
  PROVE  Leaning(e) = {c \in Children(e) : Leans(c)}
  BY DEF Leaning, Leans, Telling

LEMMA LeaningStays ==
  ASSUME NEW e \in Dentries, \A c \in Children(e) : Leans(c)' <=> Leans(c)
  PROVE  Leaning(e)' = Leaning(e)
<1>1. \A c : c \in Leaning(e)' <=> c \in Leaning(e)
  BY DEF Leaning, Leans, Telling, Children
<1> QED
  BY <1>1

LEMMA LeansStays ==
  ASSUME NEW t \in Threads, NEW c \in Dentries,
         \A u \in Threads \ {t} : pc'[u] = pc[u] /\ cur'[u] = cur[u],
         cur'[t] = c /\ pc'[t] \in Telling <=> cur[t] = c /\ pc[t] \in Telling,
         life'[c] = life[c]
  PROVE  Leans(c)' <=> Leans(c)
<1>1. \A u \in Threads :
        cur'[u] = c /\ pc'[u] \in Telling <=> cur[u] = c /\ pc[u] \in Telling
  OBVIOUS
<1> QED
  BY <1>1 DEF Leans, Alive

Others(t) == \A u \in Threads \ {t} : pc'[u] = pc[u] /\ cur'[u] = cur[u]

\* The threads that decide go on as they did, if a step of t changes nothing
\* of their dentries that matters, and t may decide over the one it came to.
LEMMA DecidersStay ==
  ASSUME Deciders, NEW t \in Threads, Others(t),
         \A u \in Threads \ {t} : pc[u] \in Deciding =>
           /\ life'[cur[u]] = life[cur[u]]
           /\ \/ count'[cur[u]] = count[cur[u]]
              \/ pc[u] = "check" /\ count'[cur[u]] # 0,
         pc'[t] \in Deciding =>
           /\ life'[cur'[t]] = "alive"
           /\ pc'[t] # "check" => count'[cur'[t]] = 0
           /\ count'[cur'[t]] = 0 =>
                \A u \in Threads \ {t} : ~(pc[u] \in Deciding /\ cur[u] = cur'[t])
  PROVE  Deciders'
<1>1. ASSUME NEW u \in Threads \ {t}, pc'[u] \in Deciding
      PROVE  /\ life'[cur'[u]] = "alive"
             /\ pc'[u] # "check" => count'[cur'[u]] = 0
             /\ count'[cur'[u]] = 0 =>
                  \A v \in Threads : pc'[v] \in Deciding /\ cur'[v] = cur'[u] => v = u
  <2>1. pc'[u] = pc[u] /\ cur'[u] = cur[u] /\ pc[u] \in Deciding
    BY <1>1 DEF Others
  <2>2. /\ Alive(cur[u])
        /\ pc[u] # "check" => count[cur[u]] = 0
        /\ count[cur[u]] = 0 =>
             \A v \in Threads : pc[v] \in Deciding /\ cur[v] = cur[u] => v = u
    BY <2>1 DEF Deciders
  <2>3. life'[cur'[u]] = "alive" /\ (pc'[u] # "check" => count'[cur'[u]] = 0)
    BY <2>1, <2>2 DEF Alive
  <2>4. ASSUME count'[cur'[u]] = 0,
               NEW v \in Threads, pc'[v] \in Deciding, cur'[v] = cur'[u]
        PROVE  v = u
    <3>1. CASE v = t
      BY <2>1, <2>4, <3>1
    <3>2. CASE v # t
      BY <2>1, <2>2, <2>4, <3>2 DEF Others
    <3> QED
      BY <3>1, <3>2
  <2> QED
    BY <2>3, <2>4
<1>2. ASSUME pc'[t] \in Deciding, count'[cur'[t]] = 0,
             NEW v \in Threads, pc'[v] \in Deciding, cur'[v] = cur'[t]
      PROVE  v = t
  BY <1>2 DEF Others
<1>3. ASSUME NEW u \in Threads, pc'[u] \in Deciding
      PROVE  /\ life'[cur'[u]] = "alive"
             /\ pc'[u] # "check" => count'[cur'[u]] = 0
             /\ count'[cur'[u]] = 0 =>
                  \A v \in Threads : pc'[v] \in Deciding /\ cur'[v] = cur'[u] => v = u
  <2>1. CASE u = t
    BY <1>2, <1>3, <2>1
  <2>2. CASE u # t
    <3>1. cur'[u] = cur[u]
      BY <2>2 DEF Others
    <3> QED
      BY <1>1, <1>3, <2>2, <3>1 DEF Alive
  <2> QED
    BY <2>1, <2>2
<1> QED
  BY <1>3 DEF Deciders, Alive

\* So do the threads that tell a parent, if the killed stay killed.
LEMMA TellersStay ==
  ASSUME Tellers, NEW t \in Threads, Others(t),
         \A u \in Threads : pc[u] \in Telling /\ life[cur[u]] = "killed" =>
           life'[cur[u]] = "killed",
         pc'[t] \in Telling => pc[t] \in Telling /\ cur'[t] = cur[t]
  PROVE  Tellers'
  BY DEF Tellers, Others

LEMMA CalmCounts ==
  ASSUME Typed, Exact, Unused, Deciders, Tellers,
         NEW t \in Threads, Others(t), Calm(t)
  PROVE  (Exact /\ Unused /\ Deciders /\ Tellers)'
<1>1. ASSUME NEW e \in Dentries
      PROVE  Putting(e)' = Putting(e) /\ Leaning(e)' = Leaning(e)
  <2>1. Putting(e)' = Putting(e)
    BY PuttingStays DEF Calm, Others
  <2>2. \A c \in Dentries : Leans(c)' <=> Leans(c)
    <3>1. ASSUME NEW c \in Dentries
          PROVE  Leans(c)' <=> Leans(c)
      BY LeansStays DEF Calm, Others
    <3> QED
      BY <3>1
  <2>3. Children(e) \subseteq Dentries
    BY DEF Children
  <2> QED
    BY <2>1, <2>2, <2>3, LeaningStays
<1>2. Exact' /\ Unused'
  BY <1>1 DEF Exact, Unused, Calm, Alive
<1>3. Deciders'
  <2>1. UNCHANGED <<life, count, refs>>
    BY DEF Calm
  <2>2. ASSUME pc'[t] \in Deciding
        PROVE  /\ life'[cur'[t]] = "alive"
               /\ pc'[t] # "check" => count'[cur'[t]] = 0
               /\ count'[cur'[t]] = 0 =>
                    \A u \in Threads \ {t} : ~(pc[u] \in Deciding /\ cur[u] = cur'[t])
    <3>1. /\ pc[t] \in Deciding /\ cur'[t] = cur[t]
          /\ pc'[t] = "check" \/ pc[t] # "check" \/ count[cur[t]] = 0
      BY <2>2 DEF Calm
    <3> QED
      BY <2>1, <3>1 DEF Deciders, Alive
  <2> QED
    BY <2>1, <2>2, DecidersStay
<1>4. Tellers'
  BY TellersStay DEF Calm
<1> QED
  BY <1>2, <1>3, <1>4

\* The child of a new dentry's parent is the new dentry.
LEMMA AllocCounts ==
  ASSUME Typed, Exact, Unused, Deciders, Tellers,
         NEW t \in Threads, NEW d \in Dentries, d_alloc(t, d)
  PROVE  (Exact /\ Unused /\ Deciders /\ Tellers)'
<1> DEFINE p == Parent[d]
<1>1. /\ d # Root /\ life[d] = "none" /\ p \in Dentries /\ refs[p] > 0
      /\ life' = [life EXCEPT ![d] = "alive"]
      /\ count' = [count EXCEPT ![d] = 1, ![p] = @ + 1]
      /\ refs' = [refs EXCEPT ![d] = 1]
      /\ UNCHANGED <<pc, cur>>
  BY DputAssumption DEF d_alloc
<1> HIDE DEF p
<1>2. Alive(p) /\ count[p] > 0 /\ p # d
  BY <1>1, UsedIsCounted DEF Alive
<1>3. refs[d] = 0 /\ Putting(d) = {} /\ Leaning(d) = {}
  BY <1>1 DEF Unused, Alive
<1>4. \A e \in Dentries : e # d => life'[e] = life[e] /\ refs'[e] = refs[e]
  BY <1>1 DEF Typed
<1>5. \A e \in Dentries : e # d /\ e # p => count'[e] = count[e]
  BY <1>1 DEF Typed
<1>6. /\ life'[d] = "alive" /\ refs'[d] = 1 /\ count'[d] = 1
      /\ count'[p] = count[p] + 1
  BY <1>1, <1>2 DEF Typed
<1>7. \A e \in Dentries : Putting(e)' = Putting(e)
  BY <1>1 DEF Putting
<1>8. \A c \in Dentries : c # d => (Leans(c)' <=> Leans(c))
  BY <1>1, <1>4 DEF Leans, Alive
<1>9. Leans(d)' /\ ~Leans(d)
  BY <1>1, <1>6 DEF Leans, Alive, Tellers
<1>10. \A e \in Dentries : e # p => Leaning(e)' = Leaning(e)
  <2>1. ASSUME NEW e \in Dentries, e # p
        PROVE  \A c \in Children(e) : Leans(c)' <=> Leans(c)
    BY <1>8, <2>1 DEF Children, p
  <2> QED
    BY <2>1, LeaningStays
<1>11. Leaning(p)' = Leaning(p) \cup {d} /\ d \notin Leaning(p)
  <2>1. d \in Children(p) /\ Children(p) \subseteq Dentries
    BY <1>1 DEF Children, p
  <2>2. \A c : c \in Leaning(p) <=> c \in Children(p) /\ Leans(c)
    BY DEF Leaning, Leans, Telling
  <2>3. \A c : c \in Leaning(p)' <=> c \in Children(p) /\ Leans(c)'
    BY DEF Leaning, Leans, Telling, Children
  <2>4. \A c : c \in Leaning(p)' <=> c \in Leaning(p) \/ c = d
    BY <1>8, <1>9, <2>1, <2>2, <2>3
  <2>5. d \notin Leaning(p)
    BY <1>9, <2>2
  <2> QED
    BY <2>4, <2>5
<1>12. Cardinality(Leaning(p)') = Cardinality(Leaning(p)) + 1
  <2>1. IsFiniteSet(Leaning(p))
    BY <1>1, FiniteCounts
  <2> QED
    BY <1>11, <2>1, FS_AddElement
<1>13. Exact'
  <2> SUFFICES ASSUME NEW e \in Dentries, life'[e] = "alive"
               PROVE  count'[e] = refs'[e] + Cardinality(Putting(e)') + Cardinality(Leaning(e)')
    BY DEF Exact, Alive
  <2>1. CASE e = d
    <3>1. Putting(e)' = {} /\ Leaning(e)' = {}
      BY <1>2, <1>3, <1>7, <1>10, <2>1
    <3>2. Cardinality({}) = 0
      BY FS_EmptySet
    <3> QED
      BY <1>6, <2>1, <3>1, <3>2
  <2>2. CASE e = p
    <3>1. count[p] = refs[p] + Cardinality(Putting(p)) + Cardinality(Leaning(p))
      BY <1>1, <1>2 DEF Exact
    <3>2. Cardinality(Putting(p)) \in Nat /\ Cardinality(Leaning(p)) \in Nat
          /\ refs[p] \in Nat
      BY <1>1, FiniteCounts, DputAssumption DEF Typed
    <3> QED
      BY <1>1, <1>2, <1>4, <1>6, <1>7, <1>12, <2>2, <3>1, <3>2
  <2>3. CASE e # d /\ e # p
    BY <1>4, <1>5, <1>7, <1>10, <2>3 DEF Exact, Alive
  <2> QED
    BY <2>1, <2>2, <2>3
<1>14. Unused'
  <2> SUFFICES ASSUME NEW e \in Dentries, life'[e] # "alive"
               PROVE  /\ refs'[e] = 0 /\ Putting(e)' = {} /\ Leaning(e)' = {}
                      /\ life'[e] = "none" => count'[e] = 0
    BY DEF Unused, Alive
  <2>1. e # d /\ e # p
    BY <1>1, <1>2, <1>4, <1>6 DEF Alive
  <2> QED
    BY <1>4, <1>5, <1>7, <1>10, <2>1 DEF Unused, Alive
<1>15. Deciders'
  <2>1. ASSUME NEW u \in Threads, pc[u] \in Deciding
        PROVE  /\ cur[u] \in Dentries /\ cur[u] # d
               /\ cur[u] = p => pc[u] = "check"
    BY <1>1, <1>2, <2>1 DEF Deciders, Alive, Typed
  <2>2. count'[p] # 0 /\ count[p] \in Int
    BY <1>1, <1>2, <1>6 DEF Typed
  <2>3. ASSUME NEW u \in Threads, pc[u] \in Deciding
        PROVE  /\ life'[cur[u]] = life[cur[u]]
               /\ \/ count'[cur[u]] = count[cur[u]]
                  \/ pc[u] = "check" /\ count'[cur[u]] # 0
    BY <1>4, <1>5, <2>1, <2>2, <2>3
  <2>4. Others(t)
    BY <1>1 DEF Others
  <2>5. pc'[t] \notin Deciding
    BY DEF d_alloc, Deciding
  <2> QED
    BY <2>3, <2>4, <2>5, DecidersStay
<1>16. Tellers'
  <2>1. \A u \in Threads : pc[u] \in Telling => cur[u] \in Dentries /\ life[cur[u]] = "killed"
    BY DEF Typed, Tellers
  <2>2. \A u \in Threads : pc[u] \in Telling => life'[cur[u]] = "killed"
    BY <1>1, <1>4, <2>1
  <2> QED
    BY <1>1, <2>2, TellersStay DEF Others
<1> QED
  BY <1>13, <1>14, <1>15, <1>16

\* No dentry is killed by a step of a thread that kills none.
LEMMA NobodyIsKilled ==
  ASSUME Typed, Tellers, NEW t \in Threads, Others(t), UNCHANGED life,
         pc[t] \notin Telling, pc'[t] \notin Telling
  PROVE  /\ \A e \in Dentries : Leaning(e)' = Leaning(e)
         /\ Tellers'
<1>1. \A c \in Dentries : Leans(c)' <=> Leans(c)
  <2>1. ASSUME NEW c \in Dentries
        PROVE  Leans(c)' <=> Leans(c)
    BY LeansStays DEF Others
  <2> QED
    BY <2>1
<1>2. ASSUME NEW e \in Dentries
      PROVE  Leaning(e)' = Leaning(e)
  BY <1>1, LeaningStays DEF Children
<1>3. Tellers'
  BY TellersStay
<1> QED
  BY <1>2, <1>3

LEMMA GetCounts ==
  ASSUME Typed, Exact, Unused, Deciders, Tellers,
         NEW t \in Threads, NEW d \in Dentries, dget(t, d)
  PROVE  (Exact /\ Unused /\ Deciders /\ Tellers)'
<1>1. /\ pc[t] = "idle" /\ Alive(d) /\ refs[d] > 0
      /\ count' = [count EXCEPT ![d] = @ + 1]
      /\ refs' = [refs EXCEPT ![d] = @ + 1]
      /\ UNCHANGED <<life, pc, cur>>
  BY DEF dget
<1>2. count[d] > 0 /\ count[d] \in Int /\ refs[d] \in Nat
  BY <1>1, UsedIsCounted, DputAssumption DEF Typed
<1>3. /\ count'[d] = count[d] + 1 /\ refs'[d] = refs[d] + 1
      /\ \A e \in Dentries : e # d => count'[e] = count[e] /\ refs'[e] = refs[e]
  BY <1>1 DEF Typed
<1>4. \A e \in Dentries : Putting(e)' = Putting(e)
  BY <1>1 DEF Putting
<1>5. /\ \A e \in Dentries : Leaning(e)' = Leaning(e)
      /\ Tellers'
  BY <1>1, NobodyIsKilled DEF Others, Telling
<1>6. Exact'
  <2> SUFFICES ASSUME NEW e \in Dentries, life[e] = "alive"
               PROVE  count'[e] = refs'[e] + Cardinality(Putting(e)') + Cardinality(Leaning(e)')
    BY <1>1 DEF Exact, Alive
  <2>1. count[e] = refs[e] + Cardinality(Putting(e)) + Cardinality(Leaning(e))
    BY DEF Exact, Alive
  <2>2. Cardinality(Putting(e)) \in Nat /\ Cardinality(Leaning(e)) \in Nat
    BY FiniteCounts
  <2> QED
    BY <1>2, <1>3, <1>4, <1>5, <2>1, <2>2
<1>7. Unused'
  BY <1>1, <1>3, <1>4, <1>5 DEF Unused, Alive
<1>8. Deciders'
  <2>1. ASSUME NEW u \in Threads, pc[u] \in Deciding
        PROVE  /\ life'[cur[u]] = life[cur[u]]
               /\ \/ count'[cur[u]] = count[cur[u]]
                  \/ pc[u] = "check" /\ count'[cur[u]] # 0
    <3>1. cur[u] \in Dentries /\ (pc[u] # "check" => count[cur[u]] = 0)
      BY <2>1 DEF Deciders, Typed
    <3> QED
      BY <1>1, <1>2, <1>3, <3>1
  <2>2. Others(t) /\ pc'[t] \notin Deciding
    BY <1>1 DEF Others, Deciding
  <2> QED
    BY <2>1, <2>2, DecidersStay
<1> QED
  BY <1>5, <1>6, <1>7, <1>8

\* A reference becomes one that dput is to give back.
LEMMA DputCounts ==
  ASSUME Typed, Exact, Unused, Deciders, Tellers,
         NEW t \in Threads, NEW d \in Dentries, Others(t), dput(t, d)
  PROVE  (Exact /\ Unused /\ Deciders /\ Tellers)'
<1>1. /\ pc[t] = "idle" /\ pc'[t] = "put" /\ cur'[t] = d
      /\ refs[d] > 0 /\ refs' = [refs EXCEPT ![d] = @ - 1]
      /\ UNCHANGED <<life, count>>
  BY DEF dput, Go, Typed
<1>2. Alive(d) /\ refs[d] \in Nat
  BY <1>1, UsedIsCounted, DputAssumption DEF Typed
<1>3. /\ refs'[d] = refs[d] - 1
      /\ \A e \in Dentries : e # d => refs'[e] = refs[e]
  BY <1>1 DEF Typed
<1>4. /\ \A e \in Dentries : Leaning(e)' = Leaning(e)
      /\ Tellers'
  BY <1>1, NobodyIsKilled DEF Telling
<1>5. \A e \in Dentries : e # d => Putting(e)' = Putting(e)
  BY <1>1, PuttingStays DEF Others, Puts
<1>6. Putting(d)' = Putting(d) \cup {t} /\ t \notin Putting(d)
  <2>1. \A u : u \in Putting(d)' <=> u \in Putting(d) \/ u = t
    BY <1>1 DEF Putting, Others
  <2> QED
    BY <1>1, <2>1 DEF Putting
<1>7. Cardinality(Putting(d)') = Cardinality(Putting(d)) + 1
  <2>1. IsFiniteSet(Putting(d))
    BY FiniteCounts
  <2> QED
    BY <1>6, <2>1, FS_AddElement
<1>8. Exact'
  <2> SUFFICES ASSUME NEW e \in Dentries, life[e] = "alive"
               PROVE  count'[e] = refs'[e] + Cardinality(Putting(e)') + Cardinality(Leaning(e)')
    BY <1>1 DEF Exact, Alive
  <2>1. count[e] = refs[e] + Cardinality(Putting(e)) + Cardinality(Leaning(e))
    BY DEF Exact, Alive
  <2>2. Cardinality(Putting(e)) \in Nat /\ Cardinality(Leaning(e)) \in Nat
    BY FiniteCounts
  <2>3. CASE e = d
    BY <1>1, <1>2, <1>3, <1>4, <1>7, <2>1, <2>2, <2>3
  <2>4. CASE e # d
    BY <1>1, <1>3, <1>4, <1>5, <2>1, <2>4
  <2> QED
    BY <2>3, <2>4
<1>9. Unused'
  BY <1>1, <1>2, <1>3, <1>4, <1>5 DEF Unused, Alive
<1>10. Deciders'
  BY <1>1, DecidersStay DEF Deciding
<1> QED
  BY <1>4, <1>8, <1>9, <1>10

\* A reference is put.  Nobody else decides over the dentry: its count is
\* not zero, and its lock is free or t's.
LEMMA PutCounts ==
  ASSUME Typed, Locked, Exact, Unused, Deciders, Tellers,
         NEW t \in Threads, Others(t),
         \/ put_fast(t) /\ d_lock[cur[t]] = NoThread /\ count[cur[t]] > 0
         \/ put_slow(t) /\ count[cur[t]] > 0
  PROVE  (Exact /\ Unused /\ Deciders /\ Tellers)'
<1>1. PICK d \in Dentries : d = cur[t]
  BY DEF Typed
<1>2. /\ pc[t] \in Puts /\ count[d] > 0 /\ count[d] \in Int
      /\ count' = [count EXCEPT ![d] = @ - 1]
      /\ pc'[t] \in {"idle", "relock", "check"}
      /\ pc'[t] # "idle" => cur'[t] = d
      /\ pc'[t] = "relock" => count[d] = 1
      /\ d_lock[d] \in {NoThread, t}
      /\ UNCHANGED <<life, refs>>
  <2>1. CASE put_fast(t) /\ d_lock[cur[t]] = NoThread /\ count[cur[t]] > 0
    BY <1>1, <2>1 DEF put_fast, Go, Return, Typed, Puts
  <2>2. CASE put_slow(t) /\ count[cur[t]] > 0
    BY <1>1, <2>2 DEF put_slow, Go, Return, Typed, Puts, Locked, Holding
  <2> QED
    BY <2>1, <2>2
<1>3. t \in Putting(d) /\ Alive(d)
  <2>1. t \in Putting(d)
    BY <1>1, <1>2 DEF Putting, Puts
  <2> QED
    BY <2>1, UsedIsCounted
<1>4. /\ count'[d] = count[d] - 1
      /\ \A e \in Dentries : e # d => count'[e] = count[e]
  BY <1>2 DEF Typed
<1>5. /\ \A e \in Dentries : Leaning(e)' = Leaning(e)
      /\ Tellers'
  BY <1>2, NobodyIsKilled DEF Telling, Puts
<1>6. \A e \in Dentries : e # d => Putting(e)' = Putting(e)
  BY <1>1, <1>2, PuttingStays DEF Others, Puts
<1>7. Putting(d)' = Putting(d) \ {t}
  <2>1. \A u : u \in Putting(d)' <=> u \in Putting(d) /\ u # t
    BY <1>2 DEF Putting, Others
  <2> QED
    BY <2>1
<1>8. Cardinality(Putting(d)') = Cardinality(Putting(d)) - 1
  <2>1. IsFiniteSet(Putting(d))
    BY FiniteCounts
  <2> QED
    BY <1>3, <1>7, <2>1, FS_RemoveElement
<1>9. Exact'
  <2> SUFFICES ASSUME NEW e \in Dentries, life[e] = "alive"
               PROVE  count'[e] = refs'[e] + Cardinality(Putting(e)') + Cardinality(Leaning(e)')
    BY <1>2 DEF Exact, Alive
  <2>1. count[e] = refs[e] + Cardinality(Putting(e)) + Cardinality(Leaning(e))
    BY DEF Exact, Alive
  <2>2. /\ Cardinality(Putting(e)) \in Nat /\ Cardinality(Leaning(e)) \in Nat
        /\ refs[e] \in Nat
    BY FiniteCounts, DputAssumption DEF Typed
  <2>3. CASE e = d
    BY <1>2, <1>4, <1>5, <1>8, <2>1, <2>2, <2>3
  <2>4. CASE e # d
    BY <1>2, <1>4, <1>5, <1>6, <2>1, <2>4
  <2> QED
    BY <2>3, <2>4
<1>10. Unused'
  BY <1>2, <1>3, <1>4, <1>5, <1>6 DEF Unused, Alive
<1>11. \A u \in Threads \ {t} : ~(pc[u] \in Deciding /\ cur[u] = d)
  <2> SUFFICES ASSUME NEW u \in Threads \ {t}, pc[u] \in Deciding, cur[u] = d
               PROVE  FALSE
    OBVIOUS
  <2>1. pc[u] = "check"
    BY <1>2 DEF Deciders
  <2>2. d_lock[d] = u
    BY <2>1 DEF Locked, Holding
  <2> QED
    BY <1>2, <2>2, DputAssumption
<1>12. Deciders'
  <2>1. ASSUME NEW u \in Threads \ {t}, pc[u] \in Deciding
        PROVE  life'[cur[u]] = life[cur[u]] /\ count'[cur[u]] = count[cur[u]]
    BY <1>2, <1>4, <1>11, <2>1 DEF Typed
  <2>2. ASSUME pc'[t] \in Deciding
        PROVE  /\ life'[cur'[t]] = "alive"
               /\ pc'[t] # "check" => count'[cur'[t]] = 0
               /\ \A u \in Threads \ {t} : ~(pc[u] \in Deciding /\ cur[u] = cur'[t])
    <3>1. cur'[t] = d /\ pc'[t] \in {"relock", "check"}
      BY <1>2, <2>2 DEF Deciding
    <3> QED
      BY <1>2, <1>3, <1>4, <1>11, <3>1 DEF Alive
  <2> QED
    BY <2>1, <2>2, DecidersStay
<1> QED
  BY <1>5, <1>9, <1>10, <1>12

\* The dentry that is killed is not used, and still leans on its parent.
LEMMA MarkCounts ==
  ASSUME Typed, Exact, Unused, Deciders, Tellers,
         NEW t \in Threads, Others(t), kill_mark(t)
  PROVE  (Exact /\ Unused /\ Deciders /\ Tellers)'
<1>1. PICK d \in Dentries : d = cur[t]
  BY DEF Typed
<1>2. /\ pc[t] = "dying" /\ pc'[t] = (IF d = Root THEN "unlist" ELSE "lock_parent")
      /\ cur'[t] = d
      /\ count' = [count EXCEPT ![d] = Dead]
      /\ life' = [life EXCEPT ![d] = "killed"]
      /\ UNCHANGED refs
  BY <1>1 DEF kill_mark, Go, Typed
<1>3. /\ Alive(d) /\ count[d] = 0
      /\ \A u \in Threads \ {t} : ~(pc[u] \in Deciding /\ cur[u] = d)
  BY <1>1, <1>2 DEF Deciders, Deciding
<1>4. refs[d] = 0 /\ Putting(d) = {} /\ Leaning(d) = {}
  BY <1>3, ZeroIsUnused
<1>5. /\ life'[d] = "killed"
      /\ \A e \in Dentries : e # d => life'[e] = life[e] /\ count'[e] = count[e]
  BY <1>2 DEF Typed
<1>6. \A e \in Dentries : Putting(e)' = Putting(e)
  BY <1>2, PuttingStays DEF Others, Puts
<1>7. pc[t] \notin Telling /\ pc'[t] \in Telling
  BY <1>2 DEF Telling
<1>8. ASSUME NEW e \in Dentries
      PROVE  Leaning(e)' = Leaning(e)
  <2>1. ASSUME NEW c \in Dentries
        PROVE  Leans(c)' <=> Leans(c)
    <3>1. CASE c = d
      BY <1>2, <1>3, <1>7, <3>1 DEF Leans
    <3>2. CASE c # d
      BY <1>1, <1>2, <1>5, <3>2, LeansStays DEF Others
    <3> QED
      BY <3>1, <3>2
  <2> QED
    BY <2>1, LeaningStays DEF Children
<1>9. Exact' /\ Unused'
  BY <1>2, <1>4, <1>5, <1>6, <1>8 DEF Exact, Unused, Alive
<1>10. Deciders'
  <2>1. ASSUME NEW u \in Threads \ {t}, pc[u] \in Deciding
        PROVE  life'[cur[u]] = life[cur[u]] /\ count'[cur[u]] = count[cur[u]]
    BY <1>3, <1>5, <2>1 DEF Typed
  <2>2. pc'[t] \notin Deciding
    BY <1>2 DEF Deciding
  <2> QED
    BY <2>1, <2>2, DecidersStay
<1>11. Tellers'
  <2>1. ASSUME NEW u \in Threads \ {t}, pc[u] \in Telling
        PROVE  /\ cur[u] # d /\ life'[cur[u]] = "killed"
               /\ \A v \in Threads : pc[v] \in Telling /\ cur[v] = cur[u] => v = u
    <3>1. life[cur[u]] = "killed" /\ cur[u] \in Dentries
      BY <2>1 DEF Tellers, Typed
    <3> QED
      BY <1>3, <1>5, <2>1, <3>1 DEF Tellers, Alive
  <2> QED
    BY <1>2, <1>5, <1>7, <2>1 DEF Tellers, Others
<1> QED
  BY <1>9, <1>10, <1>11

\* A child leaves its parent, and the thread that took it away decides over
\* the parent if it was the last.
LEMMA UnlistCounts ==
  ASSUME Typed, Locked, Exact, Unused, Deciders, Tellers,
         NEW t \in Threads, Others(t), kill_unlist(t)
  PROVE  (Exact /\ Unused /\ Deciders /\ Tellers)'
<1>1. PICK d \in Dentries : d = cur[t]
  BY DEF Typed
<1> DEFINE p == Parent[d]
<1>2. /\ pc[t] = "unlist" /\ pc[t] \in Telling
      /\ pc'[t] \in {"idle", "retain"} /\ pc'[t] \notin Telling
      /\ UNCHANGED <<life, refs>> /\ p \in Dentries
  BY <1>1, DputAssumption DEF kill_unlist, Go, Return, Typed, Telling
<1>3. /\ life[d] = "killed"
      /\ \A u \in Threads \ {t} : ~(pc[u] \in Telling /\ cur[u] = d)
  BY <1>1, <1>2 DEF Tellers
<1>4. \A e \in Dentries : Putting(e)' = Putting(e)
  BY <1>2, PuttingStays DEF Others, Puts
<1>5. Tellers'
  BY <1>2, TellersStay
<1>6. \A c \in Dentries : c # d => (Leans(c)' <=> Leans(c))
  <2>1. ASSUME NEW c \in Dentries, c # d
        PROVE  Leans(c)' <=> Leans(c)
    BY <1>1, <1>2, <2>1, LeansStays DEF Others
  <2> QED
    BY <2>1
<1>7. Leans(d) /\ ~Leans(d)'
  BY <1>1, <1>2, <1>3 DEF Leans, Others, Alive
<1>8. CASE d = Root
  <2>1. UNCHANGED count /\ pc'[t] = "idle"
    BY <1>1, <1>8 DEF kill_unlist, Return, Go, Typed
  <2>2. \A e \in Dentries : Leaning(e)' = Leaning(e)
    <3>1. ASSUME NEW e \in Dentries
          PROVE  Leaning(e)' = Leaning(e)
      BY <1>6, <1>8, LeaningStays DEF Children
    <3> QED
      BY <3>1
  <2>3. Exact' /\ Unused'
    BY <1>2, <1>4, <2>1, <2>2 DEF Exact, Unused, Alive
  <2>4. Deciders'
    BY <1>2, <2>1, DecidersStay DEF Deciding
  <2> QED
    BY <1>5, <2>3, <2>4
<1>9. CASE d # Root
  <2>1. /\ d_lock[p] = t
        /\ count' = [count EXCEPT ![p] = @ - 1]
        /\ pc'[t] = "retain" => cur'[t] = p /\ count[p] = 1
    <3>1. d_lock[p] = t
      BY <1>1, <1>2, <1>9 DEF Locked
    <3>2. CASE count[p] # 1
      BY <1>1, <1>9, <3>1, <3>2 DEF kill_unlist, Return, Go, Typed
    <3>3. CASE count[p] = 1
      <4>1. count' = [count EXCEPT ![p] = 0] /\ cur'[t] = p
        BY <1>1, <1>2, <1>9, <3>3 DEF kill_unlist, Go, Typed
      <4>2. [count EXCEPT ![p] = 0] = [count EXCEPT ![p] = @ - 1]
        BY <3>3
      <4> QED
        BY <3>1, <3>3, <4>1, <4>2
    <3> QED
      BY <3>2, <3>3
  <2>2. d \in Children(p) /\ Children(p) \subseteq Dentries
    BY <1>9 DEF Children
  <2>3. d \in Leaning(p) /\ Leaning(p)' = Leaning(p) \ {d}
    <3>1. \A c : c \in Leaning(p) <=> c \in Children(p) /\ Leans(c)
      BY DEF Leaning, Leans, Telling
    <3>2. \A c : c \in Leaning(p)' <=> c \in Children(p) /\ Leans(c)'
      BY DEF Leaning, Leans, Telling, Children
    <3>3. \A c : c \in Leaning(p)' <=> c \in Leaning(p) /\ c # d
      BY <1>6, <1>7, <2>2, <3>1, <3>2
    <3> QED
      BY <1>7, <2>2, <3>1, <3>3
  <2>4. Alive(p) /\ count[p] > 0 /\ count[p] \in Int /\ p # d
    BY <1>2, <1>3, <2>3, UsedIsCounted DEF Alive, Typed
  <2>5. Cardinality(Leaning(p)') = Cardinality(Leaning(p)) - 1
    <3>1. IsFiniteSet(Leaning(p))
      BY <1>2, FiniteCounts
    <3> QED
      BY <2>3, <3>1, FS_RemoveElement
  <2>6. \A e \in Dentries : e # p => Leaning(e)' = Leaning(e)
    <3>1. ASSUME NEW e \in Dentries, e # p
          PROVE  \A c \in Children(e) : Leans(c)' <=> Leans(c)
      BY <1>6, <3>1 DEF Children
    <3> QED
      BY <3>1, LeaningStays
  <2>7. /\ count'[p] = count[p] - 1
        /\ \A e \in Dentries : e # p => count'[e] = count[e]
    BY <1>2, <2>1 DEF Typed
  <2> HIDE DEF p
  <2>8. Exact'
    <3> SUFFICES ASSUME NEW e \in Dentries, life[e] = "alive"
                 PROVE  count'[e] = refs'[e] + Cardinality(Putting(e)') + Cardinality(Leaning(e)')
      BY <1>2 DEF Exact, Alive
    <3>1. count[e] = refs[e] + Cardinality(Putting(e)) + Cardinality(Leaning(e))
      BY DEF Exact, Alive
    <3>2. /\ Cardinality(Putting(e)) \in Nat /\ Cardinality(Leaning(e)) \in Nat
          /\ refs[e] \in Nat
      BY FiniteCounts, DputAssumption DEF Typed
    <3>3. CASE e = p
      BY <1>2, <1>4, <2>5, <2>7, <3>1, <3>2, <3>3
    <3>4. CASE e # p
      BY <1>2, <1>4, <2>6, <2>7, <3>1, <3>4
    <3> QED
      BY <3>3, <3>4
  <2>9. Unused'
    BY <1>2, <1>4, <2>4, <2>6, <2>7 DEF Unused, Alive
  <2>10. \A u \in Threads \ {t} : ~(pc[u] \in Deciding /\ cur[u] = p)
    <3> SUFFICES ASSUME NEW u \in Threads \ {t}, pc[u] \in Deciding, cur[u] = p
                 PROVE  FALSE
      OBVIOUS
    <3>1. pc[u] = "check"
      BY <2>4 DEF Deciders
    <3>2. d_lock[p] = u
      BY <3>1 DEF Locked, Holding
    <3> QED
      BY <2>1, <3>2
  <2>11. Deciders'
    <3>1. ASSUME NEW u \in Threads \ {t}, pc[u] \in Deciding
          PROVE  life'[cur[u]] = life[cur[u]] /\ count'[cur[u]] = count[cur[u]]
      BY <1>2, <2>7, <2>10, <3>1 DEF Typed
    <3>2. ASSUME pc'[t] \in Deciding
          PROVE  /\ life'[cur'[t]] = "alive"
                 /\ count'[cur'[t]] = 0
                 /\ \A u \in Threads \ {t} : ~(pc[u] \in Deciding /\ cur[u] = cur'[t])
      <4>1. cur'[t] = p /\ count[p] = 1
        BY <1>2, <2>1, <3>2 DEF Deciding
      <4> QED
        BY <1>2, <2>4, <2>7, <2>10, <4>1 DEF Alive
    <3> QED
      BY <3>1, <3>2, DecidersStay
  <2> QED
    BY <1>5, <2>8, <2>9, <2>11
<1> QED
  BY <1>8, <1>9

\* However puts race, a count that has reached zero has one thread to decide.
LEMMA NextCounted ==
  ASSUME Typed, Locked, Counted, [Next]_vars
  PROVE  Counted'
<1>1. CASE UNCHANGED vars
  BY <1>1 DEF vars, Counted, Exact, Unused, Deciders, Tellers, Alive, Putting,
              Leaning, Children
<1>2. ASSUME NEW t \in Threads, NEW d \in Dentries, Step(t, d), ~borrowed'
      PROVE  (Exact /\ Unused /\ Deciders /\ Tellers)'
  <2>1. ~borrowed
    BY <1>2 DEF Step, Continue, Use, d_alloc, d_add, d_instantiate, dget, d_lookup,
      use_i_lock, dput, put_fast, put_slow_lock, put_slow, put_relock, put_check,
      LockForKill, kill_mark, kill_lock_parent, kill_unlist, kill_retain, used_i_lock
  <2>2. Exact /\ Unused /\ Deciders /\ Tellers
    BY <2>1 DEF Counted
  <2>3. Others(t)
    BY <1>2, OthersAreStill DEF Others
  <2> QED
    BY <1>2, <2>2, <2>3, CountingSteps, CalmCounts, AllocCounts, GetCounts, DputCounts,
       PutCounts, MarkCounts, UnlistCounts
<1> QED
  BY <1>1, <1>2, DputAssumption DEF Next, Step, Counted

-----------------------------------------------------------------------------
(***************************************************************************)
(* The invariant, and what it says.                                        *)
(***************************************************************************)
LEMMA InitIInv ==
  ASSUME Init
  PROVE  IInv
<1>1. /\ Root \in Dentries /\ Parent \in [Dentries -> Dentries]
      /\ MaxRefs \in Nat \ {0} /\ NoThread \notin Threads
  BY DputAssumption
<1>2. Typed
  <2>1. 0 \in 0 .. MaxRefs /\ 1 \in 0 .. MaxRefs
    BY <1>1
  <2>2. /\ life \in [Dentries -> {"none", "alive", "killed"}]
        /\ count \in [Dentries -> Int]
    BY DEF Init
  <2>3. refs \in [Dentries -> 0 .. MaxRefs]
    BY <2>1 DEF Init
  <2>4. /\ d_lock \in [Dentries -> Threads \cup {NoThread}]
        /\ i_lock \in [Dentries -> Threads \cup {NoThread}]
    BY DEF Init
  <2>5. pc \in [Threads -> Pcs] /\ cur \in [Threads -> Dentries]
    BY <1>1 DEF Init, Pcs
  <2>6. /\ hashed \subseteq Dentries /\ positive \subseteq Dentries
        /\ borrowed \in BOOLEAN
    BY DEF Init
  <2> QED
    BY <2>2, <2>3, <2>4, <2>5, <2>6 DEF Typed
<1>3. Locked /\ Owned
  BY <1>1 DEF Init, Locked, Owned, Holding, Telling, Inoded
<1>4. ASSUME NEW d \in Dentries
      PROVE  Putting(d) = {} /\ Leaning(d) = {}
  BY DEF Init, Putting, Leaning, Children, Alive
<1>5. Exact /\ Unused
  <2>1. Cardinality({}) = 0
    BY FS_EmptySet
  <2> QED
    BY <1>4, <2>1 DEF Init, Exact, Unused, Alive
<1>6. Deciders /\ Tellers
  BY DEF Init, Deciders, Tellers, Deciding, Telling
<1> QED
  BY <1>2, <1>3, <1>5, <1>6 DEF IInv, Counted

\* The invariant above holds of every dentry, whatever calls and puts come.
THEOREM Invariance == Spec => []IInv
<1>1. IInv /\ [Next]_vars => IInv'
  BY NextTyped, NextLocked, NextOwned, NextCounted DEF IInv
<1> QED
  BY <1>1, InitIInv, PTL DEF Spec

\* The count of a living dentry is the number of references there are to it,
\* those of its callers, of puts that have begun and of its children.
THEOREM CountsAreExact == Spec => []CountIsExact
<1>1. IInv => CountIsExact
  <2> SUFFICES ASSUME IInv
               PROVE  CountIsExact
    OBVIOUS
  <2>1. ASSUME ~borrowed, NEW d \in Dentries, life[d] # "killed"
        PROVE  count[d] >= 0
    <3>1. Exact /\ Unused /\ Typed
      BY <2>1 DEF IInv, Counted
    <3>2. refs[d] \in Nat /\ Cardinality(Putting(d)) \in Nat
          /\ Cardinality(Leaning(d)) \in Nat
      BY <3>1, FiniteCounts, DputAssumption DEF Typed
    <3>3. CASE Alive(d)
      BY <3>1, <3>2, <3>3 DEF Exact
    <3>4. CASE ~Alive(d)
      BY <2>1, <3>1, <3>4 DEF Unused, Typed, Alive
    <3> QED
      BY <3>3, <3>4
  <2>2. TypeOK
    BY <2>1 DEF TypeOK, IInv, Typed
  <2> QED
    BY <2>2 DEF CountIsExact, IInv, Counted, Exact
<1> QED
  BY <1>1, Invariance, PTL

\* A dentry is killed when nobody has it, and by one thread.
THEOREM KillsAreSafe == Spec => []KilledOnceUnused
<1>1. IInv => KilledOnceUnused
  <2> SUFFICES ASSUME IInv
               PROVE  KilledOnceUnused
    OBVIOUS
  <2>1. NothingLeansOnKilled
    BY DEF IInv, Counted, Unused, NothingLeansOnKilled, Alive
  <2>2. ASSUME ~borrowed, NEW t \in Threads, pc[t] \in Deciding, count[cur[t]] <= 0
        PROVE  /\ Alive(cur[t])
               /\ \A u \in Threads : pc[u] \in Deciding /\ cur[u] = cur[t] => u = t
    <3>1. Typed /\ Exact /\ Unused /\ Deciders
      BY <2>2 DEF IInv, Counted
    <3>2. PICK d \in Dentries : d = cur[t]
      BY <3>1 DEF Typed
    <3>3. Alive(d)
      BY <2>2, <3>1, <3>2 DEF Deciders
    <3>4. refs[d] = 0 /\ Putting(d) = {} /\ Leaning(d) = {}
      BY <2>2, <3>1, <3>2, ZeroIsUnused
    <3>5. count[d] = 0
      BY <3>1, <3>3, <3>4, FS_EmptySet DEF Exact
    <3> QED
      BY <2>2, <3>1, <3>2, <3>3, <3>5 DEF Deciders
  <2> QED
    BY <2>1, <2>2 DEF KilledOnceUnused, OneKiller
<1> QED
  BY <1>1, Invariance, PTL

\* Outside dput no thread has a lock, whatever references it was given.
THEOREM NoLockIsKept == Spec => []LocksAreReleased
<1>1. IInv => LocksAreReleased
  BY DEF IInv, Owned, LocksAreReleased, Holding, Telling, Inoded
<1> QED
  BY <1>1, Invariance, PTL

=============================================================================
