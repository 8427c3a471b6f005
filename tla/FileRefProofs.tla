---------------------------- MODULE FileRefProofs ----------------------------
(***************************************************************************)
(* Proofs about the file reference count, for any set of threads, any      *)
(* width of the counter and any bounds.                                    *)
(***************************************************************************)
EXTENDS FileRef, TLAPS

\* The references a caller may hold at once stay below the sign bit, and the
\* stray operations after a release stay inside the dead zone.
CountFits == MaxRefs <= 8 * Scale
StrayFits == MaxStray + 1 < 2 * Scale

-----------------------------------------------------------------------------
(* The inductive invariant, in named parts. *)

NoCloser == \A t \in Threads : pc[t] # "closing"

\* Only the thread that read ONEREF while it held the only reference can be
\* between the read and the cmpxchg of file_ref_put_close.
OneCloser == \A t, u \in Threads :
               pc[t] = "closing" /\ pc[u] = "closing" => t = u

\* Before the release the counter is exact: one less than the references,
\* the closing thread's included; -1 is NOREF.
Exact == winners = 0 =>
           /\ NoCloser => refcnt = Dec(refs)
           /\ ~NoCloser => refcnt = refs

\* Before the release no thread is past it, or in the saturation path.
NotReleased == winners = 0 =>
                 /\ freed = 0 /\ stray = 0
                 /\ \A t \in Threads : pc[t] \notin {"fput", "badval"}

\* After it nobody holds a reference and the counter is dead: as far from
\* DEAD as stray operations have moved it.
NearDead(c) == DEAD - stray <= c /\ c <= DEAD + stray

Released == winners # 0 =>
              /\ winners = 1 /\ refs = 0
              /\ NoCloser
              /\ NearDead(refcnt)
              /\ \A t \in Threads : pc[t] = "badval" => NearDead(local[t])

\* __fput runs in the one winner.
FreedOnce ==
  /\ freed <= 1
  /\ freed = 1 => \A t \in Threads : pc[t] # "fput"
  /\ \A t, u \in Threads : pc[t] = "fput" /\ pc[u] = "fput" => t = u

Core == TypeOK /\ OneCloser /\ Exact /\ NotReleased /\ Released /\ FreedOnce

\* The counter is at most one step beyond MAXREF, from where a put brings it
\* back.
Bounded == winners = 0 => refs = 0 \/ refcnt <= 8 * Scale

-----------------------------------------------------------------------------

\* The successor and predecessor of a counter value are counter values.
LEMMA IncDec ==
  ASSUME NEW c \in Counter
  PROVE  Inc(c) \in Counter /\ Dec(c) \in Counter
BY ScaleAssumption DEF Inc, Dec, Counter, NOREF

LEMMA InitTypeOK == Init => TypeOK
<1>1. 0 \in Counter
  BY ScaleAssumption DEF Counter, NOREF
<1>2. 0 \in 0 .. MaxStray
  BY BoundAssumption
<1>3. SUFFICES ASSUME Init PROVE TypeOK
  OBVIOUS
<1>4. warned \in BOOLEAN
  BY <1>3 DEF Init
<1>5. QED
  BY <1>1, <1>2, <1>3, <1>4 DEF Init, TypeOK, ONEREF

LEMMA NextTypeOK == TypeOK /\ [Next]_vars => TypeOK'
<1> SUFFICES ASSUME TypeOK, [Next]_vars
             PROVE  TypeOK'
  OBVIOUS
<1>1. DEAD \in Counter /\ SATURATED \in Counter
  BY ScaleAssumption DEF DEAD, SATURATED, Counter, NOREF
<1>2. Inc(refcnt) \in Counter /\ Dec(refcnt) \in Counter
  BY IncDec DEF TypeOK
<1>3. ASSUME NEW t \in Threads, Step(t)
      PROVE  TypeOK'
  <2>1. CASE file_ref_inc(t)
    BY <2>1, <1>2, BoundAssumption DEF file_ref_inc, MayGet, TypeOK, IsNegative
  <2>2. CASE file_ref_put(t)
    BY <2>2, <1>2, BoundAssumption DEF file_ref_put, MayPut, TypeOK
  <2>3. CASE put_close_read(t)
    BY <2>3, BoundAssumption DEF put_close_read, MayPut, TypeOK
  <2>4. CASE put_noref(t)
    BY <2>4, <1>1 DEF put_noref, TypeOK
  <2>5. CASE put_badval(t)
    BY <2>5, <1>1 DEF put_badval, TypeOK
  <2>6. CASE put_close_cmpxchg(t)
    BY <2>6, <1>1 DEF put_close_cmpxchg, TypeOK
  <2>7. CASE fput(t)
    BY <2>7 DEF fput, TypeOK
  <2>8. QED
    BY <1>3, <2>1, <2>2, <2>3, <2>4, <2>5, <2>6, <2>7 DEF Step, InFlight
<1>4. CASE UNCHANGED vars
  BY <1>4 DEF vars, TypeOK
<1>5. QED
  BY <1>3, <1>4 DEF Next, Quiescent

\* Every variable keeps its type, whatever the bounds are.
THEOREM TypeCorrect == Spec => []TypeOK
BY InitTypeOK, NextTypeOK, PTL DEF Spec

-----------------------------------------------------------------------------

LEMMA InitCore == Init => Core /\ Bounded
<1> SUFFICES ASSUME Init
             PROVE  Core /\ Bounded
  OBVIOUS
<1>1. TypeOK
  BY InitTypeOK
<1>2. Exact /\ Bounded
  BY ScaleAssumption DEF Init, Exact, Bounded, Dec, ONEREF, NoCloser
<1>3. OneCloser /\ NotReleased /\ Released /\ FreedOnce
  BY DEF Init, OneCloser, NotReleased, Released, FreedOnce
<1>4. QED
  BY <1>1, <1>2, <1>3 DEF Core

\* A live counter within bounds is negative only when no reference is left.
LEMMA LiveCounter ==
  ASSUME Core, Bounded, winners = 0
  PROVE  /\ refcnt \in 0 .. 8 * Scale \/ refcnt = NOREF
         /\ refcnt = NOREF <=> (refs = 0 /\ NoCloser)
         /\ refs > 0 /\ NoCloser => refcnt = refs - 1
BY ScaleAssumption
   DEF Core, TypeOK, Exact, Bounded, Dec, NOREF, Counter

LEMMA IncCore ==
  ASSUME StrayFits, Core, Bounded, NEW t \in Threads, file_ref_inc(t), TypeOK'
  PROVE  Core'
<1> USE DEF Core
<1>1. pc' = pc /\ local' = local /\ winners' = winners /\ freed' = freed
  BY DEF file_ref_inc
<1>2. OneCloser' /\ FreedOnce'
  BY <1>1 DEF OneCloser, FreedOnce
<1>3. CASE winners = 0
  <2>1. refs' = refs + 1 /\ stray' = stray
    BY <1>3 DEF file_ref_inc, MayGet
  <2>2. refcnt' = Inc(refcnt)
    BY DEF file_ref_inc
  <2>3. Exact'
    BY <1>1, <1>3, <2>1, <2>2, LiveCounter, ScaleAssumption
       DEF Exact, NoCloser, Inc, Dec, NOREF, TypeOK, Counter
  <2>4. NotReleased' /\ Released'
    BY <1>1, <1>3, <2>1 DEF NotReleased, Released
  <2>5. QED
    BY <1>2, <2>3, <2>4
<1>4. CASE winners # 0
  <2>1. refs' = refs /\ stray' = stray + 1 /\ stray < MaxStray
    BY <1>4 DEF file_ref_inc, MayGet
  <2>2. refcnt' = refcnt + 1
    BY <1>4, ScaleAssumption, BoundAssumption
       DEF file_ref_inc, Inc, Released, NearDead, DEAD, NOREF, TypeOK,
           Counter, StrayFits
  <2>3. Released'
    BY <1>1, <1>4, <2>1, <2>2, ScaleAssumption, BoundAssumption
       DEF Released, NoCloser, NearDead, DEAD, TypeOK, Counter
  <2>4. Exact' /\ NotReleased'
    BY <1>1, <1>4 DEF Exact, NotReleased
  <2>5. QED
    BY <1>2, <2>3, <2>4
<1>5. QED
  BY <1>3, <1>4

LEMMA PutCore ==
  ASSUME StrayFits, Core, Bounded, NEW t \in Threads, file_ref_put(t), TypeOK'
  PROVE  Core'
<1> USE DEF Core
<1>1. /\ winners' = winners /\ freed' = freed
      /\ refcnt' = Dec(refcnt)
      /\ local' = [local EXCEPT ![t] = Dec(refcnt)]
      /\ pc[t] = "idle"
      /\ pc'[t] \in {"idle", "noref", "badval"}
      /\ \A u \in Threads \ {t} : pc'[u] = pc[u]
  BY DEF file_ref_put, TypeOK
<1>2. OneCloser' /\ FreedOnce' /\ NoCloser' = NoCloser
  BY <1>1 DEF OneCloser, FreedOnce, NoCloser
<1>3. CASE winners = 0
  <2>1. refs > 0 /\ refs' = refs - 1 /\ stray' = stray
    BY <1>3 DEF file_ref_put, MayPut
  <2>2. refcnt' = Dec(refcnt) /\ refcnt # NOREF
    BY <1>1, <1>3, <2>1, LiveCounter DEF TypeOK
  <2>3. Exact'
    BY <1>1, <1>2, <1>3, <2>1, <2>2, ScaleAssumption
       DEF Exact, Dec, TypeOK, Counter
  <2>4. pc'[t] # "badval"
    <3>1. ~IsNegative(Dec(refcnt)) \/ Dec(refcnt) = NOREF
      BY <1>3, <2>2, LiveCounter, ScaleAssumption
         DEF Dec, IsNegative, MAXREF, NOREF, TypeOK, Counter
    <3>2. QED
      BY <3>1 DEF file_ref_put, TypeOK
  <2>5. NotReleased' /\ Released'
    BY <1>1, <1>3, <2>1, <2>4 DEF NotReleased, Released
  <2>6. QED
    BY <1>2, <2>3, <2>5
<1>4. CASE winners # 0
  <2>1. refs' = refs /\ stray' = stray + 1 /\ stray < MaxStray
    BY <1>4 DEF file_ref_put, MayPut
  <2>2. Dec(refcnt) = refcnt - 1
    BY <1>4, ScaleAssumption, BoundAssumption
       DEF Dec, Released, NearDead, DEAD, NOREF, TypeOK, Counter, StrayFits
  <2>3. NearDead(refcnt)' /\ local'[t] = refcnt'
    BY <1>1, <1>4, <2>1, <2>2, ScaleAssumption, BoundAssumption
       DEF Released, NearDead, DEAD, TypeOK, Counter
  <2>4. ASSUME NEW u \in Threads, pc'[u] = "badval"
        PROVE  NearDead(local[u])'
    <3>1. CASE u = t
      BY <2>3, <3>1 DEF NearDead
    <3>2. CASE u # t
      <4>1. local'[u] = local[u] /\ NearDead(local[u])
        BY <1>1, <1>4, <2>4, <3>2 DEF Released, TypeOK
      <4>2. QED
        BY <2>1, <4>1, ScaleAssumption, BoundAssumption
           DEF NearDead, DEAD, TypeOK, Counter
    <3>3. QED
      BY <3>1, <3>2
  <2>5. Released'
    BY <1>1, <1>2, <1>4, <2>1, <2>3, <2>4 DEF Released
  <2>6. Exact' /\ NotReleased'
    BY <1>1, <1>4 DEF Exact, NotReleased
  <2>7. QED
    BY <1>2, <2>5, <2>6
<1>5. QED
  BY <1>3, <1>4

LEMMA CloseReadCore ==
  ASSUME StrayFits, Core, Bounded, NEW t \in Threads, put_close_read(t), TypeOK'
  PROVE  Core'
<1> USE DEF Core
<1>1. /\ winners' = winners /\ freed' = freed /\ local' = local
      /\ refcnt = ONEREF /\ refcnt' = refcnt
      /\ pc[t] = "idle" /\ pc' = [pc EXCEPT ![t] = "closing"]
  BY DEF put_close_read
<1>2. winners = 0
  BY <1>1, ScaleAssumption, BoundAssumption
     DEF Released, NearDead, DEAD, ONEREF, TypeOK, StrayFits
<1>3. refs > 0 /\ refs' = refs - 1 /\ stray' = stray
  BY <1>2 DEF put_close_read, MayPut
<1>4. NoCloser /\ refs = 1
  BY <1>1, <1>2, <1>3, ScaleAssumption DEF Exact, Dec, ONEREF, TypeOK
<1>5. OneCloser' /\ FreedOnce' /\ ~NoCloser'
  BY <1>1, <1>4 DEF OneCloser, FreedOnce, NoCloser, TypeOK
<1>6. Exact'
  BY <1>1, <1>3, <1>4, <1>5 DEF Exact, ONEREF
<1>7. NotReleased' /\ Released'
  BY <1>1, <1>2, <1>3 DEF NotReleased, Released, TypeOK
<1>8. QED
  BY <1>5, <1>6, <1>7

LEMMA NorefCore ==
  ASSUME StrayFits, Core, Bounded, NEW t \in Threads, put_noref(t), TypeOK'
  PROVE  Core'
<1> USE DEF Core
<1>1. /\ local' = local /\ refs' = refs /\ stray' = stray /\ freed' = freed
      /\ pc[t] = "noref"
      /\ \A u \in Threads \ {t} : pc'[u] = pc[u]
  BY DEF put_noref, TypeOK
<1>2. CASE refcnt # NOREF
  <2>1. winners' = winners /\ refcnt' = refcnt /\ pc'[t] = "idle"
    BY <1>2 DEF put_noref, TypeOK
  <2>2. NoCloser' = NoCloser
    BY <1>1, <2>1 DEF NoCloser
  <2>3. OneCloser' /\ FreedOnce' /\ Exact' /\ NotReleased'
    BY <1>1, <2>1, <2>2 DEF OneCloser, FreedOnce, Exact, NotReleased
  <2>4. Released'
    BY <1>1, <2>1, <2>2 DEF Released, NearDead
  <2>5. QED
    BY <2>3, <2>4
<1>3. CASE refcnt = NOREF
  <2>1. winners' = winners + 1 /\ refcnt' = DEAD /\ pc'[t] = "fput"
    BY <1>3, ScaleAssumption DEF put_noref, TypeOK, NOREF
  <2>2. winners = 0
    BY <1>3, ScaleAssumption, BoundAssumption
       DEF Released, NearDead, DEAD, NOREF, TypeOK, StrayFits
  <2>3. refs = 0 /\ NoCloser
    BY <1>3, <2>2, LiveCounter
  <2>4. Released'
    <3>1. NoCloser'
      BY <1>1, <2>1, <2>3 DEF NoCloser
    <3>2. \A u \in Threads : pc'[u] # "badval"
      BY <1>1, <2>1, <2>2 DEF NotReleased
    <3>3. NearDead(refcnt)'
      BY <1>1, <2>1, ScaleAssumption DEF NearDead, DEAD, TypeOK
    <3>4. QED
      BY <1>1, <2>1, <2>2, <2>3, <3>1, <3>2, <3>3 DEF Released
  <2>5. OneCloser' /\ FreedOnce'
    BY <1>1, <2>1, <2>2, <2>3
       DEF OneCloser, NoCloser, FreedOnce, NotReleased
  <2>6. Exact' /\ NotReleased'
    BY <2>1, <2>2 DEF Exact, NotReleased
  <2>7. QED
    BY <2>4, <2>5, <2>6
<1>4. QED
  BY <1>2, <1>3

LEMMA BadvalCore ==
  ASSUME StrayFits, Core, Bounded, NEW t \in Threads, put_badval(t), TypeOK'
  PROVE  Core'
<1> USE DEF Core
<1>1. /\ local' = local /\ refs' = refs /\ stray' = stray
      /\ freed' = freed /\ winners' = winners
      /\ pc[t] = "badval" /\ pc'[t] = "idle"
      /\ \A u \in Threads \ {t} : pc'[u] = pc[u]
  BY DEF put_badval, TypeOK
<1>2. winners # 0
  BY <1>1 DEF NotReleased
<1>3. local[t] >= RELEASED
  BY <1>1, <1>2, ScaleAssumption, BoundAssumption
     DEF Released, NearDead, DEAD, RELEASED, TypeOK, Counter, StrayFits
<1>4. refcnt' = DEAD
  BY <1>3, ScaleAssumption DEF put_badval, TypeOK, Counter, RELEASED
<1>5. NearDead(refcnt)'
  BY <1>1, <1>4, ScaleAssumption DEF NearDead, DEAD, TypeOK
<1>6. NoCloser'
  BY <1>1, <1>2 DEF Released, NoCloser
<1>7. Released'
  BY <1>1, <1>2, <1>5, <1>6 DEF Released, NearDead
<1>8. OneCloser' /\ FreedOnce' /\ Exact' /\ NotReleased'
  BY <1>1, <1>2 DEF OneCloser, FreedOnce, Exact, NotReleased
<1>9. QED
  BY <1>7, <1>8

LEMMA CmpxchgCore ==
  ASSUME StrayFits, Core, Bounded, NEW t \in Threads, put_close_cmpxchg(t), TypeOK'
  PROVE  Core'
<1> USE DEF Core
<1>1. /\ local' = local /\ stray' = stray /\ freed' = freed
      /\ pc[t] = "closing"
      /\ \A u \in Threads \ {t} : pc'[u] = pc[u]
  BY DEF put_close_cmpxchg, TypeOK
<1>2. winners = 0 /\ ~NoCloser
  BY <1>1 DEF Released, NoCloser, TypeOK
<1>3. refcnt = refs
  BY <1>2 DEF Exact
<1>4. \A u \in Threads \ {t} : pc'[u] # "closing"
  BY <1>1 DEF OneCloser
<1>5. CASE refcnt = ONEREF
  <2>1. /\ winners' = 1 /\ refcnt' = DEAD /\ refs' = refs
        /\ pc'[t] = "fput"
    BY <1>2, <1>5 DEF put_close_cmpxchg, TypeOK
  <2>2. NoCloser' /\ OneCloser'
    BY <1>4, <2>1 DEF NoCloser, OneCloser
  <2>3. \A u \in Threads : pc'[u] # "badval"
    BY <1>1, <1>2, <2>1 DEF NotReleased
  <2>4. NearDead(refcnt)'
    BY <1>1, <2>1, ScaleAssumption DEF NearDead, DEAD, TypeOK
  <2>5. Released'
    BY <1>3, <1>5, <2>1, <2>2, <2>3, <2>4 DEF Released, ONEREF
  <2>6. FreedOnce' /\ Exact' /\ NotReleased'
    BY <1>1, <1>2, <2>1 DEF FreedOnce, Exact, NotReleased
  <2>7. QED
    BY <2>2, <2>5, <2>6
<1>6. CASE refcnt # ONEREF
  <2>1. /\ winners' = winners /\ refcnt' = refcnt /\ refs' = refs + 1
        /\ pc'[t] = "idle"
    BY <1>2, <1>6 DEF put_close_cmpxchg, TypeOK, ONEREF
  <2>2. NoCloser' /\ OneCloser'
    BY <1>4, <2>1 DEF NoCloser, OneCloser
  <2>3. Exact'
    BY <1>3, <2>1, <2>2, ScaleAssumption DEF Exact, Dec, TypeOK
  <2>4. FreedOnce' /\ NotReleased' /\ Released'
    BY <1>1, <1>2, <2>1 DEF FreedOnce, NotReleased, Released
  <2>5. QED
    BY <2>2, <2>3, <2>4
<1>7. QED
  BY <1>5, <1>6

LEMMA FputCore ==
  ASSUME StrayFits, Core, Bounded, NEW t \in Threads, fput(t), TypeOK'
  PROVE  Core'
<1> USE DEF Core
<1>1. /\ refcnt' = refcnt /\ local' = local /\ refs' = refs /\ stray' = stray
      /\ winners' = winners /\ freed' = freed + 1
      /\ pc[t] = "fput" /\ pc'[t] = "idle"
      /\ \A u \in Threads \ {t} : pc'[u] = pc[u]
  BY DEF fput, TypeOK
<1>2. winners # 0
  BY <1>1 DEF NotReleased
<1>3. freed = 0
  BY <1>1 DEF FreedOnce, TypeOK
<1>4. FreedOnce' /\ OneCloser'
  BY <1>1, <1>3 DEF FreedOnce, OneCloser
<1>5. NoCloser'
  BY <1>1, <1>2 DEF Released, NoCloser
<1>6. Released' /\ Exact' /\ NotReleased'
  BY <1>1, <1>2, <1>5 DEF Released, NearDead, Exact, NotReleased
<1>7. QED
  BY <1>4, <1>6

\* Every step from a state whose counter is within bounds keeps the core.
LEMMA NextCore ==
  ASSUME StrayFits, Core, Bounded, [Next]_vars
  PROVE  Core'
<1>1. TypeOK'
  BY NextTypeOK DEF Core
<1>2. ASSUME NEW t \in Threads, Step(t)
      PROVE  Core'
  BY <1>1, <1>2, IncCore, PutCore, CloseReadCore, NorefCore, BadvalCore,
     CmpxchgCore, FputCore DEF Step, InFlight
<1>3. CASE UNCHANGED vars
  BY <1>3 DEF vars, Core, TypeOK, OneCloser, Exact, NoCloser, NotReleased,
              Released, NearDead, FreedOnce
<1>4. QED
  BY <1>2, <1>3 DEF Next, Quiescent

-----------------------------------------------------------------------------
(* Callers that hold at most MaxRefs references.                           *)

\* A failed cmpxchg gives the closing thread's reference back.
RefsBounded ==
  winners = 0 => refs <= MaxRefs \/ (NoCloser /\ refs = MaxRefs + 1)

IInv == Core /\ RefsBounded

LEMMA RefsBoundedSuffices ==
  ASSUME CountFits, Core, RefsBounded
  PROVE  Bounded
BY ScaleAssumption, BoundAssumption
   DEF CountFits, Core, TypeOK, Exact, RefsBounded, Bounded, Dec, Counter

LEMMA RefsBoundedStep ==
  ASSUME StrayFits, CountFits, IInv, [Next]_vars
  PROVE  RefsBounded'
<1> USE DEF IInv, Core
<1>1. ASSUME NEW t \in Threads, file_ref_inc(t)
      PROVE  RefsBounded'
  BY <1>1, BoundAssumption DEF file_ref_inc, MayGet, RefsBounded, TypeOK
<1>2. ASSUME NEW t \in Threads, file_ref_put(t)
      PROVE  RefsBounded'
  BY <1>2, BoundAssumption DEF file_ref_put, MayPut, RefsBounded, TypeOK
<1>3. ASSUME NEW t \in Threads, put_close_read(t)
      PROVE  RefsBounded'
  BY <1>3, BoundAssumption DEF put_close_read, MayPut, RefsBounded, TypeOK
<1>4. ASSUME NEW t \in Threads, put_noref(t)
      PROVE  RefsBounded'
  <2>1. refs' = refs /\ (winners' = 0 => winners = 0)
    BY <1>4 DEF put_noref, TypeOK
  <2>2. NoCloser => NoCloser'
    BY <1>4 DEF put_noref, NoCloser, TypeOK
  <2>3. QED
    BY <2>1, <2>2 DEF RefsBounded
<1>5. ASSUME NEW t \in Threads, put_badval(t)
      PROVE  RefsBounded'
  BY <1>5 DEF put_badval, RefsBounded, NotReleased
<1>6. ASSUME NEW t \in Threads, put_close_cmpxchg(t)
      PROVE  RefsBounded'
  <2>1. winners = 0 /\ ~NoCloser
    BY <1>6 DEF put_close_cmpxchg, Released, NoCloser
  <2>2. refs <= MaxRefs
    BY <2>1 DEF RefsBounded
  <2>3. CASE refcnt = ONEREF
    BY <1>6, <2>1, <2>3 DEF put_close_cmpxchg, RefsBounded, TypeOK
  <2>4. CASE refcnt # ONEREF
    <3>1. refs' = refs + 1
      BY <1>6, <2>4 DEF put_close_cmpxchg
    <3>2. NoCloser'
      BY <1>6, <2>4 DEF put_close_cmpxchg, OneCloser, NoCloser, TypeOK
    <3>3. QED
      BY <2>2, <3>1, <3>2, BoundAssumption DEF RefsBounded, TypeOK
  <2>5. QED
    BY <2>3, <2>4
<1>7. ASSUME NEW t \in Threads, fput(t)
      PROVE  RefsBounded'
  BY <1>7 DEF fput, RefsBounded, NotReleased
<1>8. CASE UNCHANGED vars
  BY <1>8 DEF vars, RefsBounded, NoCloser
<1>9. QED
  BY <1>1, <1>2, <1>3, <1>4, <1>5, <1>6, <1>7, <1>8
     DEF Next, Step, InFlight, Quiescent

LEMMA IInvInductive ==
  ASSUME StrayFits, CountFits
  PROVE  /\ Init => IInv
         /\ IInv /\ [Next]_vars => IInv'
<1>1. Init => RefsBounded
  BY BoundAssumption DEF Init, RefsBounded
<1>2. Init => IInv
  BY <1>1, InitCore DEF IInv
<1>3. IInv /\ [Next]_vars => IInv'
  BY NextCore, RefsBoundedSuffices, RefsBoundedStep DEF IInv
<1>4. QED
  BY <1>2, <1>3

\* Whatever gets race with the last put and whatever is done to the counter
\* after the release: while the references fit below the sign bit and the
\* stray operations in the dead zone, one put at most is told to free the
\* file, and only when no caller holds a reference.
THEOREM ReleaseIsUnique ==
  ASSUME StrayFits, CountFits
  PROVE  Spec => []ReleasedOnce
<1>1. IInv => ReleasedOnce
  BY DEF IInv, Core, Released, ReleasedOnce, TypeOK
<1>2. QED
  BY <1>1, IInvInductive, PTL DEF Spec

-----------------------------------------------------------------------------
(* Any number of references.                                               *)

Unwarned == warned \/ (Core /\ Bounded)

LEMMA UnwarnedStep ==
  ASSUME StrayFits, Unwarned, [Next]_vars
  PROVE  Unwarned'
<1>1. CASE warned
  BY <1>1 DEF Unwarned, Next, Step, InFlight, Quiescent, vars, file_ref_inc,
              file_ref_put, put_close_read, put_noref, put_badval,
              put_close_cmpxchg, fput
<1>2. CASE Core /\ Bounded
  <2>1. Core'
    BY <1>2, NextCore
  <2>2. warned' \/ Bounded'
    <3> USE <1>2 DEF Core
    <3>1. ASSUME NEW t \in Threads, file_ref_inc(t)
          PROVE  warned' \/ Bounded'
      <4>1. CASE IsNegative(refcnt)
        BY <3>1, <4>1 DEF file_ref_inc
      <4>2. CASE ~IsNegative(refcnt)
        BY <3>1, <4>2, ScaleAssumption
           DEF file_ref_inc, IsNegative, MAXREF, NOREF, Inc, Bounded, TypeOK,
               Counter
      <4>3. QED
        BY <4>1, <4>2
    <3>2. ASSUME NEW t \in Threads, file_ref_put(t)
          PROVE  Bounded'
      BY <3>2, <2>1, ScaleAssumption
         DEF file_ref_put, MayPut, Exact, Dec, NOREF, Bounded, TypeOK, Counter
    <3>3. ASSUME NEW t \in Threads, put_close_read(t)
          PROVE  Bounded'
      BY <3>3, ScaleAssumption DEF put_close_read, Bounded, ONEREF
    <3>4. ASSUME NEW t \in Threads, put_noref(t)
          PROVE  Bounded'
      BY <3>4 DEF put_noref, Bounded, TypeOK
    <3>5. ASSUME NEW t \in Threads, put_badval(t)
          PROVE  Bounded'
      BY <3>5 DEF put_badval, Bounded, NotReleased
    <3>6. ASSUME NEW t \in Threads, put_close_cmpxchg(t)
          PROVE  Bounded'
      <4>1. winners = 0 /\ ~NoCloser
        BY <3>6 DEF put_close_cmpxchg, Released, NoCloser
      <4>2. refcnt <= 8 * Scale
        BY <4>1, ScaleAssumption DEF Bounded, Exact, TypeOK
      <4>3. QED
        BY <3>6, <4>1, <4>2 DEF put_close_cmpxchg, Bounded, TypeOK
    <3>7. ASSUME NEW t \in Threads, fput(t)
          PROVE  Bounded'
      BY <3>7 DEF fput, Bounded
    <3>8. CASE UNCHANGED vars
      BY <3>8 DEF vars, Bounded
    <3>9. QED
      BY <3>1, <3>2, <3>3, <3>4, <3>5, <3>6, <3>7, <3>8
         DEF Next, Step, InFlight, Quiescent
  <2>3. QED
    BY <2>1, <2>2 DEF Unwarned
<1>3. QED
  BY <1>1, <1>2 DEF Unwarned

\* However many references are taken: an object is never released twice, or
\* released while in use, without one of the two WARN_ONCE having fired.
THEOREM NoReleaseBeforeWarning ==
  ASSUME StrayFits
  PROVE  Spec => []NoSilentRelease
<1>1. Init => Unwarned
  BY InitCore DEF Unwarned
<1>2. Unwarned /\ [Next]_vars => Unwarned'
  BY UnwarnedStep
<1>3. Unwarned => NoSilentRelease
  BY DEF Unwarned, Core, Released, NoSilentRelease, ReleasedOnce, TypeOK
<1>4. QED
  BY <1>1, <1>2, <1>3, PTL DEF Spec

-----------------------------------------------------------------------------
(* The counter implements the life of a file.                              *)

LEMMA StepRefines ==
  ASSUME StrayFits, CountFits, IInv, [Next]_vars
  PROVE  [Life!Next]_<<refs, freed>>
<1> USE DEF IInv, Core
<1> USE DEF Life!Next, Life!Get, Life!Put, Life!Free
<1>1. ASSUME NEW t \in Threads, file_ref_inc(t)
      PROVE  [Life!Next]_<<refs, freed>>
  BY <1>1 DEF file_ref_inc, MayGet, NotReleased
<1>2. ASSUME NEW t \in Threads, file_ref_put(t)
      PROVE  [Life!Next]_<<refs, freed>>
  BY <1>2 DEF file_ref_put, MayPut
<1>3. ASSUME NEW t \in Threads, put_close_read(t)
      PROVE  [Life!Next]_<<refs, freed>>
  BY <1>3 DEF put_close_read, MayPut
<1>4. ASSUME NEW t \in Threads, put_noref(t) \/ put_badval(t)
      PROVE  UNCHANGED <<refs, freed>>
  BY <1>4 DEF put_noref, put_badval
<1>5. ASSUME NEW t \in Threads, put_close_cmpxchg(t)
      PROVE  [Life!Next]_<<refs, freed>>
  <2>1. winners = 0
    BY <1>5 DEF put_close_cmpxchg, Released, NoCloser
  <2>2. QED
    BY <1>5, <2>1 DEF put_close_cmpxchg, NotReleased
<1>6. ASSUME NEW t \in Threads, fput(t)
      PROVE  Life!Free
  <2>1. winners # 0
    BY <1>6 DEF fput, NotReleased
  <2>2. refs = 0 /\ freed = 0
    BY <1>6, <2>1 DEF fput, Released, FreedOnce, TypeOK
  <2>3. QED
    BY <1>6, <2>2 DEF fput
<1>7. CASE UNCHANGED vars
  BY <1>7 DEF vars
<1>8. QED
  BY <1>1, <1>2, <1>3, <1>4, <1>5, <1>6, <1>7
     DEF Next, Step, InFlight, Quiescent

\* Every step of the counter is a get, a put or the one free of FileLife, or
\* changes nothing FileLife knows of.
THEOREM CounterImplementsLife ==
  ASSUME StrayFits, CountFits
  PROVE  Spec => ImplementsLife
<1>1. Init => Life!Init
  BY DEF Init, Life!Init
<1>2. IInv /\ [Next]_vars => [Life!Next]_<<refs, freed>>
  BY StepRefines
<1>3. QED
  BY <1>1, <1>2, IInvInductive, PTL DEF Spec, ImplementsLife, Life!Spec

=============================================================================
