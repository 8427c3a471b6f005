---------------------------- MODULE PathRefProofs ----------------------------
(***************************************************************************)
(* The walk resolves a path name to what it means, and an open opens what  *)
(* its name means, for every tree, every forest of mounts, every path      *)
(* name, every nesting of links and every limit.                           *)
(***************************************************************************)
EXTENDS PathRef, PathOpenProofs

-----------------------------------------------------------------------------
(* Places: the definitions of PathRef agree with the climbs of the walk.   *)

LEMMA TopDef ==
  ASSUME NEW p \in Locations
  PROVE  Top[p] = IF \A m \in Mounts : ~Hides(m, p) THEN p
                  ELSE Top[MountRoot(CHOOSE m \in Mounts : Hides(m, p))]
<1> DEFINE bare(q) == \A m \in Mounts : ~Hides(m, q)
           over(q) == MountRoot(CHOOSE m \in Mounts : Hides(m, q))
           stop == {q \in Locations : bare(q)}
           step == [q \in Locations |-> over(q)]
           res == [q \in Locations |-> q]
<1>1. \A q \in Locations \ stop : step[q] \in Locations
  BY DepthGrows
<1>2. PICK f : Solves(Locations, stop, step, res, f)
  <2>1. stop \in SUBSET Locations
    OBVIOUS
  <2> HIDE DEF stop, step, res
  <2> QED
    BY <1>1, <2>1, TailRecursion
<1> HIDE DEF bare, over
<1>3. \A q \in Locations : f[q] = IF bare(q) THEN q ELSE f[over(q)]
  BY <1>2 DEF Solves
<1>4. f = [q \in Locations |-> f[q]]
  BY <1>2 DEF Solves
<1> HIDE DEF stop, step, res
<1>5. f = [q \in Locations |-> IF bare(q) THEN q ELSE f[over(q)]]
  BY <1>3, <1>4
<1>6. Top = [q \in Locations |-> IF bare(q) THEN q ELSE Top[over(q)]]
  BY <1>5 DEF Top, bare, over
<1> QED
  BY <1>6 DEF bare, over

\* A place holds one mount at most.
LEMMA OneOver ==
  ASSUME NEW p \in Locations
  PROVE  /\ Over(p) = {m \in Mounts : Hides(m, p)}
         /\ \A m, n \in Over(p) : m = n
         /\ Over(p) # {} =>
              (CHOOSE m \in Over(p) : TRUE) = (CHOOSE m \in Mounts : Hides(m, p))
<1>1. Over(p) = {m \in Mounts : Hides(m, p)}
  BY DEF Over, Hides, MountRoot
<1>2. ASSUME NEW m \in Over(p), NEW n \in Over(p)
      PROVE  m = n
  BY <1>1, ForestAssumption DEF Hides
<1>3. ASSUME Over(p) # {}
      PROVE  (CHOOSE m \in Over(p) : TRUE) = (CHOOSE m \in Mounts : Hides(m, p))
  <2>1. (CHOOSE m \in Over(p) : TRUE) \in Over(p)
    BY <1>3
  <2>2. (CHOOSE m \in Mounts : Hides(m, p)) \in Over(p)
    BY <1>1, <1>3
  <2> QED
    BY <1>2, <2>1, <2>2
<1> QED
  BY <1>1, <1>2, <1>3

LEMMA TopIsTraverse ==
  ASSUME NEW p \in Locations
  PROVE  Top[p] = Traverse(p)
<1>1. ASSUME NEW q \in Locations
      PROVE  Top[q] = IF Over(q) = {} THEN q
                      ELSE Top[MountRoot(CHOOSE m \in Over(q) : TRUE)]
  BY TopDef, OneOver
<1> DEFINE Good(m) == Top[MountRoot(m)] = MountRoot(TopMount[m])
           N == Cardinality(Mounts)
           T == {N - Depth[m] : m \in {k \in Mounts : ~Good(k)}}
<1>2. T = {}
  <2> SUFFICES ASSUME T # {}
               PROVE  FALSE
    OBVIOUS
  <2>1. T \in SUBSET Nat
    BY DepthGrows
  <2>2. PICK d \in T : \A e \in T : d <= e
    <3> HIDE DEF T
    <3> QED
      BY <2>1, Least
  <2>3. PICK n \in Mounts : ~Good(n) /\ d = N - Depth[n]
    BY <2>2
  <2>4. MountRoot(n) \in Locations
    BY DepthGrows
  <2>5. Over(MountRoot(n)) # {}
    <3> SUFFICES ASSUME Over(MountRoot(n)) = {}
                 PROVE  Good(n)
      BY <2>3
    <3>1. TopMount[n] = n /\ Top[MountRoot(n)] = MountRoot(n)
      BY <1>1, <2>4, TopMountDef
    <3> QED
      BY <3>1
  <2>6. PICK k : k = CHOOSE i \in Over(MountRoot(n)) : TRUE
    OBVIOUS
  <2>7. /\ k \in Over(MountRoot(n))
        /\ TopMount[n] = TopMount[k] /\ Top[MountRoot(n)] = Top[MountRoot(k)]
    BY <1>1, <2>4, <2>5, <2>6, TopMountDef
  <2>8. k \in Mounts /\ Depth[n] < Depth[k]
    BY <2>4, <2>7, OverIsDeeper DEF MountRoot
  <2>9. ~Good(k)
    BY <2>3, <2>7
  <2>10. N - Depth[k] \in T
    BY <2>8, <2>9
  <2> HIDE DEF T
  <2>11. d <= N - Depth[k]
    BY <2>2, <2>10
  <2> QED
    BY <2>3, <2>8, <2>11, DepthGrows
<1>3. \A m \in Mounts : Good(m)
  BY <1>2
<1>4. CASE Over(p) = {}
  BY <1>1, <1>4 DEF Traverse
<1>5. CASE Over(p) # {}
  <2>1. PICK m : m = CHOOSE n \in Over(p) : TRUE
    OBVIOUS
  <2>2. m \in Mounts
    BY <1>5, <2>1 DEF Over
  <2>3. Top[p] = Top[MountRoot(m)] /\ Traverse(p) = MountRoot(TopMount[m])
    BY <1>1, <1>5, <2>1 DEF Traverse
  <2> QED
    BY <1>3, <2>2, <2>3
<1> QED
  BY <1>4, <1>5

LEMMA ClimbDef ==
  ASSUME NEW top \in Roots, NEW p \in Locations
  PROVE  Climb[[top |-> top, at |-> p]] =
           IF p = top \/ p.dentry # RootOf[p.mnt] \/ Place[p.mnt] = p THEN p
           ELSE Climb[[top |-> top, at |-> Place[p.mnt]]]
<1> DEFINE A == [top : Roots, at : Locations]
           ends(w) == \/ w.at = w.top
                      \/ w.at.dentry # RootOf[w.at.mnt]
                      \/ Place[w.at.mnt] = w.at
           up(w) == [w EXCEPT !.at = Place[w.at.mnt]]
           stop == {w \in A : ends(w)}
           step == [w \in A |-> up(w)]
           res == [w \in A |-> w.at]
<1>1. \A w \in A \ stop : step[w] \in A
  BY DepthGrows DEF Locations
<1>2. PICK f : Solves(A, stop, step, res, f)
  <2>1. stop \in SUBSET A
    OBVIOUS
  <2> HIDE DEF A, stop, step, res
  <2> QED
    BY <1>1, <2>1, TailRecursion
<1>3. \A w \in A : f[w] = IF ends(w) THEN w.at ELSE f[up(w)]
  <2> HIDE DEF A, ends, up
  <2> QED
    BY <1>2 DEF Solves
<1>4. f = [w \in A |-> f[w]]
  <2> HIDE DEF A, stop, step, res
  <2> QED
    BY <1>2 DEF Solves
<1> HIDE DEF stop, step, res
<1>5. f = [w \in A |-> IF ends(w) THEN w.at ELSE f[up(w)]]
  <2> HIDE DEF A, ends, up
  <2> QED
    BY <1>3, <1>4
<1>6. Climb = [w \in A |-> IF ends(w) THEN w.at ELSE Climb[up(w)]]
  BY <1>5 DEF Climb
<1> DEFINE w == [top |-> top, at |-> p]
<1>7. w \in A /\ up(w) = [top |-> top, at |-> Place[p.mnt]]
  OBVIOUS
<1>8. Climb[w] = IF ends(w) THEN w.at ELSE Climb[up(w)]
  <2> HIDE DEF A, ends, up, w
  <2> QED
    BY <1>6, <1>7
<1> QED
  BY <1>7, <1>8

\* From the root of a mount, other than fs root, the climb of PathRef ends
\* where choose_mountpoint does, or at a place that has no parent.
LEMMA ClimbIsMountpoint ==
  ASSUME NEW top \in Roots, NEW m \in Mounts, MountRoot(m) # top
  PROVE  LET z == Climb[[top |-> top, at |-> MountRoot(m)]]
             y == Mountpoint[<<top, m>>]
         IN  /\ z \in Locations
             /\ y = Nowhere <=> (z = top \/ z.dentry = RootOf[z.mnt])
             /\ y # Nowhere => z = y
<1> DEFINE z(n) == Climb[[top |-> top, at |-> MountRoot(n)]]
           y(n) == Mountpoint[<<top, n>>]
           Fine(n, x) == /\ x \in Locations
                         /\ y(n) = Nowhere <=> (x = top \/ x.dentry = RootOf[x.mnt])
                         /\ y(n) # Nowhere => x = y(n)
           Good(n) == MountRoot(n) # top => Fine(n, z(n))
           T == {Depth[n] : n \in {k \in Mounts : ~Good(k)}}
<1> SUFFICES Good(m)
  OBVIOUS
<1> SUFFICES ASSUME ~Good(m)
             PROVE  FALSE
  OBVIOUS
<1>1. T \in SUBSET Nat /\ T # {}
  BY DepthGrows
<1>2. PICK d \in T : \A e \in T : d <= e
  <2> HIDE DEF T
  <2> QED
    BY <1>1, Least
<1>3. PICK n \in Mounts : ~Good(n) /\ d = Depth[n]
  BY <1>2
<1>4. /\ MountRoot(n) \in Locations /\ MountRoot(n).mnt = n
      /\ MountRoot(n).dentry = RootOf[n] /\ MountRoot(n) # top
      /\ Place[n] \in Locations /\ Place[n] # Nowhere
      /\ Place[n].mnt \in Mounts
  BY <1>3, DepthGrows, TreeAssumption DEF MountRoot, Locations, Nowhere
<1>5. y(n) = Stepping(top, n)
  BY MountpointDef
<1>6. z(n) = IF Place[n] = MountRoot(n) THEN MountRoot(n)
             ELSE Climb[[top |-> top, at |-> Place[n]]]
  BY <1>4, ClimbDef
<1>7. CASE Place[n] = MountRoot(n)
  BY <1>3, <1>4, <1>5, <1>6, <1>7 DEF Stepping
<1>8. CASE Place[n] # MountRoot(n) /\ (Place[n] = top \/ Place[n].dentry # RootOf[Place[n].mnt])
  <2>1. z(n) = Place[n]
    BY <1>4, <1>6, <1>8, ClimbDef
  <2> QED
    BY <1>3, <1>4, <1>5, <1>8, <2>1 DEF Stepping
<1>9. CASE Place[n] # MountRoot(n) /\ Place[n] # top /\ Place[n].dentry = RootOf[Place[n].mnt]
  <2> DEFINE k == Place[n].mnt
  <2>1. Place[n] = MountRoot(k)
    BY <1>4, <1>9 DEF MountRoot, Locations
  <2>2. k \in Mounts /\ Depth[k] < Depth[n]
    BY <1>4, <1>9, DepthGrows
  <2>3. z(n) = z(k) /\ y(n) = y(k)
    BY <1>5, <1>6, <1>9, <2>1 DEF Stepping
  <2>4. ~Good(k)
    BY <1>3, <1>9, <2>1, <2>3
  <2>5. Depth[k] \in T
    BY <2>2, <2>4
  <2> HIDE DEF T, k
  <2>6. Depth[n] <= Depth[k]
    BY <1>2, <1>3, <2>5
  <2> QED
    BY <2>2, <2>6, DepthGrows
<1> QED
  BY <1>7, <1>8, <1>9

\* ".." goes where follow_dotdot goes.
LEMMA ParentIsPlaced ==
  ASSUME NEW top \in Roots, NEW p \in Locations
  PROVE  LET y == Mountpoint[<<top, p.mnt>>]
             at_root == p = top \/ (p.dentry = RootOf[p.mnt] /\ y = Nowhere)
             below == IF p.dentry = RootOf[p.mnt] THEN y ELSE p
         IN  /\ Parent(top, p) \in Locations
             /\ at_root => Parent(top, p) = p
             /\ ~at_root => /\ below \in Locations
                            /\ Parent(top, p) = [mnt |-> below.mnt, dentry |-> UpDir[below.dentry]]
                            /\ below.mnt = p.mnt => below = p
<1> DEFINE y == Mountpoint[<<top, p.mnt>>]
           z == Climb[[top |-> top, at |-> p]]
<1>1. p.mnt \in Mounts /\ p.dentry \in Dentries
  BY DEF Locations
<1>2. ASSUME NEW q \in Locations
      PROVE  /\ [q EXCEPT !.dentry = UpDir[@]] = [mnt |-> q.mnt, dentry |-> UpDir[q.dentry]]
             /\ [q EXCEPT !.dentry = UpDir[@]] \in Locations
  BY TreeAssumption DEF Locations
<1>3. CASE p = top
  <2>1. z = p
    BY <1>3, ClimbDef
  <2> QED
    BY <1>3, <2>1 DEF Parent
<1>4. CASE p # top /\ p.dentry # RootOf[p.mnt]
  <2>1. z = p
    BY <1>4, ClimbDef
  <2> QED
    BY <1>2, <1>4, <2>1 DEF Parent
<1>5. CASE p # top /\ p.dentry = RootOf[p.mnt]
  <2>1. p = MountRoot(p.mnt)
    BY <1>5 DEF Locations, MountRoot
  <2>2. /\ z \in Locations
        /\ y = Nowhere <=> (z = top \/ z.dentry = RootOf[z.mnt])
        /\ y # Nowhere => z = y
    BY <1>1, <1>5, <2>1, ClimbIsMountpoint
  <2>3. y # Nowhere => y \in Locations /\ Depth[y.mnt] < Depth[p.mnt]
    BY <1>1, MountpointIsPlaced
  <2>4. CASE y = Nowhere
    BY <1>5, <2>2, <2>4 DEF Parent
  <2>5. CASE y # Nowhere
    <3>1. Parent(top, p) = [y EXCEPT !.dentry = UpDir[@]]
      BY <2>2, <2>5 DEF Parent
    <3>2. y \in Locations /\ y.mnt # p.mnt
      BY <1>1, <2>3, <2>5, DepthGrows
    <3> QED
      BY <1>2, <1>5, <2>5, <3>1, <3>2
  <2> QED
    BY <2>4, <2>5
<1> QED
  BY <1>3, <1>4, <1>5

-----------------------------------------------------------------------------
(***************************************************************************)
(* Queries.                                                                *)
(***************************************************************************)
LEMMA DownIsPlaced ==
  ASSUME NEW w \in Queries, w.todo # <<>>
  PROVE  /\ Head(w.todo) \in Components /\ Tail(w.todo) \in Seq(Components)
         /\ Down(w).mnt \in Mounts /\ Down(w).dentry \in Dentries \cup {Absent}
         /\ Down(w).dentry # Absent =>
              /\ Down(w) \in Locations /\ Found(w) \in Locations
              /\ Found(w) = IF Head(w.todo) = "." THEN w.at ELSE Traverse(Down(w))
<1>1. /\ w.top \in Roots /\ w.at \in Locations /\ w.todo \in Seq(Components)
      /\ Head(w.todo) \in Components /\ Tail(w.todo) \in Seq(Components)
  BY DEF Queries
<1>2. w.at.mnt \in Mounts /\ w.at.dentry \in Dentries
  BY <1>1 DEF Locations
<1>3. \A p : p \in Locations => p.mnt \in Mounts /\ p.dentry \in Dentries
  BY DEF Locations
<1>4. CASE Head(w.todo) = "."
  BY <1>1, <1>2, <1>4 DEF Down, Found
<1>5. CASE Head(w.todo) = ".."
  <2>1. Down(w) \in Locations
    BY <1>1, <1>5, ParentIsPlaced DEF Down
  <2>2. Found(w) = Traverse(Down(w)) /\ Found(w) \in Locations
    BY <1>5, <2>1, TopIsTraverse, TraverseIsPlaced DEF Found
  <2> QED
    BY <1>1, <1>3, <1>5, <2>1, <2>2
<1>6. CASE Head(w.todo) \notin {".", ".."}
  <2>1. Head(w.todo) \in Names
    BY <1>1, <1>6 DEF Components
  <2>2. Child[w.at.dentry][Head(w.todo)] \in Dentries \cup {Absent}
    BY <1>2, <2>1, TreeAssumption
  <2>3. Down(w) = [mnt |-> w.at.mnt, dentry |-> Child[w.at.dentry][Head(w.todo)]]
    BY <1>1, <1>6 DEF Down, Locations
  <2>4. Down(w).dentry # Absent => Down(w) \in Locations
    BY <1>2, <2>2, <2>3 DEF Locations
  <2>5. CASE Down(w).dentry # Absent
    <3>1. Found(w) = Traverse(Down(w)) /\ Found(w) \in Locations
      BY <1>6, <2>4, <2>5, TopIsTraverse, TraverseIsPlaced DEF Found
    <3> QED
      BY <1>1, <1>2, <1>6, <2>2, <2>3, <2>4, <3>1
  <2>6. CASE Down(w).dentry = Absent
    BY <1>1, <1>2, <1>6, <2>2, <2>3, <2>6
  <2> QED
    BY <2>5, <2>6
<1> QED
  BY <1>4, <1>5, <1>6

\* Where a query that is not at its end goes on.
LEMMA OnwardFields ==
  ASSUME NEW w \in Queries, w.todo # <<>>, Trouble(w) = "ok"
  PROVE  LET v == Onward(w) IN
         /\ v \in Queries /\ v.top = w.top /\ v.goal = w.goal /\ v.ban = w.ban
         /\ v.follow = (w.follow \/ Slashed(w)) /\ v.mustdir = (w.mustdir \/ Slashed(w))
         /\ IsLink(w) =>
              /\ LinkBody(w) \in [abs : BOOLEAN, comps : Seq(Components), slash : BOOLEAN]
              /\ v.at = Origin(w) /\ v.todo = LinkBody(w).comps \o Tail(w.todo)
              /\ v.slash = (IF Last(w) THEN LinkBody(w).slash ELSE w.slash)
              /\ v.left = w.left - 1
         /\ ~IsLink(w) =>
              /\ v.at = Found(w) /\ v.todo = Tail(w.todo)
              /\ v.slash = w.slash /\ v.left = w.left
<1> DEFINE v == Onward(w)
           fo == w.follow \/ Slashed(w)
           mu == w.mustdir \/ Slashed(w)
           x == [w EXCEPT !.follow = fo, !.mustdir = mu]
<1>1. /\ w.top \in Roots /\ w.goal \in Goals /\ w.ban \in SUBSET Bans
      /\ w.at \in Locations /\ w.todo \in Seq(Components) /\ w.slash \in BOOLEAN
      /\ w.follow \in BOOLEAN /\ w.mustdir \in BOOLEAN /\ w.left \in Nat
  BY DEF Queries
<1>2. Slashed(w) \in BOOLEAN
  BY <1>1 DEF Slashed, Last, Plain
<1>3. fo \in BOOLEAN /\ mu \in BOOLEAN
  BY <1>1, <1>2
<1>4. x = [w EXCEPT !.follow = @ \/ Slashed(w), !.mustdir = @ \/ Slashed(w)]
  OBVIOUS
<1> HIDE DEF fo, mu
<1>5. /\ x \in Queries /\ x.top = w.top /\ x.goal = w.goal /\ x.ban = w.ban
      /\ x.at = w.at /\ x.todo = w.todo /\ x.slash = w.slash /\ x.left = w.left
      /\ x.follow = fo /\ x.mustdir = mu
  BY <1>3 DEF Queries
<1> HIDE DEF x
<1>6. Tail(w.todo) \in Seq(Components) /\ Down(w).dentry # Absent
      /\ Down(w) \in Locations /\ Found(w) \in Locations
  BY DownIsPlaced DEF Trouble
<1>7. CASE IsLink(w)
  <2> DEFINE b == LinkBody(w)
             todo == b.comps \o Tail(w.todo)
             sl == IF Last(w) THEN b.slash ELSE w.slash
             le == w.left - 1
  <2>1. b \in [abs : BOOLEAN, comps : Seq(Components), slash : BOOLEAN]
    <3>1. Found(w).dentry \in Dentries /\ Kind[Found(w).dentry] = "link"
      BY <1>6, <1>7 DEF IsLink, Locations
    <3> QED
      BY <3>1, TextAssumption DEF LinkBody
  <2>2. w.left # 0
    BY <1>7 DEF Trouble
  <2>3. le \in Nat /\ sl \in BOOLEAN /\ Origin(w) \in Locations
    BY <1>1, <2>1, <2>2, TreeAssumption DEF Origin
  <2>4. b.comps \in Seq(Components)
    BY <2>1
  <2>5. todo \in Seq(Components)
    <3> HIDE DEF b
    <3> QED
      BY <1>6, <2>4, ConcatProperties
  <2>6. v = [x EXCEPT !.at = Origin(w), !.todo = todo, !.slash = sl, !.left = le]
    BY <1>4, <1>5, <1>7 DEF Onward
  <2> HIDE DEF b, todo, sl, le, v
  <2>7. /\ v \in Queries /\ v.top = w.top /\ v.goal = w.goal /\ v.ban = w.ban
        /\ v.at = Origin(w) /\ v.todo = todo /\ v.slash = sl /\ v.left = le
        /\ v.follow = fo /\ v.mustdir = mu
    BY <1>5, <2>3, <2>5, <2>6 DEF Queries
  <2> QED
    BY <1>7, <2>1, <2>7 DEF b, todo, sl, le, v, fo, mu
<1>8. CASE ~IsLink(w)
  <2>1. v = [x EXCEPT !.at = Found(w), !.todo = Tail(w.todo)]
    BY <1>4, <1>5, <1>8 DEF Onward
  <2> HIDE DEF v
  <2>2. /\ v \in Queries /\ v.top = w.top /\ v.goal = w.goal /\ v.ban = w.ban
        /\ v.at = Found(w) /\ v.todo = Tail(w.todo) /\ v.slash = w.slash
        /\ v.left = w.left /\ v.follow = fo /\ v.mustdir = mu
    BY <1>5, <1>6, <2>1 DEF Queries
  <2> QED
    BY <1>8, <2>2 DEF v, fo, mu
<1> QED
  BY <1>7, <1>8

\* No step of a query leads to the file an open makes.
LEMMA OnwardInTree ==
  ASSUME NEW w \in Queries, w.todo # <<>>, Trouble(w) = "ok", w.at.dentry # New
  PROVE  Onward(w).at.dentry # New
<1>1. /\ w.top \in Roots /\ w.at \in Locations
      /\ w.at.mnt \in Mounts /\ w.at.dentry \in Dentries
      /\ Head(w.todo) \in Components /\ Down(w).dentry # Absent
      /\ Down(w) \in Locations
      /\ Found(w) = IF Head(w.todo) = "." THEN w.at ELSE Traverse(Down(w))
  BY DownIsPlaced DEF Queries, Trouble, Locations
<1>2. Down(w).dentry # New
  <2>1. CASE Head(w.todo) = "."
    BY <2>1 DEF Down
  <2>2. CASE Head(w.todo) = ".."
    <3>1. Down(w) = Parent(w.top, w.at)
      BY <2>2 DEF Down
    <3>2. \/ Parent(w.top, w.at) = w.at
          \/ \E p \in Locations : Parent(w.top, w.at).dentry = UpDir[p.dentry]
      <4> DEFINE y == Mountpoint[<<w.top, w.at.mnt>>]
                 below == IF w.at.dentry = RootOf[w.at.mnt] THEN y ELSE w.at
      <4>1. \/ Parent(w.top, w.at) = w.at
            \/ /\ below \in Locations
               /\ Parent(w.top, w.at) = [mnt |-> below.mnt, dentry |-> UpDir[below.dentry]]
        BY <1>1, ParentIsPlaced
      <4> HIDE DEF below
      <4>2. [mnt |-> below.mnt, dentry |-> UpDir[below.dentry]].dentry = UpDir[below.dentry]
        OBVIOUS
      <4> QED
        BY <4>1, <4>2
    <3>3. \A p \in Locations : UpDir[p.dentry] # New
      BY NewAssumption DEF Locations
    <3> QED
      BY <3>1, <3>2, <3>3
  <2>3. CASE Head(w.todo) \notin {".", ".."}
    <3>1. Head(w.todo) \in Names /\ Down(w).dentry = Child[w.at.dentry][Head(w.todo)]
      BY <1>1, <2>3 DEF Components, Down, Locations
    <3> QED
      BY <1>1, <3>1, NewAssumption
  <2> QED
    BY <2>1, <2>2, <2>3
<1>3. Found(w).dentry # New
  <2>1. Traverse(Down(w)) # Down(w) =>
          \E m \in Mounts : Traverse(Down(w)).dentry = RootOf[m]
    BY <1>1, TraverseIsPlaced
  <2> QED
    BY <1>1, <1>2, <2>1, NewAssumption
<1>4. Origin(w).dentry # New
  BY <1>1, TreeAssumption, NewAssumption DEF Origin
<1>5. Onward(w).at = IF IsLink(w) THEN Origin(w) ELSE Found(w)
  BY OnwardFields
<1> QED
  BY <1>3, <1>4, <1>5

\* Resolve is what its definition says.
LEMMA ResolveDef ==
  ASSUME NEW w \in Queries
  PROVE  Resolve[w] = IF Stops(w) THEN Outcome(w) ELSE Resolve[Onward(w)]
<1> DEFINE stop == {q \in Queries : Stops(q)}
           step == [q \in Queries |-> Onward(q)]
           res == [q \in Queries |-> Outcome(q)]
<1>1. \A q \in Queries \ stop : step[q] \in Queries
  <2> SUFFICES ASSUME NEW q \in Queries, ~Stops(q)
               PROVE  Onward(q) \in Queries
    OBVIOUS
  <2>1. q.todo # <<>> /\ Trouble(q) = "ok"
    BY DEF Stops, Arrived
  <2> QED
    BY <2>1, OnwardFields
<1>2. PICK f : Solves(Queries, stop, step, res, f)
  <2>1. stop \in SUBSET Queries
    OBVIOUS
  <2> HIDE DEF stop, step, res
  <2> QED
    BY <1>1, <2>1, TailRecursion
<1>3. \A q \in Queries : f[q] = IF Stops(q) THEN Outcome(q) ELSE f[Onward(q)]
  BY <1>2 DEF Solves
<1>4. f = [q \in Queries |-> f[q]]
  BY <1>2 DEF Solves
<1> HIDE DEF stop, step, res
<1>5. f = [q \in Queries |-> IF Stops(q) THEN Outcome(q) ELSE f[Onward(q)]]
  BY <1>3, <1>4
<1>6. Resolve = [q \in Queries |-> IF Stops(q) THEN Outcome(q) ELSE Resolve[Onward(q)]]
  BY <1>5 DEF Resolve
<1> QED
  BY <1>6

-----------------------------------------------------------------------------
(***************************************************************************)
(* What is left of saved names.                                            *)
(***************************************************************************)
LEMMA HeadTailOfConcat ==
  ASSUME NEW S, NEW s \in Seq(S), NEW u \in Seq(S), s # <<>>
  PROVE  /\ s \o u # <<>> /\ Head(s \o u) = Head(s)
         /\ Tail(s \o u) = Tail(s) \o u
<1>1. /\ s \o u \in Seq(S) /\ Len(s \o u) = Len(s) + Len(u)
      /\ \A i \in 1 .. Len(s) + Len(u) :
           (s \o u)[i] = IF i <= Len(s) THEN s[i] ELSE u[i - Len(s)]
  BY ConcatProperties
<1>2. Len(s) \in Nat \ {0} /\ Len(u) \in Nat
  OBVIOUS
<1>3. s \o u # <<>>
  BY <1>1, <1>2
<1>4. Head(s \o u) = (s \o u)[1] /\ Head(s) = s[1]
  OBVIOUS
<1>5. Head(s \o u) = Head(s)
  BY <1>1, <1>2, <1>4
<1>6. /\ Tail(s) \in Seq(S) /\ Len(Tail(s)) = Len(s) - 1
      /\ \A i \in 1 .. Len(Tail(s)) : Tail(s)[i] = s[i + 1]
  BY HeadTailProperties
<1>7. /\ Tail(s \o u) \in Seq(S) /\ Len(Tail(s \o u)) = Len(s \o u) - 1
      /\ \A i \in 1 .. Len(Tail(s \o u)) : Tail(s \o u)[i] = (s \o u)[i + 1]
  <2> DEFINE x == s \o u
  <2>1. x \in Seq(S) /\ x # <<>>
    BY <1>1, <1>3
  <2> HIDE DEF x
  <2>2. /\ Tail(x) \in Seq(S) /\ Len(Tail(x)) = Len(x) - 1
        /\ \A i \in 1 .. Len(Tail(x)) : Tail(x)[i] = x[i + 1]
    BY <2>1, HeadTailProperties
  <2> QED
    BY <2>2 DEF x
<1>8. /\ Tail(s) \o u \in Seq(S) /\ Len(Tail(s) \o u) = Len(Tail(s)) + Len(u)
      /\ \A i \in 1 .. Len(Tail(s)) + Len(u) :
           (Tail(s) \o u)[i] =
             IF i <= Len(Tail(s)) THEN Tail(s)[i] ELSE u[i - Len(Tail(s))]
  <2> DEFINE x == Tail(s)
  <2>1. x \in Seq(S)
    BY <1>6
  <2> HIDE DEF x
  <2>2. /\ x \o u \in Seq(S) /\ Len(x \o u) = Len(x) + Len(u)
        /\ \A i \in 1 .. Len(x) + Len(u) :
             (x \o u)[i] = IF i <= Len(x) THEN x[i] ELSE u[i - Len(x)]
    BY <2>1, ConcatProperties
  <2> QED
    BY <2>2 DEF x
<1>9. Tail(s \o u) = Tail(s) \o u
  <2> DEFINE x == Tail(s \o u)
             y == Tail(s) \o u
             k == Len(s) + Len(u) - 1
  <2>1. k \in Nat /\ Len(x) = k /\ Len(y) = k
    BY <1>1, <1>2, <1>6, <1>7, <1>8
  <2>2. ASSUME NEW i \in 1 .. k
        PROVE  x[i] = y[i]
    <3>1. i + 1 \in 1 .. Len(s) + Len(u) /\ i \in 1 .. Len(Tail(s \o u))
          /\ i \in 1 .. Len(Tail(s)) + Len(u)
      BY <1>1, <1>2, <1>6, <1>7, <2>1
    <3>2. x[i] = IF i + 1 <= Len(s) THEN s[i + 1] ELSE u[i + 1 - Len(s)]
      BY <1>1, <1>7, <3>1
    <3>3. y[i] = IF i <= Len(s) - 1 THEN Tail(s)[i] ELSE u[i - (Len(s) - 1)]
      BY <1>6, <1>8, <3>1
    <3>4. i <= Len(s) - 1 => i \in 1 .. Len(Tail(s)) /\ Tail(s)[i] = s[i + 1]
      BY <1>2, <1>6, <2>1
    <3>5. (i + 1 <= Len(s) <=> i <= Len(s) - 1) /\ i + 1 - Len(s) = i - (Len(s) - 1)
      BY <1>2
    <3> QED
      BY <3>2, <3>3, <3>4, <3>5
  <2>3. x \in Seq(S) /\ y \in Seq(S)
    BY <1>7, <1>8
  <2> HIDE DEF x, y, k
  <2>4. x = y
    BY <2>1, <2>2, <2>3, SeqEqual
  <2> QED
    BY <2>4 DEF x, y
<1> QED
  BY <1>3, <1>5, <1>9

LEMMA Longer ==
  ASSUME NEW s, Len(s) = 1 \/ Len(s) > 1
  PROVE  s # <<>>
<1>1. Len(<<>>) = 0
  BY EmptySeq
<1> SUFFICES ASSUME s = <<>>
             PROVE  FALSE
  OBVIOUS
<1>2. Len(s) = 0
  BY <1>1
<1> QED
  BY <1>2

LEMMA MoreThanOne ==
  ASSUME NEW S, NEW s \in Seq(S), Len(s) > 1
  PROVE  Len(s) # 1
<1> DEFINE k == Len(s)
<1>1. k > 1 /\ k \in Nat
  OBVIOUS
<1> HIDE DEF k
<1>2. k # 1
  BY <1>1
<1> QED
  BY <1>2 DEF k

LEMMA OnlyOne ==
  ASSUME NEW S, NEW s \in Seq(S), s # <<>>
  PROVE  Len(s) = 1 <=> Tail(s) = <<>>
<1> DEFINE u == Tail(s)
<1>1. Len(s) \in Nat \ {0} /\ u \in Seq(S) /\ Len(u) = Len(s) - 1
  BY HeadTailProperties
<1> HIDE DEF u
<1>2. u = <<>> <=> Len(u) = 0
  BY <1>1, EmptySeq
<1> QED
  BY <1>1, <1>2 DEF u

\* t is s, and then the saved names ns, the one saved last first.
Unrolls(t, s, ns) ==
  \E rests \in [0 .. Len(ns) -> Seq(Components)] :
    /\ rests[0] = <<>>
    /\ \A i \in 1 .. Len(ns) : rests[i] = ns[i].comps \o rests[i - 1]
    /\ t = s \o rests[Len(ns)]

LEMMA NothingSaved ==
  ASSUME NEW t, NEW s \in Seq(Components)
  PROVE  Unrolls(t, s, <<>>) <=> t = s
<1>1. s \o <<>> = s
  BY ConcatEmptySeq
<1>2. <<>> \in Seq(Components)
  OBVIOUS
<1>3. ASSUME t = s
      PROVE  Unrolls(t, s, <<>>)
  <2> DEFINE rests == [i \in 0 .. 0 |-> <<>>]
  <2>1. rests \in [0 .. Len(<<>>) -> Seq(Components)] /\ rests[0] = <<>>
    BY <1>2
  <2>2. t = s \o rests[Len(<<>>)] /\ 1 .. Len(<<>>) = {}
    BY <1>1, <1>3
  <2> HIDE DEF rests
  <2> QED
    BY <2>1, <2>2 DEF Unrolls
<1>4. ASSUME Unrolls(t, s, <<>>)
      PROVE  t = s
  BY <1>1, <1>4 DEF Unrolls
<1> QED
  BY <1>3, <1>4

LEMMA UnrollsIsSeq ==
  ASSUME NEW t, NEW s \in Seq(Components), NEW ns \in Seq(Text), Unrolls(t, s, ns)
  PROVE  t \in Seq(Components)
<1>1. Len(ns) \in Nat
  OBVIOUS
<1>2. PICK rests \in [0 .. Len(ns) -> Seq(Components)] : t = s \o rests[Len(ns)]
  BY DEF Unrolls
<1>3. rests[Len(ns)] \in Seq(Components)
  BY <1>1
<1> QED
  BY <1>2, <1>3, ConcatProperties

\* A component is taken from a text.
LEMMA UnrollsTail ==
  ASSUME NEW t, NEW s \in Seq(Components), s # <<>>, NEW ns \in Seq(Text),
         Unrolls(t, s, ns)
  PROVE  t # <<>> /\ Head(t) = Head(s) /\ Unrolls(Tail(t), Tail(s), ns)
<1>1. Len(ns) \in Nat
  OBVIOUS
<1>2. PICK rests \in [0 .. Len(ns) -> Seq(Components)] :
        /\ rests[0] = <<>>
        /\ \A i \in 1 .. Len(ns) : rests[i] = ns[i].comps \o rests[i - 1]
        /\ t = s \o rests[Len(ns)]
  BY DEF Unrolls
<1>3. rests[Len(ns)] \in Seq(Components)
  BY <1>1
<1>4. /\ t # <<>> /\ Head(t) = Head(s)
      /\ Tail(t) = Tail(s) \o rests[Len(ns)]
  BY <1>2, <1>3, HeadTailOfConcat
<1> QED
  BY <1>2, <1>4 DEF Unrolls

\* The last component is taken from a text: the name saved last is next.
LEMMA UnrollsFront ==
  ASSUME NEW t, NEW s \in Seq(Components), Len(s) = 1,
         NEW ns \in Seq(Text), ns # <<>>, Unrolls(t, s, ns)
  PROVE  /\ t # <<>> /\ Head(t) = Head(s)
         /\ Unrolls(Tail(t), ns[Len(ns)].comps, SubSeq(ns, 1, Len(ns) - 1))
<1>1. /\ s # <<>> /\ Tail(s) = <<>>
      /\ Len(ns) \in Nat \ {0} /\ ns[Len(ns)].comps \in Seq(Components)
  <2>1. s # <<>>
    BY Longer
  <2>2. Tail(s) = <<>>
    BY <2>1, OnlyOne
  <2>3. Len(ns) \in Nat \ {0}
    OBVIOUS
  <2>4. ns[Len(ns)] \in Text
    BY <2>3
  <2> QED
    BY <2>1, <2>2, <2>3, <2>4 DEF Text
<1>2. t # <<>> /\ Head(t) = Head(s) /\ Unrolls(Tail(t), <<>>, ns)
  <2>1. t # <<>> /\ Head(t) = Head(s) /\ Unrolls(Tail(t), Tail(s), ns)
    BY <1>1, UnrollsTail
  <2> QED
    BY <1>1, <2>1
<1>3. PICK rests \in [0 .. Len(ns) -> Seq(Components)] :
        /\ rests[0] = <<>>
        /\ \A i \in 1 .. Len(ns) : rests[i] = ns[i].comps \o rests[i - 1]
        /\ Tail(t) = <<>> \o rests[Len(ns)]
  BY <1>2 DEF Unrolls
<1> DEFINE front == SubSeq(ns, 1, Len(ns) - 1)
           left == [i \in 0 .. Len(front) |-> rests[i]]
<1>4. /\ Len(front) = Len(ns) - 1
      /\ \A i \in 1 .. Len(ns) - 1 : front[i] = ns[i]
  BY Front
<1> HIDE DEF front
<1>5. rests[Len(ns)] \in Seq(Components) /\ rests[Len(ns)] = ns[Len(ns)].comps \o rests[Len(front)]
  <2>1. Len(ns) \in 1 .. Len(ns) /\ Len(ns) \in 0 .. Len(ns)
    BY <1>1
  <2>2. rests[Len(ns)] = ns[Len(ns)].comps \o rests[Len(ns) - 1]
    BY <1>3, <2>1
  <2> QED
    BY <1>3, <1>4, <2>1, <2>2
<1>6. Tail(t) = ns[Len(ns)].comps \o left[Len(front)]
  <2>1. <<>> \o rests[Len(ns)] = rests[Len(ns)]
    BY <1>5, ConcatEmptySeq
  <2>2. left[Len(front)] = rests[Len(front)]
    BY <1>1, <1>4
  <2> QED
    BY <1>3, <1>5, <2>1, <2>2
<1>7. /\ left \in [0 .. Len(front) -> Seq(Components)] /\ left[0] = <<>>
      /\ \A i \in 1 .. Len(front) : left[i] = front[i].comps \o left[i - 1]
  <2>1. left \in [0 .. Len(front) -> Seq(Components)] /\ left[0] = <<>>
    BY <1>1, <1>3, <1>4
  <2>2. ASSUME NEW i \in 1 .. Len(front)
        PROVE  left[i] = front[i].comps \o left[i - 1]
    <3>1. /\ i \in 1 .. Len(ns) - 1 /\ i \in 1 .. Len(ns)
          /\ i \in 0 .. Len(front) /\ i - 1 \in 0 .. Len(front)
      BY <1>1, <1>4
    <3>2. left[i] = rests[i] /\ left[i - 1] = rests[i - 1] /\ front[i] = ns[i]
      BY <1>4, <3>1
    <3>3. rests[i] = ns[i].comps \o rests[i - 1]
      BY <1>3, <3>1
    <3> QED
      BY <3>2, <3>3
  <2> QED
    BY <2>1, <2>2
<1> HIDE DEF left
<1>8. Unrolls(Tail(t), ns[Len(ns)].comps, front)
  BY <1>6, <1>7 DEF Unrolls
<1> QED
  BY <1>2, <1>8 DEF front

\* A name is saved, and the body of a link is read.
LEMMA UnrollsAppend ==
  ASSUME NEW t, NEW x \in Text, NEW ns \in Seq(Text), NEW b \in Seq(Components),
         Unrolls(t, x.comps, ns)
  PROVE  Unrolls(b \o t, b, Append(ns, x))
<1>1. Len(ns) \in Nat
  OBVIOUS
<1>2. PICK rests \in [0 .. Len(ns) -> Seq(Components)] :
        /\ rests[0] = <<>>
        /\ \A i \in 1 .. Len(ns) : rests[i] = ns[i].comps \o rests[i - 1]
        /\ t = x.comps \o rests[Len(ns)]
  BY DEF Unrolls
<1> DEFINE more == Append(ns, x)
           right == [i \in 0 .. Len(more) |-> IF i = Len(more) THEN t ELSE rests[i]]
<1>3. /\ Len(more) = Len(ns) + 1 /\ more[Len(ns) + 1] = x
      /\ \A i \in 1 .. Len(ns) : more[i] = ns[i]
  BY AppendProperties
<1> HIDE DEF more
<1>4. t \in Seq(Components)
  BY UnrollsIsSeq DEF Text
<1>5. /\ right \in [0 .. Len(more) -> Seq(Components)] /\ right[0] = <<>>
      /\ right[Len(more)] = t
  BY <1>1, <1>2, <1>3, <1>4
<1>6. ASSUME NEW i \in 1 .. Len(more)
      PROVE  right[i] = more[i].comps \o right[i - 1]
  <2>1. CASE i = Len(more)
    <3>1. i - 1 \in 0 .. Len(more) /\ i - 1 # Len(more) /\ i - 1 = Len(ns)
      BY <1>1, <1>3, <2>1
    <3>2. right[i - 1] = rests[Len(ns)] /\ right[i] = t /\ more[i] = x
      BY <1>3, <1>5, <2>1, <3>1
    <3> QED
      BY <1>2, <3>2
  <2>2. CASE i # Len(more)
    <3>1. i \in 1 .. Len(ns) /\ i - 1 \in 0 .. Len(ns) /\ i - 1 # Len(more)
      BY <1>1, <1>3, <2>2
    <3>2. right[i] = rests[i] /\ right[i - 1] = rests[i - 1] /\ more[i] = ns[i]
      BY <1>1, <1>3, <2>2, <3>1
    <3> QED
      BY <1>2, <3>1, <3>2
  <2> QED
    BY <2>1, <2>2
<1> HIDE DEF right
<1>7. b \o t = b \o right[Len(more)]
  BY <1>5
<1>8. Unrolls(b \o t, b, more)
  BY <1>5, <1>6, <1>7 DEF Unrolls
<1> QED
  BY <1>8 DEF more

-----------------------------------------------------------------------------
(***************************************************************************)
(* What a query comes to.                                                  *)
(***************************************************************************)
LEMMA Ending ==
  ASSUME NEW w \in Queries, w.todo = <<>>
  PROVE  Resolve[w] = IF w.goal = "lookup" /\ w.mustdir /\ ~Directory(w.at)
                      THEN Refuse("ENOTDIR") ELSE Answer(w.at)
<1>1. Stops(w)
  BY DEF Stops, Arrived
<1> QED
  BY <1>1, ResolveDef DEF Outcome

LEMMA Refusing ==
  ASSUME NEW w \in Queries, w.todo # <<>>, Trouble(w) # "ok",
         ~MayCreate(w), ~(Arrived(w) /\ Directory(w.at))
  PROVE  Resolve[w] = Refuse(Trouble(w))
<1>1. Stops(w)
  BY DEF Stops
<1> QED
  BY <1>1, ResolveDef DEF Outcome

LEMMA GoingOn ==
  ASSUME NEW w \in Queries, ~Arrived(w), ~MayCreate(w), Trouble(w) = "ok"
  PROVE  Resolve[w] = Resolve[Onward(w)]
BY ResolveDef DEF Stops

LEMMA Creating ==
  ASSUME NEW w \in Queries, w.todo # <<>>, MayCreate(w)
  PROVE  Resolve[w] = Create(w.at, Head(w.todo))
<1>1. Stops(w)
  BY DEF Stops
<1> QED
  BY <1>1, ResolveDef DEF Outcome

LEMMA FindingParent ==
  ASSUME NEW w \in Queries, w.goal = "parent", w.todo # <<>>, Last(w), Directory(w.at)
  PROVE  Resolve[w] = Answer(w.at)
<1>1. Arrived(w) /\ Stops(w) /\ ~MayCreate(w)
  BY DEF Stops, Arrived, MayCreate, Creates
<1> QED
  BY <1>1, ResolveDef DEF Outcome

-----------------------------------------------------------------------------
(***************************************************************************)
(* The invariant.  Meaning: at every step of a walk there is a query, for  *)
(* the component the step is about and everything after it, that comes to  *)
(* what the call's own question comes to.  It holds with the links counted *)
(* from any number n up: with MAXSYMLINKS for what this try may follow,    *)
(* with the links of earlier tries added for what the call's name means.   *)
(***************************************************************************)
Looking == {"lookup", "step", "pick", "get_link"}

Pending == pc \in Looking \cup {"last"} /\ last.comp # "/"

Trailing == pc \in Looking /\ how = "trailing"

\* The slash of the text the last component is in.
TextSlash ==
  IF names # <<>> THEN names[1].slash
  ELSE IF name.comps # <<>> THEN name.slash ELSE last.slash

Rest(w) == IF Pending THEN Tail(w.todo) ELSE w.todo

Spoken(w) ==
  /\ Pending => w.todo # <<>> /\ Head(w.todo) = last.comp
  /\ Unrolls(Rest(w), name.comps, names)
  /\ w.todo # <<>> => w.slash = TextSlash

Flagged(w) ==
  /\ w.ban = flags \cap Bans
  /\ "FOLLOW" \in flags <=> w.follow \/ (Trailing /\ Slashed(w))
  /\ "DIRECTORY" \in flags <=> w.mustdir \/ (Trailing /\ Slashed(w))

\* In the middle of a component.
Reached(w) ==
  /\ Pending /\ Down(w).dentry # Absent /\ Found(w) = next /\ IsLink(w)
  /\ ~Crosses(w, w.at, Down(w)) /\ ~Crosses(w, Down(w), Found(w))

Stands(w) ==
  /\ pc # "step" \/ last.comp # ".." => w.at = at
  /\ pc \in Looking \cup {"enter", "walk", "last"} => Directory(w.at)
  /\ pc \in Looking /\ Pending =>
       ~Arrived(w) /\ ~MayCreate(w) /\ ~(Creates(w) /\ w.slash)
  /\ pc = "step" => Pending /\ Down(w) = next /\ ~Crosses(w, w.at, next)
  /\ pc \in {"pick", "get_link"} => Reached(w)
  /\ pc = "get_link" => "NO_SYMLINKS" \notin w.ban

Asks(w, n) ==
  /\ w.top = root /\ w.goal = Goal /\ w.at.dentry # New
  /\ w.left = IF pc = "get_link" THEN n + 1 - total ELSE n - total
  /\ Spoken(w) /\ Flagged(w) /\ Stands(w)
  /\ Resolve[Question(n - arg.begun)] = Resolve[w]

\* The file an open made is not in the tree.
Making(n) ==
  /\ pc = "complete" /\ Goal = "create" /\ at.dentry = New
  /\ Resolve[Question(n - arg.begun)] = [err |-> "ok", at |-> at, made |-> made]

Means(n) == Making(n) \/ \E w \in Queries : Asks(w, n)

\* As long as the cache finds what it holds.
Meaning ==
  pc \in Walking /\ ~missed => \A n \in Nat : n >= MAXSYMLINKS => Means(n)

\* No text that is walked is empty, and "." is not stepped into.
Whole ==
  /\ pc = "walk" => name.comps # <<>>
  /\ pc = "last" => name.comps = <<>>
  /\ pc \in Looking \cup {"stepped"} =>
       IF how = "trailing" THEN name.comps = <<>>
       ELSE name.comps # <<>> /\ last.comp # "/"
  /\ pc \in {"step", "pick", "get_link"} => last.comp \notin {"/", "."}
  /\ pc = "complete" => name.comps = <<>>
  /\ pc \in Walking => \A i \in 1 .. Len(names) : names[i].comps # <<>>

Unstarted == {"call", "getname", "recopy", "start", "unnamed", "undefined"}

\* A try that comes again has not followed too many links.
Counted ==
  /\ arg.begun \in Nat
  /\ pc \in Walking => arg.begun <= total /\ total <= MAXSYMLINKS
  /\ pc \in {"terminate", "returned"} /\ err \in {"ok", "ECHILD", "ESTALE"} =>
       total <= MAXSYMLINKS
  /\ pc \in {"terminate", "returned", "done"} => arg.begun <= MAXSYMLINKS
  /\ pc \in Unstarted => total = 0 /\ try = 1

\* The flags say what was asked for.
Asked ==
  /\ op.opens => /\ op.path <=> "PATH" \in op.asked
                 /\ op.creat <=> "CREAT" \in op.asked /\ "PATH" \notin op.asked
                 /\ "FOLLOW" \in arg.flags <=> Follows
                 /\ "DIRECTORY" \in arg.flags <=> "DIRECTORY" \in op.asked
  /\ ~op.opens => op = Lookup
  /\ pc \in Walking => /\ flags \cap Bans = arg.flags \cap Bans
                       /\ "RCU" \in flags <=> try = 1
  /\ pc \in Walking \cup {"terminate", "returned"} => "RCU" \notin arg.flags

\* Once made, a file is where the call's name says.
Created ==
  /\ pc \in Unstarted => made = NoPlace
  /\ made # NoPlace =>
       Goal = "create" /\ (MadeOver \/ Resolve[Question(MAXSYMLINKS)].made = made)

Opened ==
  /\ pc \in Walking \cup Unstarted => opened = Nowhere
  /\ pc = "terminate" /\ ~Opening => opened = Nowhere
  /\ err # "ok" => opened = Nowhere
  /\ op.path /\ opened # Nowhere => opened = at
  /\ op.path /\ pc = "done" /\ err = "ok" => opened # Nowhere

Answered ==
  pc \in {"terminate", "returned", "done"} =>
    /\ err = "ECHILD" => try = 1 /\ pc # "done"
    /\ ~missed /\ err \notin {"ok", "EIO", "ESTALE", "ENOMEM", "ECHILD"} =>
         Expected.err = err
    /\ ~missed /\ err = "ok" =>
         IF Opening
         THEN /\ Expected.err = "ok" /\ Expected.at = opened
              /\ MadeOver \/ Expected.made = made
         ELSE Expected = Answer(at)

\* What becomes of a try that passed over a name.
Missed ==
  missed =>
    \/ pc = "step" /\ next.dentry = Absent /\ try > 1
    \/ pc \in {"terminate", "returned", "done"} /\ err = "ENOENT" /\ try > 1
    \/ Opening /\ pc \in {"terminate", "returned", "done"}
         /\ err \in {"EEXIST", "EIO", "ESTALE"}
    \/ /\ Opening /\ MadeOver
       /\ \/ pc = "complete" /\ at.dentry = New
          \/ pc \in {"terminate", "returned", "done"} /\ err = "ok" /\ opened.dentry = New

RInv ==
  /\ IInv /\ Whole /\ Counted /\ Asked
  /\ Created /\ Opened /\ Meaning /\ Answered /\ Missed

-----------------------------------------------------------------------------
(* What a call asks for.                                                   *)

LEMMA AskedIsBoolean == Follows \in BOOLEAN /\ WantsDirectory \in BOOLEAN
<1>1. CASE op.opens
  <2>1. Follows = ("NOFOLLOW" \notin op.asked
                   /\ ~({"CREAT", "EXCL"} \subseteq op.asked /\ "PATH" \notin op.asked))
    BY <1>1 DEF Follows
  <2>2. WantsDirectory = ("DIRECTORY" \in op.asked)
    BY <1>1 DEF WantsDirectory
  <2> QED
    BY <2>1, <2>2
<1>2. CASE ~op.opens
  <2>1. Follows = ("FOLLOW" \in arg.flags)
    BY <1>2 DEF Follows
  <2>2. WantsDirectory = ("DIRECTORY" \in arg.flags)
    BY <1>2 DEF WantsDirectory
  <2> QED
    BY <2>1, <2>2
<1> QED
  BY <1>1, <1>2

LEMMA QuestionIsQuery ==
  ASSUME Typed, NEW left \in Nat, pc \notin Unstarted
  PROVE  Question(left) \in Queries
<1>1. root \in Roots /\ root \in Locations
  BY TreeAssumption DEF Typed, Placed
<1>2. arg.path \in [comps : Seq(Components), slash : BOOLEAN]
  BY DEF Typed, Spelled, Unstarted
<1>3. Goal \in Goals
  BY DEF Goal, Goals
<1>4. Follows \in BOOLEAN /\ WantsDirectory \in BOOLEAN
  BY AskedIsBoolean
<1>5. arg.flags \cap Bans \in SUBSET Bans
  OBVIOUS
<1> HIDE DEF Goal, Goals, Follows, WantsDirectory, Bans
<1> QED
  BY <1>1, <1>2, <1>3, <1>4, <1>5 DEF Question, Queries

LEMMA QuestionStays ==
  ASSUME UNCHANGED <<root, op>>, arg'.path = arg.path,
         arg'.flags \cup {"RCU"} = arg.flags \cup {"RCU"}
  PROVE  /\ Goal' = Goal /\ Follows' = Follows /\ WantsDirectory' = WantsDirectory
         /\ \A n : Question(n)' = Question(n)
<1>1. \A f \in {"PARENT", "FOLLOW", "DIRECTORY", "NO_XDEV", "NO_SYMLINKS"} :
        f \in arg'.flags <=> f \in arg.flags
  OBVIOUS
<1>2. Goal' = Goal /\ Follows' = Follows /\ WantsDirectory' = WantsDirectory
  BY <1>1 DEF Goal, Follows, WantsDirectory
<1>3. arg'.flags \cap Bans = arg.flags \cap Bans
  BY <1>1 DEF Bans
<1> QED
  BY <1>2, <1>3 DEF Question

LEMMA AskedGoal ==
  ASSUME Asked, IInv, pc \in Walking
  PROVE  /\ Goal = "parent" <=> "PARENT" \in flags
         /\ Goal = "create" <=> Opening /\ op.creat
         /\ Goal = "open" <=> Opening /\ ~op.creat
BY DEF Asked, IInv, Parents, Goal, Opening, Lookup

-----------------------------------------------------------------------------
(* The parts of the invariant that do not need it.                         *)

\* The steps after which a walk goes on.
LEMMA WalkGoesOn ==
  ASSUME [OpenNext]_openVars, pc' \in Walking
  PROVE  \/ (__filename_lookup \/ retry) /\ UNCHANGED opening
         \/ /\ pc \in Walking /\ UNCHANGED <<root, arg, op, blocks, opened, try, err>>
            /\ \/ /\ UNCHANGED <<made, missed>>
                  /\ \/ link_path_walk \/ walk_more \/ walk_nested \/ walk_last
                     \/ ~Opening /\ lookup_last
                     \/ open_last_dots \/ open_last_plain \/ open_last_exists
                     \/ handle_dots \/ lookup \/ step_into \/ pick_link
                     \/ stepped \/ get_link
               \/ open_create /\ UNCHANGED missed
               \/ open_create_over /\ pc' = "complete" /\ missed'
               \/ lookup_misses /\ UNCHANGED made /\ missed'
         \/ UNCHANGED openVars
<1> USE DEF Walking
<1>1. CASE namei_lookup \/ vfs_openat_api \/ getname \/ getname_long \/ recopy
             \/ getname_fails
  BY <1>1 DEF namei_lookup, vfs_openat_api, getname, getname_long, recopy, getname_fails
<1>2. CASE Walk /\ UNCHANGED opening
  <2>1. CASE lookup_fails \/ step_negative \/ step_refused \/ reserve_loop
               \/ reserve_fails \/ get_link_fails \/ terminate_walk
    BY <2>1 DEF lookup_fails, step_negative, step_refused, reserve_loop,
                reserve_fails, get_link_fails, terminate_walk, Fail
  <2>2. CASE link_path_walk \/ walk_more \/ walk_nested \/ walk_last
    BY <1>2, <2>2 DEF link_path_walk, walk_more, walk_nested, walk_last, call, opening
  <2>3. CASE handle_dots \/ lookup \/ step_into
    BY <1>2, <2>3 DEF handle_dots, lookup, step_into, call, opening, Fail
  <2>4. CASE pick_link \/ stepped \/ get_link
    BY <1>2, <2>4 DEF pick_link, PushLink, stepped, get_link, call, opening, Fail
  <2> QED
    BY <1>2, <2>1, <2>2, <2>3, <2>4 DEF Walk
<1>3. CASE ~Opening /\ LookupEnd /\ UNCHANGED opening
  BY <1>3 DEF LookupEnd, lookup_last, path_parentat, complete_walk, Fail, call, opening
<1>4. CASE open_last_dots \/ open_last_plain \/ open_last_exists
             \/ (lookup_misses /\ UNCHANGED opening)
  BY <1>4 DEF open_last_dots, open_last_plain, open_last_exists, lookup_misses,
              AtLast, call, opening
<1>5. CASE open_last_miss \/ open_last_isdir \/ open_create_fails \/ open_create_again
             \/ do_open \/ do_o_path \/ call_returns
  BY <1>5 DEF open_last_miss, open_last_isdir, open_create_fails, open_create_again,
              do_open, do_o_path, Looked, call_returns, return, Fail
<1>6. CASE open_create \/ open_create_over
  BY <1>6 DEF open_create, open_create_over, Fail, AtLast, call
<1> QED
  BY <1>1, <1>2, <1>3, <1>4, <1>5, <1>6 DEF OpenNext, OpenStep, Ended

LEMMA NextWhole ==
  ASSUME IInv, Whole, [OpenNext]_openVars
  PROVE  Whole'
<1> USE DEF Whole, Walking, Looking, Fail
<1>1. /\ name \in Text /\ names \in Seq(Text) /\ Len(names) \in Nat
      /\ last \in [comp : Components \cup {"/"}, slash : BOOLEAN, src : Nat]
      /\ how \in {"more", "nested", "trailing"}
  BY DEF IInv, Typed, Spelled
<1>2. "/" \notin Components
  BY TreeAssumption DEF Components
<1>3. CASE ~(pc' \in Walking)
  BY <1>3
<1>4. CASE __filename_lookup \/ retry
  <2>1. pc' = "enter" /\ names' = <<>>
    BY <1>4 DEF __filename_lookup, retry, path_init
  <2> QED
    BY <2>1
<1>5. CASE link_path_walk
  <2>1. names' = <<>> /\ name' = name
        /\ pc' = IF name.comps = <<>> THEN "last" ELSE "walk"
    BY <1>5 DEF link_path_walk
  <2> QED
    BY <2>1
<1>6. CASE walk_more
  <2>1. /\ UNCHANGED names /\ pc = "walk" /\ pc' = "lookup" /\ how' = "more"
        /\ name' = [name EXCEPT !.comps = Tail(@)] /\ Len(name.comps) > 1
        /\ last' = [comp |-> Head(name.comps),
                    slash |-> name.slash \/ Len(name.comps) > 1, src |-> name.src]
    BY <1>6 DEF walk_more, TakeComponent, stack
  <2>2. name.comps \in Seq(Components) /\ name'.comps = Tail(name.comps)
    BY <1>1, <2>1 DEF Text
  <2>3. name'.comps # <<>> /\ Head(name.comps) \in Components
    <3>1. name.comps # <<>>
      BY <2>1, Longer
    <3>2. Len(name.comps) # 1
      BY <2>1, <2>2, MoreThanOne
    <3> QED
      BY <2>2, <3>1, <3>2, OnlyOne
  <2> QED
    BY <1>2, <2>1, <2>3
<1>7. CASE walk_nested
  <2>1. /\ pc = "walk" /\ pc' = "lookup" /\ how' = "nested" /\ names # <<>>
        /\ Len(name.comps) = 1 /\ name' = names[Len(names)]
        /\ names' = SubSeq(names, 1, Len(names) - 1)
        /\ last' = [comp |-> Head(name.comps),
                    slash |-> name.slash \/ Len(name.comps) > 1, src |-> name.src]
    BY <1>7 DEF walk_nested, TakeComponent
  <2>2. name.comps \in Seq(Components) /\ Head(name.comps) \in Components
    BY <1>1, <2>1 DEF Text
  <2>3. /\ Len(names) \in Nat \ {0} /\ Len(names') = Len(names) - 1
        /\ \A i \in 1 .. Len(names) - 1 : names'[i] = names[i]
    BY <1>1, <2>1, Front
  <2> QED
    BY <1>2, <2>1, <2>2, <2>3
<1>8. CASE walk_last
  <2>1. pc' = "last" /\ name' = NoName /\ UNCHANGED names /\ pc = "walk"
    BY <1>8 DEF walk_last, stack
  <2> QED
    BY <2>1 DEF NoName
<1>9. CASE lookup_last \/ open_last_dots \/ open_last_plain \/ open_last_exists
  <2>1. /\ pc = "last" /\ pc' = "lookup" /\ how' = "trailing"
        /\ UNCHANGED <<name, names, last>>
    BY <1>9 DEF lookup_last, open_last_dots, open_last_plain, open_last_exists, AtLast,
                stack
  <2> QED
    BY <2>1
<1>10. CASE handle_dots \/ lookup \/ lookup_misses \/ step_into
  <2>1. /\ pc \in Looking /\ pc' \in Looking \cup {"stepped", "terminate"}
        /\ UNCHANGED <<name, names, last, how>>
        /\ pc' \in {"step", "pick", "get_link"} => last.comp \notin {"/", "."}
    BY <1>10 DEF handle_dots, lookup, lookup_misses, step_into, stack
  <2> QED
    BY <2>1
<1>11. CASE pick_link
  <2>1. /\ pc = "pick" /\ pc' \in {"get_link", "terminate"}
        /\ UNCHANGED <<name, names, last, how>>
    BY <1>11 DEF pick_link, PushLink
  <2> QED
    BY <2>1
<1>12. CASE stepped
  <2>1. /\ pc = "stepped" /\ UNCHANGED <<name, names>>
        /\ \/ how = "trailing" /\ pc' = "complete"
           \/ how # "trailing" /\ pc' \in {"walk", "terminate"}
    BY <1>12 DEF stepped, stack
  <2> QED
    BY <2>1
<1>13. CASE get_link
  <2> DEFINE body == Body[next.dentry]
  <2>1. /\ pc = "get_link" /\ UNCHANGED <<last, how>>
        /\ \/ pc' = "terminate"
           \/ pc' = "stepped" /\ UNCHANGED <<name, names>>
           \/ /\ body.comps # <<>>
              /\ name' = [comps |-> body.comps, slash |-> body.slash, src |-> total]
              /\ \/ how = "trailing" /\ pc' = "enter" /\ UNCHANGED names
                 \/ how # "trailing" /\ pc' = "walk" /\ names' = Append(names, name)
    BY <1>13 DEF get_link
  <2>2. CASE pc' \in {"terminate", "stepped", "enter"}
    BY <1>1, <2>1, <2>2
  <2>3. CASE pc' = "walk"
    <3>1. /\ how # "trailing" /\ name.comps # <<>>
          /\ name'.comps # <<>> /\ names' = Append(names, name)
      BY <2>1, <2>3
    <3>2. /\ Len(names') = Len(names) + 1 /\ names'[Len(names) + 1] = name
          /\ \A i \in 1 .. Len(names) : names'[i] = names[i]
      BY <1>1, <3>1, AppendProperties
    <3> QED
      BY <1>1, <2>1, <2>3, <3>1, <3>2
  <2> QED
    BY <2>1, <2>2, <2>3
<1>14. CASE open_create \/ open_create_over
  <2>1. pc = "last" /\ pc' \in {"complete", "terminate"} /\ UNCHANGED <<name, names>>
    BY <1>14 DEF open_create, open_create_over, AtLast, stack
  <2> QED
    BY <2>1
<1>15. CASE UNCHANGED openVars
  BY <1>15 DEF openVars, vars, stack
<1> QED
  <2>1. SUFFICES ASSUME pc' \in Walking, ~UNCHANGED openVars
                 PROVE  \/ __filename_lookup \/ retry \/ link_path_walk
                        \/ walk_more \/ walk_nested \/ walk_last
                        \/ lookup_last \/ open_last_dots \/ open_last_plain
                        \/ open_last_exists
                        \/ handle_dots \/ lookup \/ lookup_misses \/ step_into
                        \/ pick_link \/ stepped \/ get_link
                        \/ open_create \/ open_create_over
    BY <1>3, <1>4, <1>5, <1>6, <1>7, <1>8, <1>9, <1>10, <1>11, <1>12, <1>13, <1>14, <1>15
  <2> QED
    BY <2>1, WalkGoesOn

LEMMA TotalSteps ==
  ASSUME [OpenNext]_openVars
  PROVE  \/ UNCHANGED total
         \/ reserve_loop
         \/ pc = "pick" /\ ~TooManyLinks /\ total' = total + 1
<1>1. CASE Walk
  <2>1. CASE __filename_lookup \/ retry \/ link_path_walk
    BY <2>1 DEF __filename_lookup, retry, link_path_walk
  <2>2. CASE walk_more \/ walk_nested \/ walk_last
    BY <2>2 DEF walk_more, walk_nested, walk_last, stack
  <2>3. CASE handle_dots \/ lookup \/ lookup_fails
    BY <2>3 DEF handle_dots, lookup, lookup_fails, stack
  <2>4. CASE step_negative \/ step_refused \/ step_into \/ stepped
    BY <2>4 DEF step_negative, step_refused, step_into, stepped, stack
  <2>5. CASE reserve_loop \/ reserve_fails \/ pick_link \/ get_link_fails
    BY <2>5 DEF reserve_fails, pick_link, get_link_fails, stack
  <2>6. CASE get_link \/ terminate_walk
    BY <2>6 DEF get_link, terminate_walk
  <2> QED
    BY <1>1, <2>1, <2>2, <2>3, <2>4, <2>5, <2>6 DEF Walk
<1>2. CASE LookupEnd
  BY <1>2 DEF LookupEnd, lookup_last, path_parentat, complete_walk, stack
<1>3. CASE open_last_dots \/ open_last_plain \/ open_last_exists \/ lookup_misses
  BY <1>3 DEF open_last_dots, open_last_plain, open_last_exists, lookup_misses, stack
<1>4. CASE \/ open_last_miss \/ open_last_isdir \/ open_create_fails
           \/ open_create \/ open_create_again \/ open_create_over
  BY <1>4 DEF open_last_miss, open_last_isdir, open_create_fails, open_create,
              open_create_again, open_create_over, stack
<1>5. CASE do_open \/ do_o_path \/ call_returns
  BY <1>5 DEF do_open, do_o_path, call_returns, return, walking, stack
<1>6. CASE namei_lookup \/ vfs_openat_api \/ getname \/ getname_long \/ recopy
             \/ getname_fails
  BY <1>6 DEF namei_lookup, vfs_openat_api, getname, getname_long, recopy,
              getname_fails, walking, stack
<1>7. CASE UNCHANGED openVars
  BY <1>7 DEF openVars, vars, stack
<1> QED
  BY <1>1, <1>2, <1>3, <1>4, <1>5, <1>6, <1>7 DEF OpenNext, OpenStep

\* What a walk followed is counted from the call's first try on.
LEMMA NextCounted ==
  ASSUME IInv, Counted, [OpenNext]_openVars
  PROVE  Counted'
<1> USE DEF Counted, Walking, Unstarted
<1>1. /\ total \in Nat /\ MAXSYMLINKS \in Nat /\ DOMAIN arg = {"path", "flags", "begun"}
      /\ pc \in Walking => err = "ok"
  BY LimitAssumption DEF IInv, Stack, Numbered, Typed, Spelled, Parents
<1>2. CASE namei_lookup \/ vfs_openat_api
  <2>1. /\ UNCHANGED <<total, try>> /\ pc = "call" /\ pc' \in {"getname", "undefined"}
        /\ \E f : arg' \in {arg, [arg EXCEPT !.flags = f]}
    <3>1. CASE namei_lookup
      BY <3>1 DEF namei_lookup, walking, stack
    <3>2. CASE vfs_openat_api
      BY <3>2 DEF vfs_openat_api, walking, stack
    <3> QED
      BY <1>2, <3>1, <3>2
  <2>2. arg'.begun = arg.begun
    BY <1>1, <2>1
  <2> QED
    BY <2>1, <2>2
<1>3. CASE getname \/ getname_long \/ recopy \/ getname_fails
  <2>1. /\ UNCHANGED <<total, try>> /\ pc \in Unstarted /\ pc' \in Unstarted
        /\ \E p : arg' \in {arg, [arg EXCEPT !.path = p]}
    <3>1. CASE getname
      BY <3>1 DEF getname, walking, stack
    <3>2. CASE getname_long \/ getname_fails
      BY <3>2 DEF getname_long, getname_fails, walking, stack
    <3>3. CASE recopy
      BY <3>3 DEF recopy, walking, stack
    <3> QED
      BY <1>3, <3>1, <3>2, <3>3
  <2>2. arg'.begun = arg.begun
    BY <1>1, <2>1
  <2> QED
    BY <2>1, <2>2
<1>4. CASE __filename_lookup \/ retry
  <2>1. /\ pc \in {"start", "returned"} /\ pc' = "enter" /\ UNCHANGED total
        /\ arg'.begun = total /\ (pc = "returned" => err \in {"ECHILD", "ESTALE"})
    BY <1>4 DEF __filename_lookup, retry, path_init, Retry
  <2> QED
    BY <1>1, <2>1
<1>5. CASE WalkStep
  <2>1. /\ pc \in Walking /\ pc' \in Walking \cup {"terminate"} /\ UNCHANGED arg
    BY <1>5 DEF WalkStep
  <2>2. CASE UNCHANGED total
    BY <1>1, <2>1, <2>2
  <2>3. CASE reserve_loop
    <3>1. pc' = "terminate" /\ err' = "ELOOP"
      BY <2>3 DEF reserve_loop, Fail
    <3> QED
      BY <1>1, <2>1, <3>1
  <2>4. CASE ~TooManyLinks /\ total' = total + 1
    <3>1. total' <= MAXSYMLINKS /\ arg.begun <= total'
      BY <1>1, <2>1, <2>4 DEF TooManyLinks
    <3> QED
      BY <1>1, <2>1, <3>1
  <2> QED
    BY <2>2, <2>3, <2>4, TotalSteps
<1>6. CASE terminate_walk
  BY <1>6 DEF terminate_walk, call
<1>7. CASE do_o_path
  BY <1>7 DEF do_o_path, Looked, walking, stack
<1>8. CASE call_returns
  BY <1>8 DEF call_returns, return, stack, call
<1>9. CASE UNCHANGED openVars
  BY <1>9 DEF openVars, vars, stack, call
<1> QED
  BY <1>2, <1>3, <1>4, <1>5, <1>6, <1>7, <1>8, <1>9, CallSteps

\* What open makes of the O_ flags: O_PATH beats O_CREAT, and neither
\* O_NOFOLLOW nor O_CREAT with O_EXCL follows a link in the last place.
LEMMA OpenFlagsSay ==
  ASSUME NEW f
  PROVE  LET built == build_open_flags(build_open_how(f)) IN
         /\ built.path <=> "PATH" \in f
         /\ built.creat <=> "CREAT" \in f /\ "PATH" \notin f
         /\ "DIRECTORY" \in built.lookup <=> "DIRECTORY" \in f
         /\ "FOLLOW" \in built.lookup <=>
              "NOFOLLOW" \notin f /\ ~({"CREAT", "EXCL"} \subseteq f /\ "PATH" \notin f)
         /\ built.lookup \subseteq {"FOLLOW", "DIRECTORY"}
<1> DEFINE how_ == build_open_how(f)
<1>1. /\ "PATH" \in how_ <=> "PATH" \in f
      /\ "CREAT" \in how_ <=> "CREAT" \in f /\ "PATH" \notin f
      /\ "EXCL" \in how_ <=> "EXCL" \in f /\ "PATH" \notin f
      /\ "DIRECTORY" \in how_ <=> "DIRECTORY" \in f
      /\ "NOFOLLOW" \in how_ <=> "NOFOLLOW" \in f
  BY DEF build_open_how, VALID_OPEN_FLAGS, O_FLAGS, O_PATH_FLAGS
<1> HIDE DEF how_
<1>2. build_open_flags(how_).path <=> "PATH" \in f
  BY <1>1 DEF build_open_flags
<1>3. build_open_flags(how_).creat <=> "CREAT" \in f /\ "PATH" \notin f
  BY <1>1 DEF build_open_flags
<1>4. "DIRECTORY" \in build_open_flags(how_).lookup <=> "DIRECTORY" \in f
  BY <1>1 DEF build_open_flags
<1>5. "FOLLOW" \in build_open_flags(how_).lookup <=>
        "NOFOLLOW" \notin f /\ ~({"CREAT", "EXCL"} \subseteq f /\ "PATH" \notin f)
  BY <1>1 DEF build_open_flags
<1>6. build_open_flags(how_).lookup \subseteq {"FOLLOW", "DIRECTORY"}
  BY DEF build_open_flags
<1> QED
  BY <1>2, <1>3, <1>4, <1>5, <1>6 DEF how_

LEMMA NextAsked ==
  ASSUME IInv, Counted, Asked, [OpenNext]_openVars
  PROVE  Asked'
<1>1. /\ DOMAIN arg = {"path", "flags", "begun"}
      /\ pc = "call" => ~op.opens
      /\ pc = "start" => try = 1
  BY DEF IInv, Typed, Spelled, Parents, Counted, Unstarted
<1>2. CASE namei_lookup
  <2>1. pc = "call" /\ pc' = "getname" /\ UNCHANGED op
    BY <1>2 DEF namei_lookup, opening
  <2> QED
    BY <1>1, <2>1 DEF Asked, Walking
<1>3. CASE vfs_openat_api
  <2>1. PICK f \in OpenFlagSets :
          LET built == build_open_flags(build_open_how(f)) IN
          \/ pc' = "undefined" /\ UNCHANGED <<arg, op>>
          \/ /\ pc' = "getname"
             /\ op' = [opens |-> TRUE, creat |-> built.creat, path |-> built.path,
                       asked |-> f]
             /\ arg' = [arg EXCEPT !.flags = built.lookup]
    BY <1>3 DEF vfs_openat_api
  <2>2. CASE pc' = "undefined" /\ UNCHANGED <<arg, op>>
    <3>1. ~op.opens /\ op = Lookup
      BY <1>1, <1>3 DEF vfs_openat_api, Asked
    <3> QED
      BY <2>2, <3>1 DEF Asked, Walking
  <2>3. CASE ~(pc' = "undefined" /\ UNCHANGED <<arg, op>>)
    <3> DEFINE built == build_open_flags(build_open_how(f))
    <3>1. /\ pc' = "getname" /\ op'.opens /\ op'.creat = built.creat
          /\ op'.path = built.path /\ op'.asked = f /\ arg'.flags = built.lookup
      BY <1>1, <2>1, <2>3
    <3> HIDE DEF built
    <3>2. /\ op'.path <=> "PATH" \in f
          /\ op'.creat <=> "CREAT" \in f /\ "PATH" \notin f
          /\ "DIRECTORY" \in arg'.flags <=> "DIRECTORY" \in f
          /\ "FOLLOW" \in arg'.flags <=>
               "NOFOLLOW" \notin f /\ ~({"CREAT", "EXCL"} \subseteq f /\ "PATH" \notin f)
      BY <3>1, OpenFlagsSay DEF built
    <3>3. Follows' <=> "NOFOLLOW" \notin f /\ ~({"CREAT", "EXCL"} \subseteq f /\ "PATH" \notin f)
      BY <3>1 DEF Follows
    <3> QED
      BY <3>1, <3>2, <3>3 DEF Asked, Walking
  <2> QED
    BY <2>2, <2>3
<1>4. CASE getname \/ getname_long \/ recopy \/ getname_fails
  <2>1. /\ UNCHANGED op /\ pc' \in Unstarted
        /\ \E p : arg' \in {arg, [arg EXCEPT !.path = p]}
    <3>1. CASE getname
      BY <3>1 DEF getname, Unstarted
    <3>2. CASE getname_long \/ getname_fails
      BY <3>2 DEF getname_long, getname_fails, Unstarted, opening
    <3>3. CASE recopy
      BY <3>3 DEF recopy, Unstarted, opening
    <3> QED
      BY <1>4, <3>1, <3>2, <3>3
  <2>2. arg'.flags = arg.flags
    BY <1>1, <2>1
  <2> QED
    BY <2>1, <2>2 DEF Asked, Walking, Unstarted, Follows
<1>5. CASE (__filename_lookup \/ retry) /\ UNCHANGED opening
  <2>1. /\ UNCHANGED op /\ pc' = "enter" /\ arg'.flags = arg.flags \ {"RCU"}
        /\ \/ flags' = arg.flags \cup {"RCU"} /\ try' = 1
           \/ flags' = arg.flags /\ "RCU" \notin arg.flags /\ try' # 1
    <3>1. CASE __filename_lookup
      BY <1>1, <1>5, <3>1 DEF __filename_lookup, path_init, opening
    <3>2. CASE retry
      BY <1>5, <3>2 DEF retry, path_init, opening, Asked
    <3> QED
      BY <1>5, <3>1, <3>2
  <2>2. flags' \cap Bans = arg'.flags \cap Bans
    BY <2>1 DEF Bans
  <2>3. "FOLLOW" \in arg'.flags <=> "FOLLOW" \in arg.flags
    BY <2>1
  <2>4. "DIRECTORY" \in arg'.flags <=> "DIRECTORY" \in arg.flags
    BY <2>1
  <2>5. op.opens => (Follows' <=> Follows)
    BY <2>1 DEF Follows
  <2> QED
    BY <2>1, <2>2, <2>3, <2>4, <2>5 DEF Asked, Walking
<1>6. CASE WalkStep
  <2>1. /\ pc \in Walking /\ UNCHANGED <<arg, op>> /\ pc' \in Walking \cup {"terminate"}
        /\ flags' \in {flags, flags \cup {"FOLLOW", "DIRECTORY"}}
    BY <1>6 DEF WalkStep
  <2>2. flags' \cap Bans = flags \cap Bans /\ ("RCU" \in flags' <=> "RCU" \in flags)
    BY <2>1 DEF Bans
  <2>3. pc' \in Walking => UNCHANGED try
    <3> SUFFICES ASSUME pc' \in Walking
                 PROVE  UNCHANGED try
      OBVIOUS
    <3>1. ~__filename_lookup /\ ~retry
      BY <2>1 DEF __filename_lookup, retry, Walking
    <3>2. UNCHANGED openVars => UNCHANGED try
      BY DEF openVars, vars, call
    <3> QED
      BY <3>1, <3>2, WalkGoesOn
  <2>4. Follows' = Follows
    BY <2>1 DEF Follows
  <2>5. "RCU" \notin arg'.flags
    BY <2>1 DEF Asked
  <2>6. pc' \in Walking => flags' \cap Bans = arg'.flags \cap Bans /\ ("RCU" \in flags' <=> try' = 1)
    BY <2>1, <2>2, <2>3 DEF Asked
  <2> QED
    BY <2>1, <2>4, <2>5, <2>6 DEF Asked
<1>7. CASE terminate_walk /\ UNCHANGED opening
  BY <1>7 DEF terminate_walk, call, opening, Asked, Walking, Follows
<1>8. CASE do_o_path \/ call_returns
  <2>1. /\ UNCHANGED <<op, arg>> /\ pc = "returned" /\ pc' \in {"returned", "done"}
    BY <1>8 DEF do_o_path, Looked, call_returns, return, call
  <2> QED
    BY <2>1 DEF Asked, Walking, Follows
<1>9. CASE UNCHANGED openVars
  BY <1>9 DEF openVars, vars, call, opening, Asked, Walking, Follows
<1> QED
  BY <1>2, <1>3, <1>4, <1>5, <1>6, <1>7, <1>8, <1>9, CallSteps

LEMMA OpenedSteps ==
  ASSUME [OpenNext]_openVars, pc \in Walking
  PROVE  do_open \/ UNCHANGED opened
<1>1. CASE namei_lookup \/ vfs_openat_api \/ getname \/ getname_long \/ recopy
             \/ getname_fails
  BY <1>1 DEF namei_lookup, vfs_openat_api, getname, getname_long, recopy,
              getname_fails, opening
<1>2. CASE UNCHANGED opening
  BY <1>2 DEF opening
<1>3. CASE open_last_dots \/ open_last_plain \/ open_last_exists
  BY <1>3 DEF open_last_dots, open_last_plain, open_last_exists, opening
<1>4. CASE \/ open_last_miss \/ open_last_isdir \/ open_create_fails
           \/ open_create \/ open_create_again \/ open_create_over
  BY <1>4 DEF open_last_miss, open_last_isdir, open_create_fails, open_create,
              open_create_again, open_create_over, opening
<1>5. CASE do_o_path \/ call_returns
  BY <1>5 DEF do_o_path, Looked, call_returns, return, Walking
<1> QED
  BY <1>1, <1>2, <1>3, <1>4, <1>5 DEF OpenNext, OpenStep, openVars

\* Only a call that ends well has opened anything, and it opened where its
\* walk arrived.
LEMMA NextOpened ==
  ASSUME IInv, Asked, Opened, [OpenNext]_openVars
  PROVE  Opened'
<1> USE DEF Opened, Walking, Unstarted, Opening
<1>1. /\ pc \in Walking => err = "ok" /\ at \in Locations
      /\ Absent \notin Mounts
  BY TreeAssumption DEF IInv, Parents, Typed, Placed
<1>2. CASE namei_lookup \/ vfs_openat_api
  <2>1. UNCHANGED <<err, at, opened>> /\ pc = "call" /\ pc' \in {"getname", "undefined"}
    BY <1>2 DEF namei_lookup, vfs_openat_api, walking, opening
  <2> QED
    BY <2>1
<1>3. CASE getname \/ getname_long \/ recopy \/ getname_fails
  <2>1. /\ UNCHANGED <<err, at, op, opened>> /\ pc \in {"getname", "recopy"}
        /\ pc' \in {"start", "recopy", "unnamed"}
    BY <1>3 DEF getname, getname_long, recopy, getname_fails, walking, opening
  <2> QED
    BY <2>1
<1>4. CASE (__filename_lookup \/ retry) /\ UNCHANGED opening
  <2>1. /\ UNCHANGED <<op, opened>> /\ pc' = "enter" /\ err' = "ok"
        /\ pc = "start" \/ (pc = "returned" /\ err # "ok")
    BY <1>4 DEF __filename_lookup, retry, Retry, path_init, opening
  <2> QED
    BY <2>1
<1>5. CASE WalkStep
  <2>1. pc \in Walking /\ pc' \in Walking \cup {"terminate"} /\ UNCHANGED op
    BY <1>5 DEF WalkStep
  <2>2. CASE do_open
    BY <2>1, <2>2, <1>1 DEF do_open, Fail
  <2>3. CASE ~do_open
    <3>1. UNCHANGED opened
      BY <2>1, <2>3, OpenedSteps
    <3> QED
      BY <1>1, <2>1, <3>1
  <2> QED
    BY <2>2, <2>3
<1>6. CASE terminate_walk /\ UNCHANGED opening
  BY <1>6 DEF terminate_walk, opening
<1>7. CASE do_o_path
  BY <1>7 DEF do_o_path, Looked, walking
<1>8. CASE call_returns
  BY <1>8 DEF call_returns, return, Looked
<1>9. CASE UNCHANGED openVars
  BY <1>9 DEF openVars, vars, opening
<1> QED
  BY <1>2, <1>3, <1>4, <1>5, <1>6, <1>7, <1>8, <1>9, CallSteps

-----------------------------------------------------------------------------
(***************************************************************************)
(* What a walk's query says of its next component.                         *)
(***************************************************************************)
LEMMA NothingMore ==
  ASSUME NEW w \in Queries, w.todo # <<>>
  PROVE  Last(w) <=> Tail(w.todo) = <<>>
<1>1. w.todo \in Seq(Components)
  BY DEF Queries
<1> QED
  BY <1>1, OnlyOne DEF Last

LEMMA AtComponent ==
  ASSUME IInv, Whole, NEW n \in Nat, NEW w \in Queries, Asks(w, n),
         pc \in Looking \cup {"last"}
  PROVE  /\ ~Pending => w.todo = <<>> /\ ~Last(w)
         /\ Pending => /\ w.todo # <<>> /\ Head(w.todo) = last.comp
                       /\ Last(w) <=> pc = "last" \/ how = "trailing"
                       /\ w.slash = TextSlash
         /\ Plain(w) <=> Head(w.todo) \notin {".", ".."}
         /\ pc = "last" \/ how = "trailing" => names = <<>> /\ name.comps = <<>>
<1>1. /\ name.comps \in Seq(Components) /\ names \in Seq(Text)
      /\ how \in {"more", "nested", "trailing"}
  BY DEF IInv, Typed, Spelled, Text
<1>2. /\ Pending => w.todo # <<>> /\ Head(w.todo) = last.comp
      /\ Unrolls(Rest(w), name.comps, names)
      /\ w.todo # <<>> => w.slash = TextSlash
  BY DEF Asks, Spoken
<1>3. Plain(w) <=> Head(w.todo) \notin {".", ".."}
  BY DEF Plain
<1>4. CASE pc = "last" \/ how = "trailing"
  <2>1. names = <<>> /\ name.comps = <<>>
    BY <1>4 DEF IInv, Stack, Levels, Whole, Looking
  <2>2. Rest(w) = <<>>
    BY <1>1, <1>2, <2>1, NothingSaved
  <2>3. CASE Pending
    BY <1>2, <1>3, <1>4, <2>1, <2>2, <2>3, NothingMore DEF Rest
  <2>4. CASE ~Pending
    BY <1>3, <1>4, <2>1, <2>2, <2>4 DEF Rest, Last
  <2> QED
    BY <2>3, <2>4
<1>5. CASE ~(pc = "last" \/ how = "trailing")
  <2>1. name.comps # <<>> /\ Pending
    BY <1>5 DEF Whole, Looking, Pending
  <2>2. Rest(w) # <<>>
    BY <1>1, <1>2, <2>1, UnrollsTail
  <2> QED
    BY <1>2, <1>3, <1>5, <2>1, <2>2, NothingMore DEF Rest
<1> QED
  BY <1>4, <1>5

\* A walk that asks has a query for every number of links.
LEMMA Asking ==
  ASSUME IInv, Whole, Counted, Meaning, ~missed, NEW n \in Nat, n >= MAXSYMLINKS,
         pc \in Walking \ {"step", "stepped", "complete"}
  PROVE  /\ \E w \in Queries : Asks(w, n)
         /\ total \in Nat /\ MAXSYMLINKS \in Nat /\ n - total \in Nat
<1>1. Means(n) /\ ~Making(n)
  BY DEF Meaning, Making, Walking
<1> QED
  BY <1>1, LimitAssumption DEF Means, Counted, IInv, Stack, Numbered

\* The call's question does not change in a step of the walk.
LEMMA SameQuestion ==
  ASSUME UNCHANGED <<root, arg, op>>, NEW n
  PROVE  /\ Goal' = Goal
         /\ Resolve[Question(n - arg.begun)]' = Resolve[Question(n - arg.begun)]
BY DEF Question, Goal, Follows, WantsDirectory

-----------------------------------------------------------------------------
(***************************************************************************)
(* Meaning, action by action.                                              *)
(***************************************************************************)
LEMMA MeaningBegins ==
  ASSUME IInv, Counted, Asked, Asked', (__filename_lookup \/ retry) /\ UNCHANGED opening
  PROVE  Meaning'
<1>1. /\ UNCHANGED <<root, op, total>> /\ pc' = "enter" /\ at' = root
      /\ arg' = [path |-> arg.path, flags |-> arg.flags \ {"RCU"}, begun |-> total]
      /\ flags' \in {arg.flags, arg.flags \cup {"RCU"}}
      /\ name' = [comps |-> arg.path.comps, slash |-> arg.path.slash, src |-> 0]
      /\ names' = <<>> /\ pc \notin Unstarted \ {"start"}
  <2>1. CASE __filename_lookup
    BY <2>1 DEF __filename_lookup, path_init, Unstarted, opening
  <2>2. CASE retry
    BY <2>2 DEF retry, path_init, Unstarted, opening
  <2> QED
    BY <2>1, <2>2
<1>2. /\ total \in Nat /\ total <= MAXSYMLINKS /\ MAXSYMLINKS \in Nat
      /\ root \in Roots /\ Kind[root.dentry] = "dir"
      /\ arg.path \in [comps : Seq(Components), slash : BOOLEAN]
  <2>1. total = 0 \/ (pc = "returned" /\ err \in {"ECHILD", "ESTALE"})
    BY DEF __filename_lookup, retry, Retry, Counted, Unstarted
  <2> QED
    BY <1>1, <2>1, LimitAssumption, TreeAssumption
       DEF Counted, IInv, Stack, Numbered, Typed, Placed, Spelled, Unstarted
<1> SUFFICES ASSUME NEW n \in Nat, n >= MAXSYMLINKS
             PROVE  Means(n)'
  BY DEF Meaning
<1> PICK w : w = Question(n - total)
  OBVIOUS
<1>3. n - total \in Nat
  BY <1>2
<1>4. w \in Queries
  <2>1. Roots \subseteq Locations
    BY TreeAssumption
  <2>2. Goal \in Goals /\ Follows \in BOOLEAN /\ WantsDirectory \in BOOLEAN
    BY AskedIsBoolean DEF Goal, Goals
  <2> QED
    BY <1>2, <1>3, <2>1, <2>2 DEF Question, Queries
<1>5. Goal' = Goal /\ Follows' = Follows /\ WantsDirectory' = WantsDirectory
      /\ Question(n - total)' = Question(n - total)
  BY <1>1, QuestionStays
<1>6. /\ w.top = root /\ w.goal = Goal /\ w.left = n - total /\ w.at = root
      /\ w.todo = arg.path.comps /\ w.slash = arg.path.slash
      /\ w.ban = arg.flags \cap Bans /\ w.follow = Follows
      /\ w.mustdir = WantsDirectory
  BY DEF Question
<1>7. Spoken(w)'
  <2>1. ~Pending' /\ Rest(w)' = w.todo
    BY <1>1 DEF Pending, Rest, Looking
  <2>2. Unrolls(w.todo, name'.comps, names')
    BY <1>1, <1>2, <1>6, NothingSaved
  <2>3. w.todo # <<>> => w.slash = TextSlash'
    BY <1>1, <1>6 DEF TextSlash
  <2> QED
    BY <2>1, <2>2, <2>3 DEF Spoken
<1>8. Flagged(w)'
  <2>1. w.ban = flags' \cap Bans
    BY <1>1, <1>6 DEF Bans
  <2>2. /\ "FOLLOW" \in flags' <=> "FOLLOW" \in arg'.flags
        /\ "DIRECTORY" \in flags' <=> "DIRECTORY" \in arg'.flags
    BY <1>1
  <2>3. /\ "FOLLOW" \in arg'.flags <=> Follows'
        /\ "DIRECTORY" \in arg'.flags <=> WantsDirectory'
    BY DEF Asked, Follows, WantsDirectory
  <2>4. ~Trailing'
    BY <1>1 DEF Trailing, Looking
  <2> QED
    BY <1>5, <1>6, <2>1, <2>2, <2>3, <2>4 DEF Flagged
<1>9. Stands(w)'
  BY <1>1, <1>2, <1>6 DEF Stands, Looking, Directory
<1>10. Resolve[Question(n - arg.begun)]' = Resolve[w]
  BY <1>1, <1>5
<1>11. w.at.dentry # New
  BY <1>2, <1>6, NewAssumption
<1>12. Asks(w, n)'
  BY <1>1, <1>5, <1>6, <1>7, <1>8, <1>9, <1>10, <1>11 DEF Asks
<1> QED
  BY <1>4, <1>12 DEF Means

LEMMA MeaningEnter ==
  ASSUME IInv, Whole, Counted, Meaning, ~missed, link_path_walk, UNCHANGED opening
  PROVE  Meaning'
<1>1. /\ pc = "enter" /\ names' = <<>> /\ pc' = (IF name.comps = <<>> THEN "last" ELSE "walk")
      /\ last' = [comp |-> "/", slash |-> FALSE, src |-> 0]
      /\ UNCHANGED <<flags, at, name, total, root, arg, op>>
  BY DEF link_path_walk, call, opening
<1>2. names = <<>> /\ name.comps \in Seq(Components)
  BY <1>1 DEF IInv, Stack, Levels, Typed, Spelled, Text
<1> SUFFICES ASSUME NEW n \in Nat, n >= MAXSYMLINKS
             PROVE  Means(n)'
  BY DEF Meaning
<1>3. PICK w \in Queries : Asks(w, n)
  BY <1>1, Asking DEF Walking
<1>4. Unrolls(w.todo, name.comps, names) /\ w.todo = name.comps
  BY <1>1, <1>2, <1>3, NothingSaved DEF Asks, Spoken, Pending, Rest, Looking
<1>5. Spoken(w)'
  <2>1. ~Pending' /\ Rest(w)' = w.todo
    BY <1>1 DEF Pending, Rest, Looking
  <2>2. w.todo # <<>> => w.slash = TextSlash'
    BY <1>1, <1>2, <1>3, <1>4 DEF Asks, Spoken, TextSlash
  <2> QED
    BY <1>1, <1>2, <1>4, <2>1, <2>2 DEF Spoken
<1>6. Flagged(w)'
  BY <1>1, <1>3 DEF Asks, Flagged, Trailing, Looking
<1>7. Stands(w)'
  BY <1>1, <1>3 DEF Asks, Stands, Looking
<1>8. Asks(w, n)'
  BY <1>1, <1>3, <1>5, <1>6, <1>7, SameQuestion DEF Asks
<1> QED
  BY <1>8 DEF Means

\* The next component of a text, when more is to come after it.
LEMMA MeaningMore ==
  ASSUME IInv, Whole, Counted, Meaning, ~missed, walk_more \/ walk_nested, UNCHANGED opening
  PROVE  Meaning'
<1>1. /\ pc = "walk" /\ pc' = "lookup" /\ how' \in {"more", "nested"}
      /\ last' = [comp |-> Head(name.comps),
                  slash |-> name.slash \/ Len(name.comps) > 1, src |-> name.src]
      /\ UNCHANGED <<flags, at, total, root, arg, op>>
      /\ \/ /\ Len(name.comps) > 1 /\ UNCHANGED names
            /\ name' = [name EXCEPT !.comps = Tail(@)]
         \/ /\ Len(name.comps) = 1 /\ names # <<>>
            /\ name' = names[Len(names)]
            /\ names' = SubSeq(names, 1, Len(names) - 1)
  <2>1. CASE walk_more
    BY <2>1 DEF walk_more, TakeComponent, stack, call, opening
  <2>2. CASE walk_nested
    BY <2>2 DEF walk_nested, TakeComponent, call, opening
  <2> QED
    BY <2>1, <2>2
<1>2. /\ names \in Seq(Text) /\ name \in Text /\ name.comps \in Seq(Components)
      /\ Len(names) \in Nat /\ name.comps # <<>>
  BY <1>1 DEF IInv, Typed, Spelled, Text, Whole
<1>3. last'.comp = Head(name.comps) /\ last'.comp # "/"
  <2>1. Head(name.comps) \in Components
    BY <1>2
  <2> QED
    BY <1>1, <2>1, TreeAssumption DEF Components
<1> SUFFICES ASSUME NEW n \in Nat, n >= MAXSYMLINKS
             PROVE  Means(n)'
  BY DEF Meaning
<1>4. PICK w \in Queries : Asks(w, n)
  BY <1>1, Asking DEF Walking
<1>5. Unrolls(w.todo, name.comps, names) /\ (w.todo # <<>> => w.slash = TextSlash)
  BY <1>1, <1>4 DEF Asks, Spoken, Pending, Rest, Looking
<1>6. /\ w.todo # <<>> /\ Head(w.todo) = last'.comp
      /\ Unrolls(Tail(w.todo), name'.comps, names')
      /\ name'.comps # <<>> /\ name'.comps \in Seq(Components) /\ names' \in Seq(Text)
      /\ TextSlash' = TextSlash
  <2>1. CASE Len(name.comps) > 1
    <3>1. /\ name'.comps = Tail(name.comps) /\ name'.slash = name.slash
          /\ names' = names /\ Tail(name.comps) # <<>>
          /\ Tail(name.comps) \in Seq(Components)
      <4>1. Len(name.comps) # 1
        BY <1>2, <2>1, MoreThanOne
      <4>3. Tail(name.comps) \in Seq(Components)
        BY <1>2
      <4>2. /\ name' = [name EXCEPT !.comps = Tail(@)] /\ names' = names
        BY <1>1, <4>1
      <4> QED
        BY <1>2, <4>1, <4>2, <4>3, OnlyOne DEF Text
    <3>2. TextSlash' = TextSlash
      BY <1>2, <3>1 DEF TextSlash
    <3>3. w.todo # <<>> /\ Head(w.todo) = Head(name.comps)
          /\ Unrolls(Tail(w.todo), Tail(name.comps), names)
      BY <1>2, <1>5, UnrollsTail
    <3> QED
      BY <1>2, <1>3, <3>1, <3>2, <3>3
  <2>2. CASE ~(Len(name.comps) > 1)
    <3>1. /\ Len(name.comps) = 1 /\ names # <<>> /\ name' = names[Len(names)]
          /\ names' = SubSeq(names, 1, Len(names) - 1)
      BY <1>1, <2>2
    <3>2. /\ Len(names) \in Nat \ {0} /\ names' \in Seq(Text)
          /\ Len(names') = Len(names) - 1
          /\ \A i \in 1 .. Len(names) - 1 : names'[i] = names[i]
      BY <1>2, <3>1, Front
    <3>3. name' \in Text /\ name'.comps # <<>>
      BY <1>1, <1>2, <3>1, <3>2 DEF Whole, Walking
    <3>4. TextSlash' = TextSlash
      <4>1. TextSlash = names[1].slash
        BY <3>1 DEF TextSlash
      <4>2. CASE names' = <<>>
        <5>1. Len(names) = 1
          BY <3>2, <4>2
        <5> QED
          BY <3>1, <3>3, <4>1, <4>2, <5>1 DEF TextSlash
      <4>3. CASE names' # <<>>
        <5>1. Len(names') # 0
          BY <3>2, <4>3
        <5>2. names'[1] = names[1]
          BY <3>2, <5>1
        <5> QED
          BY <4>1, <4>3, <5>2 DEF TextSlash
      <4> QED
        BY <4>2, <4>3
    <3> QED
      BY <1>2, <1>3, <1>5, <3>1, <3>2, <3>3, <3>4, UnrollsFront DEF Text
  <2> QED
    BY <2>1, <2>2
<1>7. Tail(w.todo) # <<>>
  BY <1>6, UnrollsTail
<1>8. ~Last(w)
  BY <1>6, <1>7, NothingMore
<1>9. Pending'
  BY <1>1, <1>3 DEF Pending, Looking
<1>10. Spoken(w)'
  <2>1. Rest(w)' = Tail(w.todo)
    BY <1>9 DEF Rest
  <2> QED
    BY <1>5, <1>6, <2>1 DEF Spoken
<1>11. Flagged(w)'
  BY <1>1, <1>4 DEF Asks, Flagged, Trailing, Looking
<1>12. Stands(w)'
  <2>1. ~Arrived(w) /\ ~Creates(w) /\ ~MayCreate(w)
    BY <1>6, <1>8 DEF Arrived, Creates, MayCreate
  <2> QED
    BY <1>1, <1>4, <2>1 DEF Asks, Stands, Looking
<1>13. Asks(w, n)'
  BY <1>1, <1>4, <1>10, <1>11, <1>12, SameQuestion DEF Asks
<1> QED
  BY <1>13 DEF Means

\* The last component of the text that is walked last.
LEMMA MeaningLast ==
  ASSUME IInv, Whole, Counted, Meaning, ~missed, walk_last, UNCHANGED opening
  PROVE  Meaning'
<1>1. /\ pc = "walk" /\ pc' = "last" /\ Len(name.comps) = 1 /\ names = <<>>
      /\ last' = [comp |-> Head(name.comps),
                  slash |-> name.slash \/ Len(name.comps) > 1, src |-> name.src]
      /\ name' = NoName
      /\ UNCHANGED <<flags, at, names, total, root, arg, op>>
  BY DEF walk_last, TakeComponent, stack, call, opening
<1>2. /\ name \in Text /\ name.comps \in Seq(Components) /\ name.comps # <<>>
      /\ Tail(name.comps) = <<>> /\ names \in Seq(Text) /\ name.slash \in BOOLEAN
  <2>1. /\ name \in Text /\ name.comps \in Seq(Components)
        /\ names \in Seq(Text) /\ name.slash \in BOOLEAN
    BY DEF IInv, Typed, Spelled, Text
  <2>2. name.comps # <<>>
    BY <1>1, Longer
  <2> QED
    BY <1>1, <2>1, <2>2, OnlyOne
<1>3. last'.comp = Head(name.comps) /\ last'.comp # "/" /\ last'.slash = name.slash
  <2>1. Head(name.comps) \in Components
    BY <1>2
  <2> QED
    BY <1>1, <1>2, <2>1, TreeAssumption DEF Components
<1> SUFFICES ASSUME NEW n \in Nat, n >= MAXSYMLINKS
             PROVE  Means(n)'
  BY DEF Meaning
<1>4. PICK w \in Queries : Asks(w, n)
  BY <1>1, Asking DEF Walking
<1>5. Unrolls(w.todo, name.comps, names) /\ (w.todo # <<>> => w.slash = TextSlash)
  BY <1>1, <1>4 DEF Asks, Spoken, Pending, Rest, Looking
<1>6. /\ w.todo # <<>> /\ Head(w.todo) = last'.comp
      /\ Unrolls(Tail(w.todo), <<>>, names)
  <2>1. w.todo # <<>> /\ Head(w.todo) = Head(name.comps)
        /\ Unrolls(Tail(w.todo), Tail(name.comps), names)
    BY <1>2, <1>5, UnrollsTail
  <2> QED
    BY <1>2, <1>3, <2>1
<1>7. Spoken(w)'
  <2>1. Pending' /\ Rest(w)' = Tail(w.todo)
    BY <1>1, <1>3 DEF Pending, Rest
  <2>2. name'.comps = <<>> /\ TextSlash' = name.slash /\ TextSlash = name.slash
    BY <1>1, <1>2, <1>3 DEF NoName, TextSlash
  <2> QED
    BY <1>1, <1>5, <1>6, <2>1, <2>2 DEF Spoken
<1>8. Flagged(w)'
  BY <1>1, <1>4 DEF Asks, Flagged, Trailing, Looking
<1>9. Stands(w)'
  BY <1>1, <1>4 DEF Asks, Stands, Looking
<1>10. Asks(w, n)'
  BY <1>1, <1>4, <1>7, <1>8, <1>9, SameQuestion DEF Asks
<1> QED
  BY <1>10 DEF Means

\* The last component is looked up: what a slash after it adds to the flags
\* it adds to the query when the query goes on.
LEMMA MeaningLookupLast ==
  ASSUME IInv, Whole, Counted, Asked, Meaning, ~missed,
         \/ ~Opening /\ lookup_last /\ UNCHANGED opening
         \/ open_last_dots \/ open_last_plain \/ open_last_exists
  PROVE  Meaning'
<1>1. /\ pc = "last" /\ pc' = "lookup" /\ how' = "trailing" /\ "PARENT" \notin flags
      /\ UNCHANGED <<at, name, last, names, total, root, arg, op>>
      /\ flags' = (IF last.comp \notin {"/", ".", ".."} /\ last.slash
                   THEN flags \cup {"FOLLOW", "DIRECTORY"} ELSE flags)
      /\ Opening /\ op.creat /\ last.comp \notin {"/", ".", ".."} =>
           ~last.slash /\ Child[at.dentry][last.comp] # Absent
  <2>1. CASE ~Opening /\ lookup_last /\ UNCHANGED opening
    BY <2>1 DEF lookup_last, stack, call, opening
  <2>2. Opening /\ IInv /\ pc = "last" => "PARENT" \notin flags
    BY DEF Opening, IInv, Parents, Walking
  <2>3. CASE open_last_dots
    BY <2>2, <2>3 DEF open_last_dots, AtLast, Normal, stack, call, opening
  <2>4. CASE open_last_plain
    BY <2>2, <2>4 DEF open_last_plain, TrailingSlash, AtLast, Normal, stack, call, opening
  <2>5. CASE open_last_exists
    BY <2>2, <2>5 DEF open_last_exists, AtLast, Normal, InCache, stack, call, opening
  <2> QED
    BY <2>1, <2>3, <2>4, <2>5
<1> SUFFICES ASSUME NEW n \in Nat, n >= MAXSYMLINKS
             PROVE  Means(n)'
  BY DEF Meaning
<1>2. PICK w \in Queries : Asks(w, n)
  BY <1>1, Asking DEF Walking
<1>3. /\ ~Pending => w.todo = <<>> /\ ~Last(w)
      /\ Pending => /\ w.todo # <<>> /\ Head(w.todo) = last.comp /\ Last(w)
                    /\ w.slash = TextSlash
      /\ names = <<>> /\ name.comps = <<>>
  BY <1>1, <1>2, AtComponent
<1>4. Pending' = Pending /\ Trailing' /\ ~Trailing /\ (Pending <=> last.comp # "/")
  BY <1>1 DEF Pending, Trailing, Looking
<1>5. TextSlash = last.slash /\ TextSlash' = last.slash
  BY <1>1, <1>3 DEF TextSlash
<1>6. Slashed(w) <=> last.comp \notin {"/", ".", ".."} /\ last.slash
  BY <1>3, <1>4, <1>5 DEF Slashed, Plain
<1>7. Spoken(w)'
  <2>1. Rest(w)' = Rest(w)
    BY <1>4 DEF Rest
  <2> QED
    BY <1>1, <1>2, <1>4, <1>5, <2>1 DEF Asks, Spoken
<1>8. Flagged(w)'
  <2>1. flags' \cap Bans = flags \cap Bans
    BY <1>1 DEF Bans
  <2>2. /\ w.ban = flags \cap Bans
        /\ "FOLLOW" \in flags <=> w.follow
        /\ "DIRECTORY" \in flags <=> w.mustdir
    BY <1>2, <1>4 DEF Asks, Flagged
  <2>3. /\ "FOLLOW" \in flags' <=> w.follow \/ Slashed(w)
        /\ "DIRECTORY" \in flags' <=> w.mustdir \/ Slashed(w)
    BY <1>1, <1>6, <2>2
  <2> QED
    BY <1>4, <2>1, <2>2, <2>3 DEF Flagged
<1>9. Stands(w)'
  <2>1. w.at = at /\ Directory(w.at)
    BY <1>1, <1>2 DEF Asks, Stands
  <2>2. w.goal = Goal /\ Goal # "parent" /\ (Goal = "create" <=> Opening /\ op.creat)
    BY <1>1, <1>2, AskedGoal DEF Asks, Walking
  <2>3. Pending => ~Arrived(w)
    BY <1>3, <2>2 DEF Arrived
  <2>4. Pending /\ Creates(w) => ~w.slash /\ Down(w).dentry # Absent
    <3> SUFFICES ASSUME Pending, Creates(w)
                 PROVE  ~w.slash /\ Down(w).dentry # Absent
      OBVIOUS
    <3>1. /\ Opening /\ op.creat /\ Head(w.todo) = last.comp
          /\ last.comp \notin {"/", ".", ".."}
      BY <1>3, <1>4, <2>2 DEF Creates, Plain
    <3>2. Down(w) = [at EXCEPT !.dentry = Child[at.dentry][last.comp]]
      BY <2>1, <3>1 DEF Down
    <3>3. at \in Locations
      BY <1>1 DEF IInv, Typed, Placed, Walking
    <3>4. Down(w).dentry = Child[at.dentry][last.comp]
      BY <3>2, <3>3 DEF Locations
    <3> QED
      BY <1>1, <1>3, <1>5, <3>1, <3>4
  <2>5. Pending => ~MayCreate(w) /\ ~(Creates(w) /\ w.slash)
    BY <2>4 DEF MayCreate
  <2> QED
    BY <1>1, <1>4, <2>1, <2>3, <2>5 DEF Stands, Looking
<1>10. Asks(w, n)'
  BY <1>1, <1>2, <1>7, <1>8, <1>9, SameQuestion DEF Asks
<1> QED
  BY <1>10 DEF Means

\* An open that may create, at a last component that is not in the tree.
LEMMA CreatesHere ==
  ASSUME IInv, Whole, Counted, Asked, Meaning, ~missed, NEW n \in Nat, n >= MAXSYMLINKS,
         AtLast, Normal, op.creat, ~last.slash, Child[at.dentry][last.comp] = Absent
  PROVE  /\ Goal = "create" /\ at \in Locations
         /\ Resolve[Question(n - arg.begun)] =
              [err |-> "ok", at |-> [mnt |-> at.mnt, dentry |-> New], made |-> Here]
<1>1. pc = "last" /\ pc \in Walking /\ at \in Locations
  BY DEF AtLast, IInv, Typed, Placed, Walking
<1>2. PICK w \in Queries : Asks(w, n)
  BY <1>1, Asking
<1>3. Pending
  BY <1>1 DEF Pending, Normal
<1>4. /\ w.todo # <<>> /\ Head(w.todo) = last.comp /\ Last(w) /\ w.slash = TextSlash
      /\ names = <<>> /\ name.comps = <<>>
  BY <1>1, <1>2, <1>3, AtComponent
<1>5. w.slash = last.slash
  BY <1>4 DEF TextSlash
<1>6. w.goal = Goal /\ Goal = "create" /\ w.at = at /\ Directory(w.at)
  BY <1>1, <1>2, AskedGoal DEF Asks, Stands, AtLast
<1>7. Down(w).dentry = Absent
  <2>1. Down(w) = [at EXCEPT !.dentry = Child[at.dentry][last.comp]]
    BY <1>4, <1>6 DEF Down, Normal
  <2> QED
    BY <1>1, <2>1 DEF Locations
<1>8. MayCreate(w)
  BY <1>4, <1>5, <1>6, <1>7 DEF MayCreate, Creates, Plain, Normal
<1>9. Resolve[w] = Create(at, last.comp)
  BY <1>4, <1>6, <1>8, Creating
<1>10. [at EXCEPT !.dentry = New] = [mnt |-> at.mnt, dentry |-> New]
  BY <1>1 DEF Locations
<1> QED
  BY <1>1, <1>2, <1>6, <1>9, <1>10 DEF Asks, Create, Here

\* A file is created.
LEMMA MeaningCreate ==
  ASSUME IInv, Whole, Counted, Asked, Meaning, ~missed, open_create
  PROVE  Meaning'
<1>1. /\ AtLast /\ Normal /\ op.creat /\ ~last.slash /\ made' = Here
      /\ UNCHANGED <<root, arg, op>>
      /\ pc' = "complete" /\ at' = [at EXCEPT !.dentry = New]
      /\ Child[at.dentry][last.comp] = Absent
  BY DEF open_create, call, InCache
<1>2. at \in Locations
  BY <1>1 DEF AtLast, IInv, Typed, Placed, Walking
<1> SUFFICES ASSUME NEW n \in Nat, n >= MAXSYMLINKS
             PROVE  Means(n)'
  BY DEF Meaning
<1>3. /\ Goal = "create"
      /\ Resolve[Question(n - arg.begun)] =
           [err |-> "ok", at |-> [mnt |-> at.mnt, dentry |-> New], made |-> Here]
  BY <1>1, CreatesHere
<1>4. [at EXCEPT !.dentry = New] = [mnt |-> at.mnt, dentry |-> New]
  BY <1>2 DEF Locations
<1>5. Making(n)'
  BY <1>1, <1>3, <1>4, SameQuestion DEF Making
<1> QED
  BY <1>5 DEF Means

\* A walk that gets past a component goes on as its query does.
LEMMA Advancing ==
  ASSUME IInv, Whole, NEW n \in Nat, NEW w \in Queries, Asks(w, n), pc \in Looking, Pending,
         Trouble(w) = "ok", UNCHANGED <<root, arg, op, flags>>,
         pc' \in {"stepped", "enter", "walk"}
  PROVE  LET v == Onward(w) IN
         /\ v \in Queries /\ v.top = root' /\ v.goal = Goal' /\ v.at.dentry # New
         /\ Flagged(v)' /\ Resolve[Question(n - arg.begun)]' = Resolve[v]
<1> DEFINE v == Onward(w)
<1>1. /\ w.todo # <<>> /\ ~Arrived(w) /\ ~MayCreate(w)
      /\ Last(w) <=> how = "trailing"
  BY AtComponent DEF Asks, Stands, Looking
<1>2. /\ v \in Queries /\ v.top = w.top /\ v.goal = w.goal /\ v.ban = w.ban
      /\ v.follow = (w.follow \/ Slashed(w)) /\ v.mustdir = (w.mustdir \/ Slashed(w))
  BY <1>1, OnwardFields
<1>3. Resolve[w] = Resolve[v]
  BY <1>1, GoingOn
<1>6. v.at.dentry # New
  BY <1>1, OnwardInTree DEF Asks
<1> HIDE DEF v
<1>4. Slashed(w) => Trailing
  BY <1>1 DEF Slashed, Trailing
<1>5. Flagged(v)'
  <2>1. ~Trailing'
    BY DEF Trailing, Looking
  <2> QED
    BY <1>2, <1>4, <2>1 DEF Asks, Flagged
<1> QED
  BY <1>2, <1>3, <1>5, <1>6, SameQuestion DEF v, Asks

LEMMA MeaningDots ==
  ASSUME IInv, Whole, Counted, Meaning, ~missed, handle_dots, pc' \in Walking, UNCHANGED opening
  PROVE  Meaning'
<1>1. /\ pc = "lookup" /\ last.comp \in {"/", ".", ".."}
      /\ UNCHANGED <<flags, name, last, how, names, total, root, arg, op>>
      /\ \/ last.comp # ".." /\ pc' = "stepped" /\ UNCHANGED at
         \/ /\ last.comp = ".." /\ pc' = "step" /\ next' = DotDot
            /\ InRoot \/ Below = at \/ "NO_XDEV" \notin flags
  BY DEF handle_dots, call, opening, Fail, Walking
<1>2. /\ at \in Locations /\ root \in Roots /\ at.mnt \in Mounts /\ at.dentry \in Dentries
      /\ name.comps \in Seq(Components) /\ names \in Seq(Text)
  BY <1>1, TreeAssumption DEF IInv, Typed, Placed, Spelled, Walking, Locations, Text
<1> SUFFICES ASSUME NEW n \in Nat, n >= MAXSYMLINKS
             PROVE  Means(n)'
  BY DEF Meaning
<1>3. PICK w \in Queries : Asks(w, n)
  BY <1>1, Asking DEF Walking
<1>4. /\ ~Pending => w.todo = <<>> /\ ~Last(w)
      /\ Pending => w.todo # <<>> /\ Head(w.todo) = last.comp /\ w.slash = TextSlash
      /\ w.at = at /\ w.top = root /\ Directory(w.at)
  BY <1>1, <1>3, AtComponent DEF Asks, Stands, Looking
<1>5. TextSlash' = TextSlash
  BY <1>1 DEF TextSlash
<1>6. Unrolls(Rest(w), name.comps, names)
  BY <1>3 DEF Asks, Spoken
<1>7. CASE last.comp = "/"
  <2>1. ~Pending /\ ~Pending' /\ pc' = "stepped" /\ UNCHANGED at
    BY <1>1, <1>7 DEF Pending
  <2>2. Spoken(w)'
    BY <1>1, <1>4, <1>6, <2>1 DEF Spoken, Rest
  <2>3. Flagged(w)'
    <3>1. ~Slashed(w) /\ ~Trailing'
      BY <1>4, <2>1 DEF Slashed, Trailing, Looking
    <3> QED
      BY <1>1, <1>3, <3>1 DEF Asks, Flagged
  <2>4. Stands(w)'
    BY <1>4, <2>1 DEF Stands, Looking
  <2>5. Asks(w, n)'
    BY <1>1, <1>3, <2>1, <2>2, <2>3, <2>4, SameQuestion DEF Asks
  <2> QED
    BY <2>5 DEF Means
<1>8. CASE last.comp = "."
  <2> DEFINE v == Onward(w)
  <2>1. Pending /\ ~Pending' /\ pc' = "stepped" /\ UNCHANGED at
    BY <1>1, <1>8 DEF Pending, Looking
  <2>2. /\ Head(w.todo) = "." /\ Down(w) = at /\ Found(w) = at
        /\ ~Plain(w) /\ ~IsLink(w) /\ ~Creates(w)
    BY <1>4, <1>8, <2>1 DEF Down, Found, Plain, IsLink, Creates
  <2>3. Trouble(w) = "ok"
    BY <1>2, <1>4, <2>2, TreeAssumption DEF Trouble, Crosses
  <2>4. /\ v \in Queries /\ v.top = root' /\ v.goal = Goal' /\ v.at.dentry # New
        /\ Flagged(v)' /\ Resolve[Question(n - arg.begun)]' = Resolve[v]
    BY <1>1, <1>3, <2>1, <2>3, Advancing DEF Looking
  <2>5. /\ v.at = at /\ v.todo = Tail(w.todo) /\ v.slash = w.slash /\ v.left = w.left
    BY <1>4, <2>1, <2>2, <2>3, OnwardFields
  <2> HIDE DEF v
  <2>6. Spoken(v)'
    BY <1>1, <1>4, <1>5, <1>6, <2>1, <2>5 DEF Spoken, Rest
  <2>7. Stands(v)'
    BY <2>1, <2>5 DEF Stands, Looking
  <2>8. Asks(v, n)'
    BY <1>1, <1>3, <2>1, <2>4, <2>5, <2>6, <2>7 DEF Asks
  <2> QED
    BY <2>4, <2>8 DEF Means
<1>9. CASE last.comp = ".."
  <2>1. /\ Pending /\ Pending' /\ pc' = "step" /\ next' = DotDot
        /\ InRoot \/ Below = at \/ "NO_XDEV" \notin flags
    BY <1>1, <1>9 DEF Pending, Looking
  <2>2. Down(w) = Parent(root, at)
    BY <1>4, <1>9, <2>1 DEF Down
  <2>3. /\ InRoot => Parent(root, at) = at
        /\ ~InRoot => /\ Parent(root, at) = [mnt |-> Below.mnt, dentry |-> UpDir[Below.dentry]]
    BY <1>2, ParentIsPlaced DEF InRoot, Below
  <2>4. Down(w) = next'
    BY <2>1, <2>2, <2>3 DEF DotDot
  <2>5. ~Crosses(w, w.at, next')
    <3>1. w.ban = flags \cap Bans
      BY <1>3 DEF Asks, Flagged
    <3>2. InRoot \/ Below = at => next'.mnt = at.mnt
      BY <2>1 DEF DotDot
    <3> QED
      BY <1>4, <2>1, <3>1, <3>2 DEF Crosses
  <2>6. Spoken(w)'
    BY <1>1, <1>4, <1>5, <1>6, <2>1 DEF Spoken, Rest
  <2>7. Flagged(w)'
    <3>1. Trailing' = Trailing
      BY <1>1, <2>1 DEF Trailing, Looking
    <3> QED
      BY <1>1, <1>3, <3>1 DEF Asks, Flagged
  <2>8. Stands(w)'
    BY <1>1, <1>3, <1>9, <2>1, <2>4, <2>5 DEF Asks, Stands, Looking
  <2>9. Asks(w, n)'
    BY <1>1, <1>3, <2>1, <2>6, <2>7, <2>8, SameQuestion DEF Asks
  <2> QED
    BY <2>9 DEF Means
<1> QED
  BY <1>1, <1>7, <1>8, <1>9

LEMMA MeaningLookup ==
  ASSUME IInv, Whole, Counted, Meaning, ~missed, lookup, UNCHANGED opening
  PROVE  Meaning'
<1>1. /\ pc = "lookup" /\ pc' = "step" /\ last.comp \notin {"/", ".", ".."}
      /\ next' = [mnt |-> at.mnt, dentry |-> Child[at.dentry][last.comp]]
      /\ UNCHANGED <<flags, at, name, last, how, names, total, root, arg, op>>
  BY DEF lookup, call, opening
<1>2. at \in Locations
  BY <1>1 DEF IInv, Typed, Placed, Walking
<1> SUFFICES ASSUME NEW n \in Nat, n >= MAXSYMLINKS
             PROVE  Means(n)'
  BY DEF Meaning
<1>3. PICK w \in Queries : Asks(w, n)
  BY <1>1, Asking DEF Walking
<1>4. Pending /\ Pending' /\ Trailing' = Trailing /\ TextSlash' = TextSlash
  BY <1>1 DEF Pending, Trailing, Looking, TextSlash
<1>5. /\ w.todo # <<>> /\ Head(w.todo) = last.comp /\ w.at = at
  BY <1>1, <1>3, <1>4, AtComponent DEF Asks, Stands, Looking
<1>6. Down(w) = next' /\ next'.mnt = at.mnt
  <2>1. Down(w) = [at EXCEPT !.dentry = Child[at.dentry][last.comp]]
    BY <1>1, <1>5 DEF Down
  <2> QED
    BY <1>1, <1>2, <2>1 DEF Locations
<1>7. Spoken(w)'
  BY <1>1, <1>3, <1>4 DEF Asks, Spoken, Rest
<1>8. Flagged(w)'
  BY <1>1, <1>3, <1>4 DEF Asks, Flagged
<1>9. Stands(w)'
  BY <1>1, <1>3, <1>4, <1>5, <1>6 DEF Asks, Stands, Looking, Crosses
<1>10. Asks(w, n)'
  BY <1>1, <1>3, <1>7, <1>8, <1>9, SameQuestion DEF Asks
<1> QED
  BY <1>10 DEF Means

\* In RCU mode a walk that may not cross mounts stops before it has to.
LEMMA NotRefused ==
  ASSUME next \in Locations, ~Refused, "NO_XDEV" \in flags
  PROVE  Traverse(next) = next
<1>1. CASE "RCU" \in flags
  <2>1. ~Managed(next.dentry)
    BY <1>1 DEF Refused
  <2>2. Over(next) = {}
    BY <2>1 DEF Over, Managed, MountRoot
  <2> QED
    BY <2>2 DEF Traverse
<1> QED
  BY <1>1 DEF Refused

LEMMA MeaningStep ==
  ASSUME IInv, Whole, Counted, Meaning, ~missed, step_into, UNCHANGED opening
  PROVE  Meaning'
<1>1. /\ pc = "step" /\ next.dentry # Absent /\ ~Refused /\ next' = Traverse(next)
      /\ \/ /\ Kind[Traverse(next).dentry] = "link" /\ MayFollow
            /\ pc' = "pick" /\ UNCHANGED at
         \/ /\ ~(Kind[Traverse(next).dentry] = "link" /\ MayFollow)
            /\ at' = Traverse(next) /\ pc' = "stepped"
      /\ UNCHANGED <<flags, name, last, how, names, total, root, arg, op, made>>
  BY DEF step_into, stack, call, opening
<1>2. /\ next \in Locations /\ at \in Locations
      /\ name.comps \in Seq(Components) /\ names \in Seq(Text)
  BY <1>1 DEF IInv, Typed, Placed, Spelled, Walking, At, Locations, Text
<1>3. last.comp \notin {"/", "."}
  BY <1>1 DEF Whole
<1>4. TextSlash' = TextSlash
  BY <1>1 DEF TextSlash
<1> SUFFICES ASSUME NEW n \in Nat, n >= MAXSYMLINKS
             PROVE  Means(n)'
  BY DEF Meaning
<1>5. ASSUME NEW w \in Queries, Asks(w, n)
      PROVE  Means(n)'
  <2>1. /\ Pending /\ w.todo # <<>> /\ Head(w.todo) = last.comp /\ w.slash = TextSlash
        /\ Last(w) <=> how = "trailing"
    BY <1>1, <1>3, <1>5, AtComponent DEF Pending, Looking
  <2>2. /\ Directory(w.at) /\ ~(Creates(w) /\ w.slash) /\ ~Arrived(w) /\ ~MayCreate(w)
        /\ Down(w) = next /\ ~Crosses(w, w.at, next)
        /\ last.comp # ".." => w.at = at
        /\ w.top = root /\ w.ban = flags \cap Bans
    BY <1>1, <1>5, <2>1 DEF Asks, Stands, Flagged, Looking
  <2>3. Found(w) = Traverse(next)
    BY <1>1, <1>3, <2>1, <2>2, DownIsPlaced
  <2>4. ~Crosses(w, Down(w), Found(w))
    BY <1>1, <1>2, <2>2, <2>3, NotRefused DEF Crosses
  <2>5. IsLink(w) <=> Kind[Traverse(next).dentry] = "link" /\ MayFollow
    <3>1. Plain(w) <=> last.comp # ".."
      BY <1>3, <2>1 DEF Plain
    <3>2. Last(w) /\ Plain(w) => (w.follow \/ w.slash <=> "FOLLOW" \in flags)
      <4>1. Last(w) /\ Plain(w) => (Slashed(w) <=> w.slash) /\ Trailing
        BY <1>1, <2>1 DEF Slashed, Trailing, Looking
      <4> QED
        BY <1>5, <4>1 DEF Asks, Flagged
    <3> QED
      BY <2>1, <2>3, <3>1, <3>2 DEF IsLink, MayFollow
  <2>6. Unrolls(Tail(w.todo), name.comps, names)
    BY <1>5, <2>1 DEF Asks, Spoken, Rest
  <2>7. CASE IsLink(w)
    <3>1. pc' = "pick" /\ UNCHANGED at /\ last.comp # ".."
      BY <1>1, <2>5, <2>7 DEF MayFollow
    <3>2. Pending' /\ Trailing' = Trailing
      BY <1>1, <1>3, <3>1 DEF Pending, Trailing, Looking
    <3>3. Spoken(w)'
      BY <1>1, <1>4, <2>1, <2>6, <3>2 DEF Spoken, Rest
    <3>4. Flagged(w)'
      BY <1>1, <1>5, <3>2 DEF Asks, Flagged
    <3>5. Reached(w)'
      BY <1>1, <2>2, <2>3, <2>4, <2>7, <3>2 DEF Reached
    <3>6. Stands(w)'
      BY <2>2, <3>1, <3>5 DEF Stands, Looking
    <3>7. Asks(w, n)'
      BY <1>1, <1>5, <3>1, <3>3, <3>4, <3>6, SameQuestion DEF Asks
    <3> QED
      BY <3>7 DEF Means
  <2>8. CASE ~IsLink(w)
    <3> DEFINE v == Onward(w)
    <3>1. pc' = "stepped" /\ at' = Found(w)
      BY <1>1, <2>3, <2>5, <2>8
    <3>2. Trouble(w) = "ok"
      BY <1>1, <2>2, <2>4, <2>8 DEF Trouble
    <3>3. /\ v \in Queries /\ v.top = root' /\ v.goal = Goal' /\ v.at.dentry # New
          /\ Flagged(v)' /\ Resolve[Question(n - arg.begun)]' = Resolve[v]
      BY <1>1, <1>5, <2>1, <3>1, <3>2, Advancing DEF Looking
    <3>4. /\ v.at = at' /\ v.todo = Tail(w.todo) /\ v.slash = w.slash /\ v.left = w.left
      BY <2>1, <2>8, <3>1, <3>2, OnwardFields
    <3> HIDE DEF v
    <3>5. ~Pending'
      BY <3>1 DEF Pending, Looking
    <3>6. Spoken(v)'
      BY <1>1, <1>4, <2>1, <2>6, <3>4, <3>5 DEF Spoken, Rest
    <3>7. Stands(v)'
      BY <3>1, <3>4 DEF Stands, Looking
    <3>8. Asks(v, n)'
      BY <1>1, <1>5, <3>1, <3>3, <3>4, <3>6, <3>7 DEF Asks
    <3> QED
      BY <3>3, <3>8 DEF Means
  <2> QED
    BY <2>7, <2>8
<1>6. Means(n) /\ ~Making(n)
  BY <1>1 DEF Meaning, Making, Walking
<1> QED
  BY <1>5, <1>6 DEF Means

LEMMA MeaningPick ==
  ASSUME IInv, Whole, Counted, Meaning, ~missed, pick_link, pc' \in Walking, UNCHANGED opening
  PROVE  Meaning'
<1>1. /\ pc = "pick" /\ pc' = "get_link" /\ total' = total + 1
      /\ "NO_SYMLINKS" \notin flags
      /\ UNCHANGED <<flags, at, name, last, how, next, names, root, arg, op>>
  BY DEF pick_link, PushLink, Fail, Walking, call, opening
<1>2. Pending' = Pending /\ Trailing' = Trailing /\ TextSlash' = TextSlash
  BY <1>1 DEF Pending, Trailing, TextSlash, Looking
<1> SUFFICES ASSUME NEW n \in Nat, n >= MAXSYMLINKS
             PROVE  Means(n)'
  BY DEF Meaning
<1>3. /\ \E w \in Queries : Asks(w, n)
      /\ total \in Nat
  BY <1>1, Asking DEF Walking
<1>4. PICK w \in Queries : Asks(w, n)
  BY <1>3
<1>5. Spoken(w)'
  BY <1>1, <1>2, <1>4 DEF Asks, Spoken, Rest
<1>6. Flagged(w)'
  BY <1>1, <1>2, <1>4 DEF Asks, Flagged
<1>7. Reached(w)'
  BY <1>1, <1>2, <1>4 DEF Asks, Stands, Reached
<1>8. Stands(w)'
  BY <1>1, <1>2, <1>4, <1>7 DEF Asks, Stands, Flagged, Looking
<1>9. w.left = n - total /\ n - total = n + 1 - total'
  BY <1>1, <1>3, <1>4 DEF Asks
<1>10. Asks(w, n)'
  BY <1>1, <1>4, <1>5, <1>6, <1>8, <1>9, SameQuestion DEF Asks
<1> QED
  BY <1>10 DEF Means

\* The body of a link is read: the walk goes on in it.
LEMMA MeaningGetLink ==
  ASSUME IInv, Whole, Counted, Meaning, ~missed, get_link, pc' \in Walking, UNCHANGED opening
  PROVE  Meaning'
<1> DEFINE body == Body[next.dentry]
<1>1. /\ pc = "get_link" /\ ~JumpRefused(body)
      /\ at' = IF body.abs THEN root ELSE at
      /\ \/ body.comps = <<>> /\ pc' = "stepped" /\ UNCHANGED <<name, names>>
         \/ /\ body.comps # <<>>
            /\ name' = [comps |-> body.comps, slash |-> body.slash, src |-> total]
            /\ \/ how = "trailing" /\ pc' = "enter" /\ UNCHANGED names
               \/ how # "trailing" /\ pc' = "walk" /\ names' = Append(names, name)
      /\ UNCHANGED <<flags, last, how, total, root, arg, op>>
  BY DEF get_link, call, opening, Fail, Walking
<1> HIDE DEF body
<1>2. /\ at \in Locations /\ root \in Roots /\ Kind[root.dentry] = "dir"
      /\ name \in Text /\ name.comps \in Seq(Components) /\ names \in Seq(Text)
  BY <1>1, TreeAssumption DEF IInv, Typed, Placed, Spelled, Walking, Text
<1>3. total \in Nat /\ total <= MAXSYMLINKS /\ MAXSYMLINKS \in Nat
  BY <1>1, LimitAssumption DEF Counted, IInv, Stack, Numbered, Walking
<1> SUFFICES ASSUME NEW n \in Nat, n >= MAXSYMLINKS
             PROVE  Means(n)'
  BY DEF Meaning
<1>4. PICK w \in Queries : Asks(w, n)
  BY <1>1, Asking DEF Walking
<1>5. /\ Reached(w) /\ Pending /\ IsLink(w) /\ Found(w) = next /\ LinkBody(w) = body
      /\ ~Arrived(w) /\ ~MayCreate(w) /\ ~(Creates(w) /\ w.slash)
      /\ Directory(w.at) /\ w.at = at /\ "NO_SYMLINKS" \notin w.ban
      /\ w.top = root /\ w.ban = flags \cap Bans
      /\ w.left = n + 1 - total
  BY <1>1, <1>4 DEF Asks, Stands, Reached, Flagged, Looking, LinkBody, body
<1>6. /\ w.todo # <<>> /\ w.slash = TextSlash
      /\ Last(w) <=> how = "trailing"
      /\ how = "trailing" => names = <<>> /\ name.comps = <<>>
  BY <1>1, <1>4, <1>5, AtComponent DEF Looking
<1>7. Origin(w) = at'
  BY <1>1, <1>5 DEF Origin
<1>8. w.left # 0 /\ w.left - 1 = n - total
  BY <1>3, <1>5
<1>9. ~Crosses(w, w.at, Origin(w))
  BY <1>1, <1>5 DEF Crosses, Origin, JumpRefused
<1>10. Trouble(w) = "ok"
  BY <1>5, <1>8, <1>9 DEF Trouble, Reached
<1> DEFINE v == Onward(w)
<1>11. /\ v \in Queries /\ v.top = root' /\ v.goal = Goal' /\ v.at.dentry # New
       /\ Flagged(v)' /\ Resolve[Question(n - arg.begun)]' = Resolve[v]
  BY <1>1, <1>4, <1>5, <1>10, Advancing DEF Looking
<1>12. /\ body \in [abs : BOOLEAN, comps : Seq(Components), slash : BOOLEAN]
       /\ v.at = at' /\ v.todo = body.comps \o Tail(w.todo)
       /\ v.slash = (IF how = "trailing" THEN body.slash ELSE w.slash)
       /\ v.left = n - total'
  BY <1>1, <1>5, <1>6, <1>7, <1>8, <1>10, OnwardFields
<1> HIDE DEF v
<1>13. body.comps \in Seq(Components) /\ ~Pending'
  BY <1>1, <1>12 DEF Pending, Looking
<1>14. Unrolls(Tail(w.todo), name.comps, names) /\ Tail(w.todo) \in Seq(Components)
  BY <1>4, <1>5, DownIsPlaced, <1>6 DEF Asks, Spoken, Rest
<1>15. Spoken(v)'
  <2>1. CASE body.comps = <<>>
    <3>1. v.todo = Tail(w.todo) /\ TextSlash' = TextSlash /\ UNCHANGED <<name, names>>
      BY <1>1, <1>12, <1>14, <2>1, ConcatEmptySeq DEF TextSlash
    <3>2. how = "trailing" => Tail(w.todo) = <<>>
      BY <1>6, NothingMore
    <3> QED
      BY <1>6, <1>12, <1>13, <1>14, <3>1, <3>2 DEF Spoken, Rest
  <2>2. CASE body.comps # <<>> /\ how = "trailing"
    <3>1. Tail(w.todo) = <<>> /\ names' = <<>> /\ name'.comps = body.comps
          /\ name'.slash = body.slash
      BY <1>1, <1>6, <2>2, NothingMore
    <3>2. v.todo = body.comps
      BY <1>12, <1>13, <3>1, ConcatEmptySeq
    <3>3. Unrolls(v.todo, name'.comps, names')
      BY <1>13, <3>1, <3>2, NothingSaved
    <3>4. TextSlash' = body.slash
      BY <2>2, <3>1 DEF TextSlash
    <3> QED
      BY <1>12, <1>13, <2>2, <3>3, <3>4 DEF Spoken, Rest
  <2>3. CASE body.comps # <<>> /\ how # "trailing"
    <3>1. names' = Append(names, name) /\ name'.comps = body.comps
      BY <1>1, <2>3
    <3>2. Unrolls(v.todo, name'.comps, names')
      BY <1>2, <1>12, <1>13, <1>14, <3>1, UnrollsAppend
    <3>3. names' # <<>> /\ names'[1] = IF names # <<>> THEN names[1] ELSE name
      BY <1>2, <3>1, AppendProperties, EmptySeq
    <3>4. name.comps # <<>>
      BY <1>1, <2>3 DEF Whole, Looking
    <3>5. TextSlash' = TextSlash
      BY <3>3, <3>4 DEF TextSlash
    <3> QED
      BY <1>6, <1>12, <1>13, <2>3, <3>2, <3>5 DEF Spoken, Rest
  <2> QED
    BY <2>1, <2>2, <2>3
<1>16. Directory(at')
  BY <1>1, <1>2, <1>5 DEF Directory
<1>17. Stands(v)'
  BY <1>1, <1>12, <1>16 DEF Stands, Looking
<1>18. Asks(v, n)'
  BY <1>1, <1>11, <1>12, <1>15, <1>17 DEF Asks
<1> QED
  BY <1>11, <1>18 DEF Means

\* A component is done.
LEMMA MeaningStepped ==
  ASSUME IInv, Whole, Counted, Meaning, ~missed, stepped, pc' \in Walking, UNCHANGED opening
  PROVE  Meaning'
<1>1. /\ pc = "stepped"
      /\ \/ how = "trailing" /\ pc' = "complete"
         \/ how # "trailing" /\ Kind[at.dentry] = "dir" /\ pc' = "walk"
      /\ UNCHANGED <<flags, at, name, last, how, names, total, root, arg, op, made>>
  BY DEF stepped, stack, call, opening, Fail, Walking
<1> SUFFICES ASSUME NEW n \in Nat, n >= MAXSYMLINKS
             PROVE  Means(n)'
  BY DEF Meaning
<1>2. ASSUME NEW w \in Queries, Asks(w, n)
      PROVE  Means(n)'
  <2>1. ~Pending /\ ~Pending' /\ ~Trailing /\ ~Trailing' /\ TextSlash' = TextSlash
    BY <1>1 DEF Pending, Trailing, Looking, TextSlash
  <2>2. Spoken(w)'
    BY <1>1, <1>2, <2>1 DEF Asks, Spoken, Rest
  <2>3. Flagged(w)'
    BY <1>1, <1>2, <2>1 DEF Asks, Flagged
  <2>4. Stands(w)'
    BY <1>1, <1>2 DEF Asks, Stands, Looking, Directory
  <2>5. Asks(w, n)'
    BY <1>1, <1>2, <2>2, <2>3, <2>4, SameQuestion DEF Asks
  <2> QED
    BY <2>5 DEF Means
<1>3. Means(n) /\ ~Making(n)
  BY <1>1 DEF Meaning, Making, Walking
<1> QED
  BY <1>2, <1>3 DEF Means

LEMMA NextMeaning ==
  ASSUME IInv, Whole, Counted, Asked, Asked', Meaning, [OpenNext]_openVars
  PROVE  Meaning'
<1> SUFFICES ASSUME pc' \in Walking, ~missed'
             PROVE  Meaning'
  BY DEF Meaning
<1>1. CASE (__filename_lookup \/ retry) /\ UNCHANGED opening
  BY <1>1, MeaningBegins
<1>2. CASE /\ link_path_walk \/ walk_more \/ walk_nested \/ walk_last
           /\ ~missed /\ UNCHANGED opening
  BY <1>2, MeaningEnter, MeaningMore, MeaningLast
<1>3. CASE /\ ~missed
           /\ \/ ~Opening /\ lookup_last /\ UNCHANGED opening
              \/ open_last_dots \/ open_last_plain \/ open_last_exists
  BY <1>3, MeaningLookupLast
<1>4. CASE ~missed /\ open_create
  BY <1>4, MeaningCreate
<1>5. CASE /\ handle_dots \/ lookup \/ step_into \/ pick_link \/ stepped \/ get_link
           /\ ~missed /\ UNCHANGED opening
  BY <1>5, MeaningDots, MeaningLookup, MeaningStep, MeaningPick, MeaningStepped,
     MeaningGetLink
<1>6. CASE UNCHANGED openVars
  <2>1. /\ UNCHANGED <<pc, flags, at, name, last, how, next, names, total, root, arg>>
        /\ UNCHANGED <<op, made, missed>>
    BY <1>6 DEF openVars, vars, stack, call, opening
  <2>2. Pending' = Pending /\ Trailing' = Trailing /\ TextSlash' = TextSlash
    BY <2>1 DEF Pending, Trailing, TextSlash
  <2> SUFFICES ASSUME NEW n \in Nat, n >= MAXSYMLINKS
               PROVE  Means(n)'
    BY DEF Meaning
  <2>3. Making(n) => Making(n)'
    BY <2>1, SameQuestion DEF Making
  <2>4. ASSUME NEW w \in Queries, Asks(w, n)
        PROVE  Asks(w, n)'
    <3>1. Spoken(w)' /\ Flagged(w)'
      BY <2>1, <2>2, <2>4 DEF Asks, Spoken, Flagged, Rest
    <3>2. Stands(w)'
      BY <2>1, <2>2, <2>4 DEF Asks, Stands, Reached
    <3> QED
      BY <2>1, <2>4, <3>1, <3>2, SameQuestion DEF Asks
  <2>5. Means(n)
    BY <2>1 DEF Meaning
  <2> QED
    BY <2>3, <2>4, <2>5 DEF Means
<1> QED
  BY <1>1, <1>2, <1>3, <1>4, <1>5, <1>6, WalkGoesOn DEF opening

-----------------------------------------------------------------------------
(* What was made.                                                          *)

\* The call's question stays from the first step of its walk to its return.
LEMMA QuestionHolds ==
  ASSUME [OpenNext]_openVars, pc \notin Unstarted
  PROVE  /\ pc' \notin Unstarted /\ UNCHANGED <<root, op>> /\ arg'.path = arg.path
         /\ arg'.flags \cup {"RCU"} = arg.flags \cup {"RCU"}
         /\ retry \/ UNCHANGED arg
         /\ open_create \/ open_create_over \/ UNCHANGED made
<1> USE DEF Unstarted
<1>1. CASE namei_lookup \/ vfs_openat_api \/ getname \/ getname_long \/ recopy
             \/ getname_fails \/ __filename_lookup
  BY <1>1 DEF namei_lookup, vfs_openat_api, getname, getname_long, recopy,
              getname_fails, __filename_lookup
<1>2. CASE retry /\ UNCHANGED opening
  <2>1. /\ pc' = "enter" /\ UNCHANGED <<root, op, made>>
        /\ arg' = [path |-> arg.path, flags |-> arg.flags \ {"RCU"}, begun |-> total]
    BY <1>2 DEF retry, path_init, opening
  <2> QED
    BY <1>2, <2>1
<1>3. CASE Walk /\ UNCHANGED opening
  <2>1. CASE __filename_lookup \/ retry
    BY <1>1, <1>2, <1>3, <2>1
  <2>2. CASE link_path_walk \/ walk_more \/ walk_nested \/ walk_last
    BY <1>3, <2>2 DEF link_path_walk, walk_more, walk_nested, walk_last, call, opening
  <2>3. CASE handle_dots \/ lookup \/ lookup_fails \/ step_into
    BY <1>3, <2>3 DEF handle_dots, lookup, lookup_fails, step_into, call, opening, Fail
  <2>4. CASE step_negative \/ step_refused \/ stepped
    BY <1>3, <2>4 DEF step_negative, step_refused, stepped, call, opening, Fail
  <2>5. CASE reserve_loop \/ pick_link \/ reserve_fails
    BY <1>3, <2>5 DEF reserve_loop, pick_link, PushLink, reserve_fails, call, opening,
                      Fail
  <2>6. CASE get_link_fails \/ get_link \/ terminate_walk
    BY <1>3, <2>6 DEF get_link_fails, get_link, terminate_walk, call, opening, Fail
  <2> QED
    BY <1>3, <2>1, <2>2, <2>3, <2>4, <2>5, <2>6 DEF Walk
<1>4. CASE ~Opening /\ LookupEnd /\ UNCHANGED opening
  BY <1>4 DEF LookupEnd, lookup_last, path_parentat, complete_walk, Fail, call, opening
<1>5. CASE open_last_dots \/ open_last_plain \/ open_last_exists
             \/ (lookup_misses /\ UNCHANGED opening)
  BY <1>5 DEF open_last_dots, open_last_plain, open_last_exists, lookup_misses,
              AtLast, call, opening
<1>6. CASE open_last_miss \/ open_last_isdir \/ open_create_fails \/ open_create
             \/ open_create_again \/ open_create_over
  BY <1>6 DEF open_last_miss, open_last_isdir, open_create_fails, open_create,
              open_create_again, open_create_over, call, opening, Fail
<1>7. CASE do_open \/ do_o_path \/ call_returns
  BY <1>7 DEF do_open, do_o_path, Looked, call_returns, return, walking, call, Fail
<1>8. CASE UNCHANGED openVars
  BY <1>8 DEF openVars, vars, call, opening
<1> QED
  BY <1>1, <1>2, <1>3, <1>4, <1>5, <1>6, <1>7, <1>8 DEF OpenNext, OpenStep

\* Before the walk nothing is made.
LEMMA NothingMadeYet ==
  ASSUME [OpenNext]_openVars, pc \in Unstarted
  PROVE  UNCHANGED made
<1>1. CASE namei_lookup \/ vfs_openat_api \/ getname \/ getname_long \/ recopy
             \/ getname_fails
  BY <1>1 DEF namei_lookup, vfs_openat_api, getname, getname_long, recopy,
              getname_fails, opening
<1>2. CASE UNCHANGED opening
  BY <1>2 DEF opening
<1>3. CASE open_last_dots \/ open_last_plain \/ open_last_exists
             \/ open_last_miss \/ open_last_isdir \/ open_create_fails
             \/ open_create \/ open_create_again \/ open_create_over
  BY <1>3 DEF open_last_dots, open_last_plain, open_last_exists,
              open_last_miss, open_last_isdir, open_create_fails, open_create,
              open_create_again, open_create_over, AtLast, Unstarted
<1>4. CASE do_open \/ do_o_path \/ call_returns
  BY <1>4 DEF do_open, do_o_path, Looked, call_returns
<1> QED
  BY <1>1, <1>2, <1>3, <1>4 DEF OpenNext, OpenStep, openVars

LEMMA NextCreated ==
  ASSUME IInv, Whole, Counted, Asked, Meaning, Missed, Created, [OpenNext]_openVars
  PROVE  Created'
<1>1. CASE pc \in Unstarted
  <2>1. made' = NoPlace
    BY <1>1, NothingMadeYet DEF Created
  <2> QED
    BY <2>1 DEF Created, NoPlace
<1>2. CASE pc \notin Unstarted
  <2>1. /\ pc' \notin Unstarted /\ Goal' = Goal
        /\ Question(MAXSYMLINKS)' = Question(MAXSYMLINKS)
        /\ open_create \/ open_create_over \/ UNCHANGED made
    BY <1>2, QuestionHolds, QuestionStays
  <2>2. CASE UNCHANGED made
    BY <2>1, <2>2 DEF Created, MadeOver, NoPlace
  <2>3. CASE open_create
    <3>1. /\ AtLast /\ Normal /\ op.creat /\ ~last.slash /\ ~InCache /\ made' = Here
          /\ pc \in Walking /\ ~missed
      BY <2>3 DEF open_create, AtLast, Walking, Missed
    <3>2. Child[at.dentry][last.comp] = Absent
      BY <3>1 DEF InCache
    <3> DEFINE n == MAXSYMLINKS + arg.begun
    <3>3. n \in Nat /\ n >= MAXSYMLINKS /\ n - arg.begun = MAXSYMLINKS
      BY LimitAssumption DEF Counted
    <3> HIDE DEF n
    <3>4. /\ Goal = "create" /\ at \in Locations
          /\ Resolve[Question(n - arg.begun)] =
               [err |-> "ok", at |-> [mnt |-> at.mnt, dentry |-> New], made |-> Here]
      BY <3>1, <3>2, <3>3, CreatesHere
    <3>5. Resolve[Question(MAXSYMLINKS)].made = Here
      BY <3>3, <3>4
    <3> QED
      BY <2>1, <3>1, <3>4, <3>5 DEF Created
  <2>4. CASE open_create_over /\ ~UNCHANGED made
    <3>1. /\ AtLast /\ op.creat /\ made' = Here /\ pc \in Walking
          /\ Child[at.dentry][last.comp] # Absent
      BY <2>4 DEF open_create_over, InCache, AtLast, Walking
    <3>2. Goal = "create" /\ at \in Locations
      BY <3>1, AskedGoal DEF AtLast, IInv, Typed, Placed, Walking
    <3>3. Here # NoPlace
      BY <3>2, TreeAssumption DEF Here, NoPlace, Locations
    <3>4. MadeOver'
      BY <3>1, <3>3 DEF MadeOver, Here
    <3> QED
      BY <2>1, <3>2, <3>4 DEF Created
  <2> QED
    BY <2>1, <2>2, <2>3, <2>4
<1> QED
  BY <1>1, <1>2

-----------------------------------------------------------------------------
(***************************************************************************)
(* What a try comes to: the query with n = MAXSYMLINKS.                    *)
(***************************************************************************)
LEMMA RefusedAsMeant ==
  ASSUME NEW w \in Queries, Asks(w, MAXSYMLINKS), w.todo # <<>>, Trouble(w) # "ok",
         ~MayCreate(w), ~(Arrived(w) /\ Directory(w.at))
  PROVE  Expected.err = Trouble(w)
<1>1. Resolve[w] = Refuse(Trouble(w))
  BY Refusing
<1> QED
  BY <1>1 DEF Expected, Asks, Refuse

\* What the query says in the middle of a component.
LEMMA AtFault ==
  ASSUME IInv, Whole, Counted, Meaning, ~missed, pc \in Looking \cup {"last"}, Pending
  PROVE  \E w \in Queries :
           /\ Asks(w, MAXSYMLINKS)
           /\ w.todo # <<>> /\ Head(w.todo) = last.comp /\ w.slash = TextSlash
           /\ Last(w) <=> pc = "last" \/ how = "trailing"
           /\ w.top = root /\ w.goal = Goal /\ w.ban = flags \cap Bans
           /\ Directory(w.at) /\ w.at \in Locations
           /\ pc # "step" \/ last.comp # ".." => w.at = at
           /\ pc \in Looking => /\ ~Arrived(w) /\ ~MayCreate(w)
                                /\ ~(Creates(w) /\ w.slash)
<1>1. MAXSYMLINKS \in Nat /\ MAXSYMLINKS >= MAXSYMLINKS /\ Means(MAXSYMLINKS)
  BY LimitAssumption DEF Meaning, Looking, Walking
<1>2. ~Making(MAXSYMLINKS)
  BY DEF Making, Looking
<1>3. ASSUME NEW w \in Queries, Asks(w, MAXSYMLINKS)
      PROVE  /\ w.todo # <<>> /\ Head(w.todo) = last.comp /\ w.slash = TextSlash
             /\ Last(w) <=> pc = "last" \/ how = "trailing"
             /\ w.top = root /\ w.goal = Goal /\ w.ban = flags \cap Bans
             /\ Directory(w.at) /\ w.at \in Locations
             /\ pc # "step" \/ last.comp # ".." => w.at = at
             /\ pc \in Looking => /\ ~Arrived(w) /\ ~MayCreate(w)
                                  /\ ~(Creates(w) /\ w.slash)
  <2>1. /\ w.todo # <<>> /\ Head(w.todo) = last.comp /\ w.slash = TextSlash
        /\ Last(w) <=> pc = "last" \/ how = "trailing"
    BY <1>1, <1>3, AtComponent
  <2>2. w.at \in Locations
    BY DEF Queries
  <2> QED
    BY <1>3, <2>1, <2>2 DEF Asks, Stands, Flagged
<1> QED
  BY <1>1, <1>2, <1>3 DEF Means

\* A component that cannot be looked up.
LEMMA LookupFault ==
  ASSUME IInv, Whole, Counted, Meaning, ~missed,
         \/ handle_dots /\ pc' = "terminate"
         \/ step_negative
         \/ step_refused /\ "RCU" \notin flags
  PROVE  Expected.err = err'
<1>1. CASE handle_dots
  <2>1. /\ pc = "lookup" /\ last.comp = ".." /\ ~InRoot /\ Below # at
        /\ "NO_XDEV" \in flags /\ err' = "EXDEV"
    BY <1>1 DEF handle_dots, Fail, step_negative, step_refused
  <2>2. Pending /\ at \in Locations /\ root \in Roots
    BY <2>1 DEF Pending, Looking, IInv, Typed, Placed, Walking
  <2>3. PICK w \in Queries :
          /\ Asks(w, MAXSYMLINKS) /\ w.todo # <<>> /\ Head(w.todo) = ".."
          /\ w.top = root /\ w.ban = flags \cap Bans /\ w.at = at
          /\ Directory(w.at) /\ ~Arrived(w) /\ ~MayCreate(w)
    BY <2>1, <2>2, AtFault DEF Looking
  <2>4. Down(w) = Parent(root, at)
    BY <2>3 DEF Down
  <2>5. Down(w) \in Locations /\ Down(w).mnt # at.mnt
    <3>1. ~(at = root \/ (at.dentry = RootOf[at.mnt] /\ Mountpoint[<<root, at.mnt>>] = Nowhere))
      BY <2>1 DEF InRoot
    <3>2. /\ Parent(root, at) \in Locations /\ Below \in Locations
          /\ Parent(root, at) = [mnt |-> Below.mnt, dentry |-> UpDir[Below.dentry]]
          /\ Below.mnt = at.mnt => Below = at
      BY <2>2, <3>1, ParentIsPlaced DEF Below
    <3> QED
      BY <2>1, <2>4, <3>2
  <2>6. Crosses(w, w.at, Down(w)) /\ Down(w).dentry # Absent /\ ~Creates(w)
    BY <2>1, <2>3, <2>5, TreeAssumption DEF Crosses, Locations, Creates, Plain, Bans
  <2>7. Trouble(w) = "EXDEV"
    BY <2>3, <2>6 DEF Trouble
  <2> QED
    BY <2>1, <2>3, <2>7, RefusedAsMeant
<1>2. CASE step_negative \/ (step_refused /\ "RCU" \notin flags)
  <2>1. /\ pc = "step"
        /\ \/ next.dentry = Absent /\ err' = "ENOENT"
           \/ /\ next.dentry # Absent /\ err' = "EXDEV"
              /\ "NO_XDEV" \in flags /\ Traverse(next) # next
    BY <1>2 DEF step_negative, step_refused, Refused, Fail
  <2>2. last.comp \notin {"/", "."} /\ Pending /\ next.mnt \in Mounts
        /\ (next.dentry # Absent => next \in Locations)
    BY <2>1 DEF Whole, Pending, Looking, IInv, Typed, Placed, At, Locations
  <2>3. PICK w \in Queries :
          /\ Asks(w, MAXSYMLINKS) /\ w.todo # <<>> /\ Head(w.todo) = last.comp
          /\ w.ban = flags \cap Bans
          /\ Directory(w.at) /\ ~Arrived(w) /\ ~MayCreate(w) /\ ~(Creates(w) /\ w.slash)
    BY <2>1, <2>2, AtFault DEF Looking
  <2>4. Down(w) = next /\ ~Crosses(w, w.at, Down(w))
    BY <2>1, <2>3 DEF Asks, Stands
  <2>5. CASE next.dentry = Absent
    <3>1. Trouble(w) = "ENOENT"
      BY <2>3, <2>4, <2>5 DEF Trouble
    <3> QED
      BY <2>1, <2>3, <2>5, <3>1, RefusedAsMeant
  <2>6. CASE next.dentry # Absent
    <3>1. Found(w) = Traverse(next) /\ Traverse(next).mnt # next.mnt
      BY <2>1, <2>2, <2>3, <2>4, <2>6, DownIsPlaced, TraverseIsPlaced
    <3>2. Crosses(w, Down(w), Found(w))
      BY <2>1, <2>3, <2>4, <2>6, <3>1 DEF Crosses, Bans
    <3>3. Trouble(w) = "EXDEV"
      BY <2>3, <2>4, <2>6, <3>2 DEF Trouble
    <3> QED
      BY <2>1, <2>3, <2>6, <3>3, RefusedAsMeant
  <2> QED
    BY <2>5, <2>6
<1> QED
  BY <1>1, <1>2

\* A link that may not be followed.
LEMMA LinkFault ==
  ASSUME IInv, Whole, Counted, Meaning, ~missed, pc' = "terminate",
         reserve_loop \/ pick_link \/ (get_link /\ JumpRefused(Body[next.dentry]))
  PROVE  Expected.err = err'
<1>1. /\ pc \in {"pick", "get_link"}
      /\ \/ pc = "pick" /\ total >= MAXSYMLINKS /\ err' = "ELOOP"
         \/ pc = "pick" /\ "NO_SYMLINKS" \in flags /\ err' = "ELOOP"
         \/ /\ pc = "get_link" /\ JumpRefused(Body[next.dentry]) /\ err' = "EXDEV"
  <2>1. CASE reserve_loop
    BY <2>1 DEF reserve_loop, TooManyLinks, Fail
  <2>2. CASE pick_link
    BY <2>2 DEF pick_link, PushLink, Fail
  <2>3. CASE get_link /\ JumpRefused(Body[next.dentry])
    BY <2>3 DEF get_link, Fail
  <2> QED
    BY <2>1, <2>2, <2>3
<1>2. total \in Nat /\ total <= MAXSYMLINKS /\ MAXSYMLINKS \in Nat
  BY <1>1, LimitAssumption DEF Counted, IInv, Stack, Numbered, Walking
<1>3. MAXSYMLINKS >= MAXSYMLINKS
  BY <1>2
<1>4. PICK w \in Queries : Asks(w, MAXSYMLINKS)
  BY <1>1, <1>2, <1>3, Asking DEF Walking
<1>5. /\ Reached(w) /\ w.top = root /\ w.ban = flags \cap Bans
      /\ w.at = at /\ Directory(w.at) /\ ~Arrived(w) /\ ~MayCreate(w)
      /\ ~(Creates(w) /\ w.slash) /\ w.todo # <<>>
      /\ pc = "pick" => w.left = MAXSYMLINKS - total
      /\ pc = "get_link" => /\ w.left = MAXSYMLINKS + 1 - total
                            /\ "NO_SYMLINKS" \notin w.ban
  BY <1>1, <1>4 DEF Asks, Stands, Spoken, Flagged, Looking, Reached
<1>6. CASE pc = "pick"
  <2>1. w.left = 0 \/ "NO_SYMLINKS" \in w.ban
    <3>1. CASE total >= MAXSYMLINKS
      BY <1>2, <1>5, <1>6, <3>1
    <3>2. CASE "NO_SYMLINKS" \in flags
      BY <1>5, <3>2 DEF Bans
    <3> QED
      BY <1>1, <1>6, <3>1, <3>2
  <2>2. Trouble(w) = "ELOOP"
    BY <1>5, <2>1 DEF Trouble, Reached
  <2> QED
    BY <1>1, <1>4, <1>5, <1>6, <2>2, RefusedAsMeant
<1>7. CASE pc = "get_link"
  <2>1. w.left # 0
    BY <1>2, <1>5, <1>7
  <2>2. LinkBody(w) = Body[next.dentry]
    BY <1>5 DEF LinkBody, Reached
  <2>3. Crosses(w, w.at, Origin(w))
    BY <1>1, <1>5, <1>7, <2>2 DEF Crosses, Origin, JumpRefused, Bans
  <2>4. Trouble(w) = "EXDEV"
    BY <1>5, <1>7, <2>1, <2>3 DEF Trouble, Reached
  <2> QED
    BY <1>1, <1>4, <1>5, <1>7, <2>4, RefusedAsMeant
<1> QED
  BY <1>1, <1>6, <1>7

\* Something other than a directory, where one is needed or none may be.
LEMMA DirectoryFault ==
  ASSUME IInv, Whole, Counted, Asked, Meaning, ~missed, pc' = "terminate",
         \/ stepped \/ open_last_isdir
         \/ ~Opening /\ complete_walk /\ err' # err
  PROVE  Expected.err = err'
<1>1. MAXSYMLINKS \in Nat /\ MAXSYMLINKS >= MAXSYMLINKS
  BY LimitAssumption
<1>2. CASE stepped
  <2>1. /\ pc = "stepped" /\ pc \in Walking /\ how # "trailing"
        /\ Kind[at.dentry] # "dir" /\ err' = "ENOTDIR"
    BY <1>2 DEF stepped, Fail, Walking
  <2>2. PICK w \in Queries : Asks(w, MAXSYMLINKS)
    BY <1>1, <2>1 DEF Meaning, Means, Making
  <2>3. ~Pending /\ name.comps # <<>> /\ name.comps \in Seq(Components)
        /\ names \in Seq(Text)
    BY <2>1 DEF Pending, Looking, Whole, IInv, Typed, Spelled, Text
  <2>4. w.todo # <<>> /\ ~Directory(w.at)
    BY <2>1, <2>2, <2>3, UnrollsTail DEF Asks, Spoken, Rest, Stands, Directory
  <2>5. Trouble(w) = "ENOTDIR" /\ ~MayCreate(w)
    BY <2>4 DEF Trouble, MayCreate
  <2> QED
    BY <2>1, <2>2, <2>4, <2>5, RefusedAsMeant
<1>3. CASE open_last_isdir
  <2>1. /\ pc = "last" /\ Opening /\ op.creat /\ last.slash /\ err' = "EISDIR"
        /\ last.comp \notin {"/", ".", ".."}
    BY <1>3 DEF open_last_isdir, AtLast, Normal, Fail
  <2>2. Pending /\ pc \in Walking
    BY <2>1 DEF Pending, Walking
  <2>3. PICK w \in Queries :
          /\ Asks(w, MAXSYMLINKS) /\ w.todo # <<>> /\ Head(w.todo) = last.comp
          /\ w.slash = TextSlash /\ Last(w) /\ w.goal = Goal /\ Directory(w.at)
    BY <2>1, <2>2, AtFault
  <2>4. names = <<>> /\ name.comps = <<>>
    BY <1>1, <2>1, <2>3, AtComponent
  <2>5. w.slash /\ w.goal = "create"
    BY <2>1, <2>2, <2>3, <2>4, AskedGoal DEF TextSlash
  <2>6. Creates(w) /\ ~Arrived(w) /\ ~MayCreate(w)
    BY <2>1, <2>3, <2>5 DEF Creates, Plain, Arrived, MayCreate
  <2>7. Trouble(w) = "EISDIR"
    BY <2>3, <2>5, <2>6 DEF Trouble
  <2> QED
    BY <2>1, <2>3, <2>6, <2>7, RefusedAsMeant
<1>4. CASE ~Opening /\ complete_walk /\ err' # err
  <2>1. /\ pc = "complete" /\ pc \in Walking /\ "DIRECTORY" \in flags
        /\ Kind[at.dentry] # "dir" /\ err' = "ENOTDIR"
    BY <1>4 DEF complete_walk, Fail, Walking
  <2>2. Goal = "lookup"
    <3>1. Goal # "parent" /\ Goal # "create" /\ Goal # "open"
      BY <1>4, <2>1, AskedGoal DEF IInv, Parents
    <3> QED
      BY <3>1 DEF Goal
  <2>3. PICK w \in Queries : Asks(w, MAXSYMLINKS)
    BY <1>1, <2>1, <2>2 DEF Meaning, Means, Making
  <2>4. w.todo = <<>>
    <3>1. name.comps = <<>> /\ names = <<>> /\ ~Pending
      BY <2>1 DEF Whole, IInv, Stack, Levels, Pending, Looking
    <3>2. Unrolls(w.todo, <<>>, <<>>) /\ <<>> \in Seq(Components)
      BY <2>3, <3>1 DEF Asks, Spoken, Rest
    <3> QED
      BY <3>2, NothingSaved
  <2>5. w.goal = "lookup" /\ w.mustdir /\ ~Directory(w.at)
    BY <2>1, <2>2, <2>3 DEF Asks, Flagged, Trailing, Looking, Stands, Directory
  <2>6. Resolve[w] = Refuse("ENOTDIR")
    BY <2>4, <2>5, Ending
  <2> QED
    BY <2>1, <2>3, <2>6 DEF Asks, Expected, Refuse
<1> QED
  BY <1>2, <1>3, <1>4

\* A walk that ends well.
LEMMA EndsAsMeant ==
  ASSUME IInv, Whole, Counted, Asked, Created, Meaning, ~missed,
         \/ ~Opening /\ path_parentat
         \/ ~Opening /\ complete_walk /\ err' = err
         \/ do_open /\ err' = err
  PROVE  /\ err' = "ok" /\ at' = at
         /\ IF Opening
            THEN /\ Expected.err = "ok" /\ Expected.at = opened'
                 /\ MadeOver \/ Expected.made = made
            ELSE Expected = Answer(at)
<1>1. MAXSYMLINKS \in Nat /\ MAXSYMLINKS >= MAXSYMLINKS
  BY LimitAssumption
<1>2. /\ pc \in {"last", "complete"} /\ pc \in Walking /\ at' = at /\ err' = "ok"
      /\ at \in Locations
  <2>1. pc \in {"last", "complete"} /\ at' = at /\ (pc \in Walking => err' = err)
    BY DEF path_parentat, complete_walk, do_open
  <2> QED
    BY <2>1 DEF IInv, Parents, Typed, Placed, Walking
<1>3. ASSUME NEW n \in Nat, n >= MAXSYMLINKS, NEW w \in Queries, Asks(w, n)
      PROVE  Resolve[Question(n - arg.begun)] = Answer(at)
  <2>1. w.at = at /\ w.goal = Goal /\ Resolve[Question(n - arg.begun)] = Resolve[w]
    BY <1>2, <1>3 DEF Asks, Stands
  <2>2. CASE pc = "last"
    <3>1. w.goal = "parent" /\ Directory(w.at)
      <4>1. ~Opening /\ "PARENT" \in flags
        BY <2>2 DEF path_parentat, complete_walk, do_open
      <4> QED
        BY <1>2, <1>3, <2>1, <2>2, <4>1, AskedGoal DEF Asks, Stands
    <3>2. CASE Pending
      <4>1. w.todo # <<>> /\ Last(w)
        BY <1>3, <2>2, <3>2, AtComponent
      <4> QED
        BY <2>1, <3>1, <4>1, FindingParent
    <3>3. CASE ~Pending
      <4>1. w.todo = <<>>
        BY <1>3, <2>2, <3>3, AtComponent
      <4> QED
        BY <2>1, <3>1, <4>1, Ending
    <3> QED
      BY <3>2, <3>3
  <2>3. CASE pc = "complete"
    <3>1. w.todo = <<>>
      <4>1. name.comps = <<>> /\ names = <<>> /\ ~Pending
        BY <2>3 DEF Whole, IInv, Stack, Levels, Pending, Looking
      <4>2. Unrolls(w.todo, <<>>, <<>>) /\ <<>> \in Seq(Components)
        BY <1>3, <4>1 DEF Asks, Spoken, Rest
      <4> QED
        BY <4>2, NothingSaved
    <3>2. ~(w.goal = "lookup" /\ w.mustdir /\ ~Directory(w.at))
      <4>1. CASE Opening
        BY <1>2, <2>1, <4>1 DEF Asked, Opening, Goal
      <4>2. CASE ~Opening
        <5>1. ~("DIRECTORY" \in flags /\ Kind[at.dentry] # "dir")
          BY <1>2, <2>3, <4>2 DEF path_parentat, complete_walk, do_open, Fail
        <5> QED
          BY <1>3, <2>1, <2>3, <5>1 DEF Asks, Flagged, Trailing, Looking, Directory
      <4> QED
        BY <4>1, <4>2
    <3> QED
      BY <2>1, <3>1, <3>2, Ending
  <2> QED
    BY <1>2, <2>2, <2>3
<1>4. ASSUME NEW n \in Nat, n >= MAXSYMLINKS, Making(n)
      PROVE  /\ pc = "complete" /\ Opening /\ at.dentry = New
             /\ Resolve[Question(n - arg.begun)] = [err |-> "ok", at |-> at, made |-> made]
  BY <1>2, <1>4, AskedGoal DEF Making
<1>5. /\ Opening => opened' = at
      /\ Means(MAXSYMLINKS)
  BY <1>1, <1>2 DEF path_parentat, complete_walk, do_open, Fail, Meaning
<1>6. CASE Making(MAXSYMLINKS)
  BY <1>1, <1>2, <1>4, <1>5, <1>6 DEF Expected
<1>7. ASSUME NEW w \in Queries, Asks(w, MAXSYMLINKS)
      PROVE  Expected = Answer(at) /\ (Opening => MadeOver \/ made = NoPlace)
  <2>1. Expected = Answer(at)
    BY <1>1, <1>3, <1>7 DEF Expected
  <2>2. CASE made = NoPlace \/ ~Opening
    BY <2>1, <2>2
  <2>3. CASE made # NoPlace /\ Opening
    <3> DEFINE n == MAXSYMLINKS + arg.begun
    <3>1. n \in Nat /\ n >= MAXSYMLINKS /\ n - arg.begun = MAXSYMLINKS
      BY LimitAssumption DEF Counted
    <3> HIDE DEF n
    <3>2. w.at.dentry # New /\ w.at = at
      BY <1>2, <1>7 DEF Asks, Stands
    <3>3. \E v \in Queries : Asks(v, n)
      BY <1>2, <1>4, <3>1, <3>2 DEF Meaning, Means
    <3>4. Resolve[Question(MAXSYMLINKS)] = Answer(at)
      BY <1>3, <3>1, <3>3
    <3> QED
      BY <2>1, <2>3, <3>4 DEF Created, Answer
  <2> QED
    BY <2>2, <2>3
<1>8. CASE \E w \in Queries : Asks(w, MAXSYMLINKS)
  BY <1>2, <1>5, <1>7, <1>8 DEF Answer
<1> QED
  BY <1>2, <1>5, <1>6, <1>8 DEF Means

LEMMA NextAnswered ==
  ASSUME IInv, Whole, Counted, Asked, Created, Meaning, Answered, [OpenNext]_openVars
  PROVE  Answered'
<1> DEFINE Sound == /\ err' = "ECHILD" => try = 1
                    /\ ~missed' /\ err' \notin {"ok", "EIO", "ESTALE", "ENOMEM", "ECHILD"} =>
                         Expected.err = err'
                    /\ ~missed' /\ err' = "ok" =>
                         /\ at' = at
                         /\ IF Opening
                            THEN /\ Expected.err = "ok" /\ Expected.at = opened'
                                 /\ MadeOver \/ Expected.made = made
                            ELSE Expected = Answer(at)
<1>1. CASE pc \in Walking
  <2>1. CASE pc' = "terminate"
    <3>1. UNCHANGED <<root, arg, op, made, try>> /\ Sound
      <4> USE DEF Walking
      <4>1. CASE Walk /\ UNCHANGED opening
        <5>1. CASE lookup_fails
          BY <1>1, <4>1, <5>1 DEF lookup_fails, Fail, Asked, call, opening
        <5>2. CASE reserve_fails \/ get_link_fails
          BY <1>1, <4>1, <5>2 DEF reserve_fails, get_link_fails, Fail, Asked, call, opening
        <5>3. CASE handle_dots \/ step_negative \/ step_refused
          <6>1. UNCHANGED <<root, arg, op, made, try, missed>>
            BY <4>1, <5>3 DEF handle_dots, step_negative, step_refused, call, opening
          <6>2. CASE step_refused /\ "RCU" \in flags
            <7>1. err' = "ECHILD" /\ try = 1
              BY <1>1, <6>2 DEF step_refused, Fail, Asked
            <7> QED
              BY <6>1, <7>1
          <6>3. CASE ~(step_refused /\ "RCU" \in flags)
            <7>1. ~missed' => Expected.err = err'
              BY <2>1, <5>3, <6>1, <6>3, LookupFault
            <7>2. err' \in {"EXDEV", "ENOENT"}
              BY <2>1, <5>3, <6>3 DEF handle_dots, step_negative, step_refused, Fail
            <7> QED
              BY <6>1, <7>1, <7>2
          <6> QED
            BY <6>2, <6>3
        <5>4. CASE reserve_loop \/ pick_link \/ get_link
          <6>1. UNCHANGED <<root, arg, op, made, try, missed>> /\ err' \in {"ELOOP", "EXDEV"}
                /\ (get_link => JumpRefused(Body[next.dentry]))
            BY <2>1, <4>1, <5>4 DEF reserve_loop, pick_link, PushLink, get_link, Fail,
                                    call, opening
          <6>2. ~missed' => Expected.err = err'
            BY <2>1, <5>4, <6>1, LinkFault
          <6> QED
            BY <6>1, <6>2
        <5>5. CASE stepped
          <6>1. UNCHANGED <<root, arg, op, made, try, missed>> /\ err' = "ENOTDIR"
            BY <2>1, <4>1, <5>5 DEF stepped, Fail, call, opening
          <6>2. ~missed' => Expected.err = err'
            BY <2>1, <5>5, <6>1, DirectoryFault
          <6> QED
            BY <6>1, <6>2
        <5>6. CASE \/ __filename_lookup \/ link_path_walk \/ walk_more \/ walk_nested
                   \/ walk_last \/ lookup \/ step_into \/ terminate_walk \/ retry
          BY <1>1, <2>1, <5>6 DEF __filename_lookup, path_init, link_path_walk, walk_more,
                                  walk_nested, walk_last, lookup, step_into,
                                  terminate_walk, retry
        <5> QED
          BY <4>1, <5>1, <5>2, <5>3, <5>4, <5>5, <5>6 DEF Walk
      <4>2. CASE ~Opening /\ LookupEnd /\ UNCHANGED opening
        <5>1. UNCHANGED <<root, arg, op, made, try, missed>> /\ (path_parentat \/ complete_walk)
          BY <2>1, <4>2 DEF LookupEnd, lookup_last, path_parentat, complete_walk, call,
                            opening
        <5>2. CASE err' = err
          <6>1. ~missed' =>
                  /\ err' = "ok" /\ at' = at
                  /\ IF Opening
                     THEN /\ Expected.err = "ok" /\ Expected.at = opened'
                          /\ MadeOver \/ Expected.made = made
                     ELSE Expected = Answer(at)
            BY <4>2, <5>1, <5>2, EndsAsMeant
          <6>2. err' = "ok"
            BY <1>1, <5>2 DEF IInv, Parents
          <6> QED
            BY <5>1, <6>1, <6>2
        <5>3. CASE err' # err
          <6>1. complete_walk /\ err' = "ENOTDIR"
            BY <5>1, <5>3 DEF path_parentat, complete_walk, Fail
          <6>2. ~missed' => Expected.err = err'
            BY <2>1, <4>2, <5>1, <5>3, <6>1, DirectoryFault
          <6> QED
            BY <5>1, <6>1, <6>2
        <5> QED
          BY <5>2, <5>3
      <4>3. CASE open_last_miss
        BY <1>1, <4>3 DEF open_last_miss, Fail, Asked, call, opening
      <4>4. CASE open_last_isdir
        <5>1. UNCHANGED <<root, arg, op, made, try, missed>> /\ err' = "EISDIR"
          BY <4>4 DEF open_last_isdir, Fail, call, opening
        <5>2. ~missed' => Expected.err = err'
          BY <2>1, <4>4, <5>1, DirectoryFault
        <5> QED
          BY <5>1, <5>2
      <4>5. CASE open_create_fails
        BY <4>5 DEF open_create_fails, Fail, call, opening
      <4>6. CASE do_open
        <5>1. UNCHANGED <<root, arg, op, made, try, missed>>
          BY <4>6 DEF do_open, call
        <5>2. CASE err' = err
          <6>1. ~missed' =>
                  /\ err' = "ok" /\ at' = at
                  /\ IF Opening
                     THEN /\ Expected.err = "ok" /\ Expected.at = opened'
                          /\ MadeOver \/ Expected.made = made
                     ELSE Expected = Answer(at)
            BY <4>6, <5>1, <5>2, EndsAsMeant
          <6>2. err' = "ok"
            BY <1>1, <5>2 DEF IInv, Parents
          <6> QED
            BY <5>1, <6>1, <6>2
        <5>3. CASE err' # err
          <6>1. err' \in {"EIO", "ESTALE"}
            BY <4>6, <5>3 DEF do_open, Fail
          <6> QED
            BY <5>1, <6>1
        <5> QED
          BY <5>2, <5>3
      <4>7. CASE open_last_dots \/ open_last_plain \/ open_last_exists
                   \/ open_create \/ lookup_misses
        BY <2>1, <4>7 DEF open_last_dots, open_last_plain, open_last_exists,
                          open_create, lookup_misses
      <4>8. CASE namei_lookup \/ vfs_openat_api \/ getname \/ getname_long \/ recopy
                   \/ getname_fails
        BY <1>1, <4>8 DEF namei_lookup, vfs_openat_api, getname, getname_long, recopy,
                          getname_fails
      <4>9. CASE do_o_path \/ call_returns
        BY <1>1, <4>9 DEF do_o_path, Looked, call_returns, return
      <4>10. CASE Ended \/ UNCHANGED openVars
        BY <1>1, <2>1, <4>10 DEF Ended, openVars, vars
      <4>11. CASE open_create_again \/ open_create_over
        BY <2>1, <4>11 DEF open_create_again, open_create_over, Fail, opening
      <4> QED
        BY <4>1, <4>2, <4>3, <4>4, <4>5, <4>6, <4>7, <4>8, <4>9, <4>10,
           <4>11
           DEF OpenNext, OpenStep
    <3>2. Expected' = Expected /\ Opening' = Opening /\ MadeOver' = MadeOver
      BY <3>1, SameQuestion
         DEF MadeOver, Expected, Question, Goal, Follows, WantsDirectory, Opening
    <3> HIDE DEF Sound
    <3>3. /\ err' = "ECHILD" => try' = 1
          /\ ~missed' /\ err' \notin {"ok", "EIO", "ESTALE", "ENOMEM", "ECHILD"} =>
               Expected'.err = err'
          /\ ~missed' /\ err' = "ok" =>
               IF Opening'
               THEN /\ Expected'.err = "ok" /\ Expected'.at = opened'
                    /\ MadeOver' \/ Expected'.made = made'
               ELSE Expected' = Answer(at')
      BY <3>1, <3>2 DEF Sound
    <3> QED
      BY <2>1, <3>3 DEF Answered
  <2>2. CASE pc' # "terminate"
    <3>1. pc' \notin {"terminate", "returned", "done"}
      BY <1>1, <2>2, CallSteps
         DEF WalkStep, Walking, namei_lookup, vfs_openat_api, getname, getname_long,
             recopy, getname_fails, __filename_lookup, retry, terminate_walk, do_o_path,
             Looked, call_returns, return, openVars, vars
    <3> QED
      BY <3>1 DEF Answered
  <2> QED
    BY <2>1, <2>2
<1>2. CASE pc \in {"terminate", "returned", "done"}
  <2>1. CASE (terminate_walk /\ UNCHANGED opening) \/ do_o_path \/ call_returns
               \/ UNCHANGED openVars
    <3>1. UNCHANGED <<root, arg, op, made, try, missed, at>>
      BY <2>1 DEF terminate_walk, do_o_path, call_returns, return, walking, openVars, vars,
                  call, opening
    <3>2. Expected' = Expected /\ Opening' = Opening /\ MadeOver' = MadeOver
      BY <3>1 DEF MadeOver, Expected, Question, Goal, Follows, WantsDirectory, Opening
    <3>3. CASE (terminate_walk /\ UNCHANGED opening) \/ UNCHANGED openVars
      <4>1. UNCHANGED <<err, opened>> /\ (pc' = "done" => pc = "done")
        BY <3>3 DEF terminate_walk, openVars, vars, opening
      <4> QED
        BY <1>2, <3>1, <3>2, <4>1 DEF Answered, Answer
    <3>4. CASE call_returns
      <4>1. UNCHANGED <<err, opened>> /\ (err = "ECHILD" => try # 1)
        BY <3>4 DEF call_returns, return, Retry
      <4> QED
        BY <1>2, <3>1, <3>2, <4>1 DEF Answered, Answer
    <3>5. CASE do_o_path
      <4>1. /\ pc = "returned" /\ pc' = "returned" /\ err = "ok" /\ ~Opening
            /\ err' \in {"ok", "EIO", "ESTALE"}
        BY <3>5 DEF do_o_path, Looked, Opening
      <4> QED
        BY <3>1, <3>2, <4>1 DEF Answered, Answer
    <3> QED
      BY <2>1, <3>3, <3>4, <3>5
  <2>2. CASE retry /\ UNCHANGED opening
    BY <2>2 DEF retry, path_init, Answered
  <2> QED
    BY <1>2, <2>1, <2>2, CallSteps
       DEF WalkStep, Walking, namei_lookup, vfs_openat_api, getname, getname_long, recopy,
           getname_fails, __filename_lookup
<1>3. CASE pc \notin Walking \cup {"terminate", "returned", "done"}
  <2>1. pc' \notin {"terminate", "returned", "done"}
    BY <1>3, CallSteps
       DEF WalkStep, Walking, namei_lookup, vfs_openat_api, getname, getname_long, recopy,
           getname_fails, __filename_lookup, path_init, retry, terminate_walk, do_o_path,
           Looked, call_returns, return, openVars, vars
  <2> QED
    BY <2>1 DEF Answered
<1> QED
  BY <1>1, <1>2, <1>3

-----------------------------------------------------------------------------
(* What a walk passed over.                                                *)

\* Only a lookup or a creation passes over a name.
LEMMA PassedOver ==
  ASSUME [OpenNext]_openVars
  PROVE  \/ UNCHANGED missed \/ ~missed'
         \/ lookup_misses /\ UNCHANGED opening
         \/ open_create_again \/ open_create_over
<1>1. CASE Walk /\ UNCHANGED opening
  <2>1. CASE __filename_lookup \/ retry
    BY <2>1 DEF __filename_lookup, retry, path_init
  <2>2. CASE link_path_walk \/ walk_more \/ walk_nested \/ walk_last
    BY <2>2 DEF link_path_walk, walk_more, walk_nested, walk_last, call
  <2>3. CASE handle_dots \/ lookup \/ lookup_fails \/ step_into
    BY <2>3 DEF handle_dots, lookup, lookup_fails, step_into, call
  <2>4. CASE step_negative \/ step_refused \/ stepped
    BY <2>4 DEF step_negative, step_refused, stepped, call
  <2>5. CASE reserve_loop \/ pick_link \/ reserve_fails
    BY <2>5 DEF reserve_loop, pick_link, reserve_fails, call
  <2>6. CASE get_link_fails \/ get_link \/ terminate_walk
    BY <2>6 DEF get_link_fails, get_link, terminate_walk, call
  <2> QED
    BY <1>1, <2>1, <2>2, <2>3, <2>4, <2>5, <2>6 DEF Walk
<1>2. CASE namei_lookup \/ vfs_openat_api \/ getname \/ getname_long \/ recopy
             \/ getname_fails
  BY <1>2 DEF namei_lookup, vfs_openat_api, getname, getname_long, recopy, getname_fails,
              walking
<1>3. CASE ~Opening /\ LookupEnd /\ UNCHANGED opening
  BY <1>3 DEF LookupEnd, lookup_last, path_parentat, complete_walk, call
<1>4. CASE open_last_dots \/ open_last_plain \/ open_last_miss \/ open_last_isdir
             \/ open_last_exists \/ open_create \/ open_create_fails
  BY <1>4 DEF open_last_dots, open_last_plain, open_last_miss, open_last_isdir,
              open_last_exists, open_create, open_create_fails, call
<1>5. CASE do_open \/ do_o_path \/ call_returns
  BY <1>5 DEF do_open, do_o_path, call_returns, return, walking, call
<1>6. CASE UNCHANGED openVars
  BY <1>6 DEF openVars, vars, call
<1> QED
  BY <1>1, <1>2, <1>3, <1>4, <1>5, <1>6 DEF OpenNext, OpenStep

\* A walk that passed over a name has one thing left to do.
LEMMA OneWayOn ==
  ASSUME [OpenNext]_openVars, pc \in Walking
  PROVE  /\ pc = "step" /\ next.dentry = Absent =>
              (step_negative /\ UNCHANGED opening) \/ UNCHANGED openVars
         /\ pc = "complete" /\ Opening => do_open \/ UNCHANGED openVars
<1> SUFFICES ASSUME pc \in {"step", "complete"}, pc = "step" => next.dentry = Absent,
                    pc = "complete" => Opening
             PROVE  \/ pc = "step" /\ step_negative /\ UNCHANGED opening
                    \/ pc = "complete" /\ do_open
                    \/ UNCHANGED openVars
  OBVIOUS
<1>1. CASE Walk /\ UNCHANGED opening
  <2>1. CASE __filename_lookup \/ link_path_walk \/ walk_more \/ walk_nested \/ walk_last
    BY <2>1 DEF __filename_lookup, link_path_walk, walk_more, walk_nested, walk_last
  <2>2. CASE handle_dots \/ lookup \/ lookup_fails \/ stepped
    BY <2>2 DEF handle_dots, lookup, lookup_fails, stepped
  <2>3. CASE step_negative \/ step_refused \/ step_into
    BY <1>1, <2>3 DEF step_negative, step_refused, step_into
  <2>4. CASE reserve_loop \/ pick_link \/ reserve_fails
    BY <2>4 DEF reserve_loop, pick_link, reserve_fails
  <2>5. CASE get_link_fails \/ get_link \/ terminate_walk \/ retry
    BY <2>5 DEF get_link_fails, get_link, terminate_walk, retry
  <2> QED
    BY <1>1, <2>1, <2>2, <2>3, <2>4, <2>5 DEF Walk
<1>2. CASE namei_lookup \/ vfs_openat_api \/ getname \/ getname_long \/ recopy
             \/ getname_fails
  BY <1>2 DEF namei_lookup, vfs_openat_api, getname, getname_long, recopy, getname_fails
<1>3. CASE ~Opening /\ LookupEnd /\ UNCHANGED opening
  BY <1>3 DEF LookupEnd, lookup_last, path_parentat, complete_walk
<1>4. CASE \/ open_last_dots \/ open_last_plain \/ open_last_miss \/ open_last_isdir
           \/ open_last_exists \/ open_create \/ open_create_again \/ open_create_over
           \/ open_create_fails \/ lookup_misses
  BY <1>4 DEF open_last_dots, open_last_plain, open_last_miss, open_last_isdir,
              open_last_exists, open_create, open_create_again, open_create_over,
              open_create_fails, lookup_misses, AtLast
<1>5. CASE do_open \/ do_o_path \/ call_returns \/ Ended
  BY <1>5 DEF do_open, do_o_path, Looked, call_returns, return, Ended
<1> QED
  BY <1>1, <1>2, <1>3, <1>4, <1>5 DEF OpenNext, OpenStep

\* It reports ENOENT, or it is an open that creates what is there already.
LEMMA NextMissed ==
  ASSUME IInv, Asked, Missed, [OpenNext]_openVars
  PROVE  Missed'
<1> SUFFICES ASSUME missed'
             PROVE  Missed'
  BY DEF Missed
<1>1. CASE lookup_misses /\ UNCHANGED opening
  <2>1. /\ pc = "lookup" /\ pc' = "step" /\ next'.dentry = Absent /\ try' = try
        /\ "RCU" \notin flags
    BY <1>1 DEF lookup_misses, Mismatched
  <2>2. try # 1 /\ try \in 1 .. 3
    BY <2>1 DEF Asked, IInv, Typed, Spelled, Walking
  <2> QED
    BY <2>1, <2>2 DEF Missed
<1>2. CASE open_create_again
  BY <1>2 DEF open_create_again, AtLast, Opening, opening, Fail, Missed
<1>3. CASE open_create_over
  <2>1. /\ Opening /\ Opening' /\ pc = "last" /\ Child[at.dentry][last.comp] # Absent
        /\ \/ pc' = "terminate" /\ err' = "EEXIST"
           \/ /\ pc' = "complete" /\ made' = Here
              /\ at' = [at EXCEPT !.dentry = New]
    BY <1>3 DEF open_create_over, AtLast, Opening, InCache, Fail
  <2>2. CASE pc' = "terminate"
    BY <2>1, <2>2 DEF Missed
  <2>3. CASE pc' # "terminate"
    <3>1. at \in Locations
      BY <2>1 DEF IInv, Typed, Placed, Walking
    <3>2. at'.dentry = New
      BY <2>1, <2>3, <3>1 DEF Locations
    <3>3. MadeOver'
      BY <2>1, <2>3, <3>1, TreeAssumption DEF MadeOver, Here, NoPlace, Locations
    <3> QED
      BY <2>1, <2>3, <3>2, <3>3 DEF Missed
  <2> QED
    BY <2>2, <2>3
<1>4. CASE missed /\ pc \in Walking
  <2>1. CASE UNCHANGED openVars
    BY <1>4, <2>1 DEF openVars, vars, call, opening, Missed, Opening, MadeOver
  <2>2. CASE pc = "step" /\ next.dentry = Absent /\ try > 1
    <3>1. CASE step_negative /\ UNCHANGED opening
      BY <2>2, <3>1 DEF step_negative, Fail, call, Missed
    <3> QED
      BY <1>4, <2>1, <2>2, <3>1, OneWayOn
  <2>3. CASE pc = "complete" /\ Opening /\ MadeOver /\ at.dentry = New
    <3>1. CASE do_open
      <4>1. /\ Opening' /\ MadeOver' /\ pc' = "terminate"
            /\ \/ err' = err /\ opened' = at
               \/ err' \in {"EIO", "ESTALE"}
        BY <2>3, <3>1 DEF do_open, Fail, Opening, MadeOver
      <4>2. err = "ok"
        BY <1>4 DEF IInv, Parents
      <4> QED
        BY <2>3, <4>1, <4>2 DEF Missed
    <3> QED
      BY <1>4, <2>1, <2>3, <3>1, OneWayOn
  <2> QED
    BY <1>4, <2>2, <2>3 DEF Missed, Walking
<1>5. CASE missed /\ pc \notin Walking
  <2>1. pc \in {"terminate", "returned", "done"}
    BY <1>5 DEF Missed, Walking
  <2>2. CASE (terminate_walk /\ UNCHANGED opening) \/ call_returns \/ UNCHANGED openVars
    <3>1. /\ UNCHANGED <<op, made, opened, err, try>>
          /\ pc' \in {"terminate", "returned", "done"}
      BY <2>1, <2>2 DEF terminate_walk, call_returns, return, openVars, vars, call, opening
    <3>2. Opening' = Opening /\ MadeOver' = MadeOver
      BY <3>1 DEF Opening, MadeOver
    <3> QED
      BY <1>5, <2>1, <3>1, <3>2 DEF Missed
  <2>3. CASE do_o_path
    BY <1>5, <2>1, <2>3 DEF do_o_path, Looked, Opening, Missed
  <2>4. CASE retry
    BY <2>4 DEF retry, path_init
  <2> QED
    BY <2>1, <2>2, <2>3, <2>4, CallSteps
       DEF WalkStep, Walking, namei_lookup, vfs_openat_api, getname, getname_long, recopy,
           getname_fails, __filename_lookup
<1> QED
  BY <1>1, <1>2, <1>3, <1>4, <1>5, PassedOver

-----------------------------------------------------------------------------
LEMMA InitRInv ==
  ASSUME OpenInit
  PROVE  RInv
<1>1. /\ pc = "call" /\ op = Lookup /\ made = NoPlace /\ opened = Nowhere
      /\ total = 0 /\ try = 1 /\ err = "ok" /\ arg.begun = 0 /\ names = <<>>
      /\ ~op.opens /\ ~op.path /\ ~missed
  BY DEF OpenInit, set_nameidata, Lookup
<1>2. IInv
  BY InitIInv
<1>3. Whole /\ Counted
  BY <1>1 DEF Whole, Counted, Walking, Unstarted, Looking
<1>4. Asked
  BY <1>1 DEF Asked, Walking
<1>5. Created /\ Opened
  BY <1>1 DEF Created, Opened
<1>6. Meaning /\ Answered /\ Missed
  BY <1>1 DEF Meaning, Answered, Missed, Walking
<1> QED
  BY <1>2, <1>3, <1>4, <1>5, <1>6 DEF RInv

LEMMA NextRInv ==
  ASSUME RInv, [OpenNext]_openVars
  PROVE  RInv'
<1>1. IInv /\ Whole /\ Counted /\ Asked /\ Created /\ Opened /\ Meaning /\ Answered
      /\ Missed
  BY DEF RInv
<1>2. IInv'
  BY <1>1, NextIInv
<1>3. Whole' /\ Counted' /\ Asked'
  BY <1>1, NextWhole, NextCounted, NextAsked
<1>4. Created' /\ Opened'
  BY <1>1, NextCreated, NextOpened
<1>5. Meaning' /\ Answered' /\ Missed'
  BY <1>1, <1>3, NextMeaning, NextAnswered, NextMissed
<1> QED
  BY <1>2, <1>3, <1>4, <1>5 DEF RInv

\* At every step of every walk, what is still to be done comes to what the
\* call's name means, unless the walk passed over a name; and then it is
\* known what it comes to (link_path_walk, walk_component, pick_link and the
\* open of the last component, with the retries around them).
THEOREM MeaningIsKept == OpenSpec => []RInv
<1>1. RInv /\ [OpenNext]_openVars => RInv'
  BY NextRInv
<1> QED
  BY <1>1, InitRInv, PTL DEF OpenSpec

\* A lookup gives the place, or the error, that its name means, whatever the
\* tree, the mounts, the links and the limit on them: the two depths into one
\* stack and the flags set on the way never send it elsewhere.  A retry that
\* passes over a name the cache holds (d_same_name, d_revalidate) reports
\* ENOENT; a first try passes over none.
THEOREM LookupsResolve == OpenSpec => []ResolvesAsSpecified
<1>1. RInv => ResolvesAsSpecified
  <2> SUFFICES ASSUME RInv, pc = "done", op.opens => "PATH" \in op.asked,
                      err \notin {"EIO", "ESTALE", "ENOMEM"}
               PROVE  IF missed THEN err = "ENOENT" /\ try > 1
                      ELSE err = Expected.err /\ (err = "ok" => at = Expected.at)
    BY DEF ResolvesAsSpecified
  <2>1. ~Opening /\ err # "ECHILD"
    BY DEF RInv, Asked, Answered, Opening
  <2>2. CASE missed
    BY <2>1, <2>2 DEF RInv, Missed
  <2>3. CASE ~missed
    <3>1. err = "ok" => Expected = Answer(at)
      BY <2>1, <2>3 DEF RInv, Answered
    <3>2. err # "ok" => Expected.err = err
      BY <2>1, <2>3 DEF RInv, Answered
    <3> QED
      BY <2>3, <3>1, <3>2 DEF Answer
  <2> QED
    BY <2>2, <2>3
<1> QED
  BY <1>1, MeaningIsKept, PTL

\* An open opens or creates what its name means and nothing else, or reports
\* the error it means, for every set of flags, on the first try or a later
\* one, as long as that try passes over no name; if it does, what it reports
\* or creates instead is one of few things (open_last_lookups, lookup_open,
\* do_open).
THEOREM OpensMeanTheirNames == OpenSpec => []OpensAsAsked
<1>1. RInv => OpensAsAsked
  <2> SUFFICES ASSUME RInv, pc = "done"
               PROVE  OpensAsAsked
    BY DEF OpensAsAsked
  <2>1. err # "ECHILD" /\ (err # "ok" => opened = Nowhere)
    BY DEF RInv, Answered, Opened
  <2>2. ASSUME op.opens, "PATH" \notin op.asked
        PROVE  /\ ~missed /\ err \notin {"EIO", "ESTALE", "ENOMEM"} =>
                    /\ err = Expected.err
                    /\ err = "ok" => /\ opened = Expected.at
                                     /\ MadeOver \/ made = Expected.made
               /\ missed => \/ err \in {"ENOENT", "EEXIST", "EIO", "ESTALE"}
                            \/ err = "ok" /\ MadeOver /\ opened.dentry = New
    <3>1. Opening
      BY <2>2 DEF RInv, Asked, Opening
    <3>2. ~missed /\ err = "ok" => /\ Expected.err = "ok" /\ Expected.at = opened
                                   /\ MadeOver \/ Expected.made = made
      BY <3>1 DEF RInv, Answered
    <3>3. ~missed /\ err \notin {"ok", "EIO", "ESTALE", "ENOMEM"} => Expected.err = err
      BY <2>1 DEF RInv, Answered
    <3>4. missed => \/ err \in {"ENOENT", "EEXIST", "EIO", "ESTALE"}
                    \/ err = "ok" /\ MadeOver /\ opened.dentry = New
      BY DEF RInv, Missed
    <3> QED
      BY <3>2, <3>3, <3>4
  <2>3. ASSUME made # NoPlace
        PROVE  Goal = "create" /\ (MadeOver \/ made = Resolve[Question(MAXSYMLINKS)].made)
    BY <2>3 DEF RInv, Created
  <2>4. ASSUME "PATH" \in op.asked, err = "ok"
        PROVE  opened = Expected.at /\ made = NoPlace
    <3>1. op.opens /\ op.path /\ ~Opening
      BY <2>4 DEF RInv, Asked, Opening, Lookup
    <3>2. ~missed
      BY <2>4, <3>1 DEF RInv, Missed
    <3>3. Expected = Answer(at) /\ opened = at
      BY <2>4, <3>1, <3>2 DEF RInv, Answered, Opened
    <3>4. Goal # "create"
      BY <2>4, <3>1 DEF Goal
    <3> QED
      BY <2>3, <3>3, <3>4 DEF Answer
  <2> QED
    BY <2>1, <2>2, <2>3, <2>4 DEF OpensAsAsked
<1> QED
  BY <1>1, MeaningIsKept, PTL
=============================================================================
