------------------------------ MODULE PathRef -------------------------------
(***************************************************************************)
(* What a path name means, without a stack: the components still to be     *)
(* walked are one list, and a link puts the components of its body in      *)
(* front of it.  PathWalk, and PathOpen for opens, must agree with it.     *)
(*                                                                         *)
(* A query is a place and the list to be walked from there; slash says     *)
(* that the text its last component is in ends with one, left how many     *)
(* links may still be followed.  top, goal and ban come from the call and  *)
(* do not change.  The definitions are recursive functions: PathRefProofs  *)
(* proves about them.                                                      *)
(***************************************************************************)
EXTENDS PathOpen

Goals == {"lookup", "parent", "open", "create"}
Bans == {"NO_XDEV", "NO_SYMLINKS"}

Queries ==
  [top : Roots, goal : Goals, ban : SUBSET Bans, at : Locations,
   todo : Seq(Components), slash : BOOLEAN, follow : BOOLEAN, mustdir : BOOLEAN,
   left : Nat]

Answer(p) == [err |-> "ok", at |-> p, made |-> NoPlace]
Refuse(e) == [err |-> e, at |-> Nowhere, made |-> NoPlace]
Create(p, c) ==
  [err |-> "ok", at |-> [p EXCEPT !.dentry = New],
   made |-> [dir |-> p.dentry, name |-> c]]

-----------------------------------------------------------------------------
(* Places.                                                                 *)

Hides(m, p) == Place[m] = p /\ p # MountRoot(m)

Top[p \in Locations] ==
  IF \A m \in Mounts : ~Hides(m, p) THEN p
  ELSE Top[MountRoot(CHOOSE m \in Mounts : Hides(m, p))]

\* From a mount's root to the place it is mounted on, never out of fs root.
Climb[w \in [top : Roots, at : Locations]] ==
  IF \/ w.at = w.top
     \/ w.at.dentry # RootOf[w.at.mnt]
     \/ Place[w.at.mnt] = w.at
  THEN w.at
  ELSE Climb[[w EXCEPT !.at = Place[w.at.mnt]]]

Parent(top, p) ==
  LET q == Climb[[top |-> top, at |-> p]] IN
  IF q = top \/ q.dentry = RootOf[q.mnt] THEN p
  ELSE [q EXCEPT !.dentry = UpDir[@]]

Directory(p) == Kind[p.dentry] = "dir"

-----------------------------------------------------------------------------
(* One component.                                                          *)

Last(w) == Len(w.todo) = 1
Plain(w) == Head(w.todo) \notin {".", ".."}
Slashed(w) == Last(w) /\ Plain(w) /\ w.slash

\* Where it is found, and what is mounted there.
Down(w) ==
  CASE Head(w.todo) = "."  -> w.at
    [] Head(w.todo) = ".." -> Parent(w.top, w.at)
    [] OTHER -> [w.at EXCEPT !.dentry = Child[w.at.dentry][Head(w.todo)]]

Found(w) == IF Head(w.todo) = "." THEN w.at ELSE Top[Down(w)]

Creates(w) == w.goal = "create" /\ Last(w) /\ Plain(w)

IsLink(w) ==
  Plain(w) /\ Kind[Found(w).dentry] = "link" /\ (Last(w) => w.follow \/ w.slash)

LinkBody(w) == Body[Found(w).dentry]
Origin(w) == IF LinkBody(w).abs THEN w.top ELSE w.at

\* LOOKUP_NO_XDEV: the three ways a component can leave its mount.
Crosses(w, p, q) == "NO_XDEV" \in w.ban /\ p.mnt # q.mnt

Trouble(w) ==
  IF ~Directory(w.at) THEN "ENOTDIR"
  ELSE IF Creates(w) /\ w.slash THEN "EISDIR"
  ELSE IF Down(w).dentry = Absent THEN "ENOENT"
  ELSE IF Crosses(w, w.at, Down(w)) \/ Crosses(w, Down(w), Found(w)) THEN "EXDEV"
  ELSE IF IsLink(w) /\ (w.left = 0 \/ "NO_SYMLINKS" \in w.ban) THEN "ELOOP"
  ELSE IF IsLink(w) /\ Crosses(w, w.at, Origin(w)) THEN "EXDEV"
  ELSE "ok"

\* A slash after a name follows links and asks for a directory.
Onward(w) ==
  LET v == [w EXCEPT !.follow = @ \/ Slashed(w), !.mustdir = @ \/ Slashed(w)] IN
  IF IsLink(w)
  THEN [v EXCEPT !.at = Origin(w), !.todo = LinkBody(w).comps \o Tail(@),
                 !.slash = IF Last(w) THEN LinkBody(w).slash ELSE @, !.left = @ - 1]
  ELSE [v EXCEPT !.at = Found(w), !.todo = Tail(@)]

-----------------------------------------------------------------------------
(***************************************************************************)
(* Only a lookup minds the slash of a directory's name: nothing in an open *)
(* asks for a directory.  A walk to a parent leaves the last component     *)
(* alone; an open that may create does so where the last link leads.       *)
(***************************************************************************)
Arrived(w) == w.todo = <<>> \/ (Last(w) /\ w.goal = "parent")

MayCreate(w) ==
  Creates(w) /\ Directory(w.at) /\ ~w.slash /\ Down(w).dentry = Absent

Stops(w) == Arrived(w) \/ MayCreate(w) \/ Trouble(w) # "ok"

Outcome(w) ==
  IF w.todo = <<>>
  THEN IF w.goal = "lookup" /\ w.mustdir /\ ~Directory(w.at)
       THEN Refuse("ENOTDIR") ELSE Answer(w.at)
  ELSE IF MayCreate(w) THEN Create(w.at, Head(w.todo))
  ELSE IF Arrived(w) /\ Directory(w.at) THEN Answer(w.at)
  ELSE Refuse(Trouble(w))

Resolve[w \in Queries] == IF Stops(w) THEN Outcome(w) ELSE Resolve[Onward(w)]

-----------------------------------------------------------------------------
(* The call.                                                               *)

Goal ==
  IF ~op.opens
  THEN IF "PARENT" \in arg.flags THEN "parent" ELSE "lookup"
  ELSE IF "PATH" \in op.asked THEN "lookup"
  ELSE IF "CREAT" \in op.asked THEN "create" ELSE "open"

\* What the caller asked for: flags of a lookup, or the O_ flags of an open.
Follows ==
  IF op.opens
  THEN "NOFOLLOW" \notin op.asked
       /\ ~({"CREAT", "EXCL"} \subseteq op.asked /\ "PATH" \notin op.asked)
  ELSE "FOLLOW" \in arg.flags

WantsDirectory ==
  IF op.opens THEN "DIRECTORY" \in op.asked ELSE "DIRECTORY" \in arg.flags

\* The query of a call that may follow so many links.
Question(left) ==
  [top |-> root, goal |-> Goal, ban |-> arg.flags \cap Bans, at |-> root,
   todo |-> arg.path.comps, slash |-> arg.path.slash,
   follow |-> Follows, mustdir |-> WantsDirectory, left |-> left]

\* total_link_count is not reset between tries.
Expected == Resolve[Question(MAXSYMLINKS - arg.begun)]

\* The walk gives the dentry and mount, or the error, that the name means:
\* the two depths into one stack, the saved names, the mounts crossed up and
\* down and the flags set on the way never send it elsewhere.  Errors of the
\* cache, the file system and the allocator are the only others; but for one:
\* a retry, which runs in ref-walk, may pass over a name the cache holds
\* (d_same_name, and a d_revalidate of 0), and is then wrong in one way only:
\* it reports ENOENT.
ResolvesAsSpecified ==
  pc = "done" /\ (op.opens => "PATH" \in op.asked) /\ err \notin {"EIO", "ESTALE", "ENOMEM"} =>
     IF missed THEN err = "ENOENT" /\ try > 1
     ELSE err = Expected.err /\ (err = "ok" => at = Expected.at)

\* Where the cache knew another file by the name (open_create_over).
MadeOver == made # NoPlace /\ Child[made.dir][made.name] # Absent

\* An open opens what its name means, or reports the error it means, for
\* every set of flags, on the first try or on the retry after f_op->open or
\* the cache asked for one, as long as that try passes over no name.  If it
\* does, it reports ENOENT, or EEXIST though nobody asked for O_EXCL, or it
\* opens a file it creates where the file system turned a dentry down, if it
\* does not fail for another reason.  But for that it creates nothing without
\* O_CREAT and nothing but the last component, where the last link leads,
\* whether it fails in the end or not.  O_PATH only looks.
OpensAsAsked ==
  /\ pc = "done" /\ op.opens /\ "PATH" \notin op.asked =>
       /\ ~missed /\ err \notin {"EIO", "ESTALE", "ENOMEM"} =>
            /\ err = Expected.err
            /\ err = "ok" => opened = Expected.at /\ (MadeOver \/ made = Expected.made)
       /\ missed => \/ err \in {"ENOENT", "EEXIST", "EIO", "ESTALE"}
                    \/ err = "ok" /\ MadeOver /\ opened.dentry = New
       /\ err # "ok" => opened = Nowhere
  /\ pc = "done" /\ made # NoPlace =>
       Goal = "create" /\ (MadeOver \/ made = Resolve[Question(MAXSYMLINKS)].made)
  /\ pc = "done" /\ "PATH" \in op.asked /\ err = "ok" => opened = Expected.at /\ made = NoPlace
=============================================================================
