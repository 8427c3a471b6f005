------------------------------ MODULE PathWalk ------------------------------
(***************************************************************************)
(* Name resolution: path_lookupat and path_parentat with everything they   *)
(* call to turn a path name into a (mount, dentry) pair, and the retries   *)
(* around them (private/namei.c, private/namei/namei-lookup.c,             *)
(* private/namei/namei-dots.c).                                            *)
(*                                                                         *)
(* A name is a sequence of components with a flag for a trailing slash; a  *)
(* text in memory is either the caller's path name (source 0) or the body  *)
(* of a symbolic link, named by the count of links at the time it was      *)
(* picked.  names is what link_path_walk saves in stack[0..depth).name,    *)
(* links what pick_link saves in stack[0..nd->depth): two depths into one  *)
(* array.  The tree is what the dentry cache knows, for lookup_slow never  *)
(* asks the disk (DirOps), and does not change during a walk; a name that  *)
(* is not in it has no dentry, not even a negative one.  That an entry is  *)
(* turned down by the file system's d_revalidate, or that it or an         *)
(* allocation fails, is a choice.  complete_walk and try_to_unlazy are     *)
(* stubs that report success and leave LOOKUP_RCU set; try_to_unlazy_next  *)
(* and __legitimize_path are stubs that report failure.  No d_seq and no   *)
(* mount_lock is ever written, so no sequence check fails.                 *)
(*                                                                         *)
(* These are the steps of a walk; PathOpen has the calls that make them,   *)
(* and the specification.                                                  *)
(***************************************************************************)
EXTENDS Naturals, Sequences, FiniteSets

CONSTANTS
  Dentries, Mounts,
  Names,           \* the names in directories, which "." and ".." are not
  Kind,            \* of each dentry: "dir", "file" or "link"
  Child,           \* Child[d][c]: the dentry of a name in a directory, or Absent
  Absent,
  UpDir,           \* d_parent
  Body,            \* of each link: [abs, comps, slash]
  RootOf,          \* mnt_root
  Place,           \* where each mount is mounted; the first one on itself
  Roots,           \* the values fs root may have
  Paths,           \* the absolute path names callers pass: [comps, slash]
  FlagSets,        \* the lookup flags callers pass
  Faults,          \* may allocations, the cache and the file system fail
  MAXSYMLINKS, EMBEDDED_LEVELS

Locations == [mnt : Mounts, dentry : Dentries]
Components == Names \cup {".", ".."}

ASSUME TreeAssumption ==
  /\ Names \cap {"/", ".", ".."} = {}
  /\ Child \in [Dentries -> [Names -> Dentries \cup {Absent}]]
  /\ UpDir \in [Dentries -> Dentries]
  /\ RootOf \in [Mounts -> Dentries] /\ Place \in [Mounts -> Locations]
  /\ Roots \subseteq Locations /\ \A p \in Roots : Kind[p.dentry] = "dir"
  /\ Absent \notin Dentries \cup Mounts
ASSUME TextAssumption ==
  /\ Paths \subseteq [comps : Seq(Components), slash : BOOLEAN]
  /\ \A d \in Dentries : Kind[d] = "link" =>
       Body[d] \in [abs : BOOLEAN, comps : Seq(Components), slash : BOOLEAN]

ASSUME LimitAssumption ==
  EMBEDDED_LEVELS \in Nat \ {0} /\ MAXSYMLINKS \in Nat
  /\ EMBEDDED_LEVELS < MAXSYMLINKS

VARIABLES
  pc,
  flags,           \* nd->flags: FOLLOW DIRECTORY NO_SYMLINKS NO_XDEV PARENT RCU
  root,            \* nd->root
  at,              \* nd->path
  name,            \* the rest of the name being walked: [comps, slash, src]
  last,            \* nd->last and last_type: [comp, slash, src]
  how,             \* the WALK_ flag of the component: "more", "nested", "trailing"
  next,            \* the path step_into was given
  names, links,    \* nd->stack
  room,            \* entries of nd->stack
  total,           \* nd->total_link_count
  bodies,          \* link bodies whose delayed call is still to be made
  rcu,             \* depth of rcu_read_lock
  err,             \* "ok" or the error being returned
  try,             \* 1: LOOKUP_RCU, 2: after -ECHILD, 3: after -ESTALE
  arg,             \* the caller's path and flags, and total when the try began
  missed           \* history: this try passed over a name the cache holds

stack == <<names, links, room, total, bodies>>
call == <<root, try, arg, missed>>
vars == <<pc, flags, at, name, last, how, next, stack, rcu, err, call>>

Nowhere == [mnt |-> Absent, dentry |-> Absent]
NoName == [comps |-> <<>>, slash |-> FALSE, src |-> 0]

\* The absolute path is walked from nd->root: path_init and nd_jump_root.
\* total_link_count is not reset between tries.
path_init(flgs, begun, r, path) ==
  /\ flags' = flgs
  /\ rcu' = IF "RCU" \in flgs THEN 1 ELSE 0
  /\ at' = r
  /\ name' = [comps |-> path.comps, slash |-> path.slash, src |-> 0]
  /\ last' = [comp |-> "/", slash |-> FALSE, src |-> 0]
  /\ how' = "more" /\ next' = Nowhere /\ names' = <<>>
  /\ err' = "ok" /\ pc' = "enter" /\ missed' = FALSE
  /\ arg' = [path |-> path, flags |-> flgs \ {"RCU"}, begun |-> begun]

\* set_nameidata: the nameidata of a call that has not begun to walk.
set_nameidata ==
  /\ root \in Roots
  /\ arg = [path |-> NoName, flags |-> {}, begun |-> 0]
  /\ flags = {} /\ at = Nowhere /\ name = NoName
  /\ last = [comp |-> "/", slash |-> FALSE, src |-> 0]
  /\ how = "more" /\ next = Nowhere
  /\ names = <<>> /\ links = <<>>
  /\ room = EMBEDDED_LEVELS /\ total = 0 /\ bodies = {}
  /\ rcu = 0 /\ err = "ok" /\ try = 1 /\ missed = FALSE

__filename_lookup ==
  /\ pc = "start"
  /\ path_init(arg.flags \cup {"RCU"}, total, root, arg.path)
  /\ UNCHANGED <<links, room, total, bodies, root, try>>

Fail(e) == pc' = "terminate" /\ err' = e

-----------------------------------------------------------------------------
(***************************************************************************)
(* Mounts.                                                                 *)
(***************************************************************************)
Over(p) == {m \in Mounts : Place[m] = p /\ p # [mnt |-> m, dentry |-> RootOf[m]]}

MountRoot(m) == [mnt |-> m, dentry |-> RootOf[m]]

TopMount[m \in Mounts] ==
  IF Over(MountRoot(m)) = {} THEN m
  ELSE TopMount[CHOOSE n \in Over(MountRoot(m)) : TRUE]

\* Only the lowest mount of a pile (mutant).
Traverse_once(p) ==
  IF Over(p) = {} THEN p ELSE MountRoot(CHOOSE m \in Over(p) : TRUE)

\* traverse_mounts and __follow_mount_rcu: the top of the pile on a path.
Traverse(p) ==
  IF Over(p) = {} THEN p ELSE MountRoot(TopMount[CHOOSE m \in Over(p) : TRUE])

\* DCACHE_MOUNTED: places and, because attach_recursive_mnt makes a
\* mountpoint of it, the root of every mount that was added.
Managed(d) ==
  \E m \in Mounts : Place[m] # MountRoot(m) /\ d \in {Place[m].dentry, RootOf[m]}

\* choose_mountpoint: up from the root of m to a place that is not itself
\* the root of a mount, but not out of nd->root.
Mountpoint[w \in Roots \X Mounts] ==
  LET p == Place[w[2]] IN
  IF p = MountRoot(w[2]) \/ p = w[1] THEN Nowhere
  ELSE IF p.dentry # RootOf[p.mnt] THEN p
  ELSE Mountpoint[<<w[1], p.mnt>>]

\* The mounts are a tree, as MountTree leaves them: a place holds one mount,
\* and a mount is further from the root than the one it is mounted on.
ASSUME ForestAssumption ==
  /\ IsFiniteSet(Mounts)
  /\ \A m, n \in Mounts :
       Place[m] = Place[n] => m = n \/ MountRoot(m) = Place[m] \/ MountRoot(n) = Place[n]
  /\ \E depth \in [Mounts -> 0 .. Cardinality(Mounts)] :
       \A m \in Mounts : Place[m] # MountRoot(m) => depth[Place[m].mnt] < depth[m]

\* follow_dotdot.
InRoot ==
  \/ at = root
  \/ at.dentry = RootOf[at.mnt] /\ Mountpoint[<<root, at.mnt>>] = Nowhere

Below == IF at.dentry = RootOf[at.mnt] THEN Mountpoint[<<root, at.mnt>>] ELSE at

DotDot ==
  IF InRoot THEN at
  ELSE [mnt |-> Below.mnt, dentry |-> UpDir[Below.dentry]]

-----------------------------------------------------------------------------
(***************************************************************************)
(* link_path_walk.                                                         *)
(***************************************************************************)
link_path_walk ==
  /\ pc = "enter"
  /\ names' = <<>>
  /\ last' = [comp |-> "/", slash |-> FALSE, src |-> 0]
  /\ pc' = IF name.comps = <<>> THEN "last" ELSE "walk"
  /\ UNCHANGED <<flags, at, name, how, next, links, room, total, bodies, rcu, err,
                 call>>

TakeComponent ==
  last' = [comp |-> Head(name.comps),
           slash |-> name.slash \/ Len(name.comps) > 1, src |-> name.src]

\* Not the last component of its text.
walk_more ==
  /\ pc = "walk" /\ Len(name.comps) > 1
  /\ TakeComponent
  /\ name' = [name EXCEPT !.comps = Tail(@)]
  /\ how' = "more" /\ pc' = "lookup"
  /\ UNCHANGED <<flags, at, next, stack, rcu, err, call>>

\* The last component of a nested link: the saved name is next.
walk_nested ==
  /\ pc = "walk" /\ Len(name.comps) = 1 /\ names # <<>>
  /\ TakeComponent
  /\ name' = names[Len(names)]
  /\ names' = SubSeq(names, 1, Len(names) - 1)
  /\ how' = "nested" /\ pc' = "lookup"
  /\ UNCHANGED <<flags, at, next, links, room, total, bodies, rcu, err, call>>

\* The last component of the path name or of a trailing link.
walk_last ==
  /\ pc = "walk" /\ Len(name.comps) = 1 /\ names = <<>>
  /\ TakeComponent
  /\ name' = NoName
  /\ pc' = "last"
  /\ UNCHANGED <<flags, at, how, next, stack, rcu, err, call>>

lookup_last ==
  /\ pc = "last" /\ "PARENT" \notin flags
  /\ flags' = IF last.comp \notin {"/", ".", ".."} /\ last.slash
              THEN flags \cup {"FOLLOW", "DIRECTORY"} ELSE flags
  /\ how' = "trailing" /\ pc' = "lookup"
  /\ UNCHANGED <<at, name, last, next, stack, rcu, err, call>>

\* path_parentat stops here.
path_parentat ==
  /\ pc = "last" /\ "PARENT" \in flags
  /\ pc' = "terminate"
  /\ UNCHANGED <<flags, at, name, last, how, next, stack, rcu, err, call>>

\* put_link, if there is one (nd->depth).
PopLink ==
  IF links # <<>>
  THEN /\ links' = SubSeq(links, 1, Len(links) - 1)
       /\ bodies' = bodies \ {links[Len(links)]}
  ELSE UNCHANGED <<links, bodies>>

\* The link is put although more of its body is to come (mutant).
PutLink_any == PopLink

(***************************************************************************)
(* walk_component: the lookup, then put_link, then step_into.              *)
(***************************************************************************)
PutLink == IF how # "more" THEN PopLink ELSE UNCHANGED <<links, bodies>>

handle_dots ==
  /\ pc = "lookup" /\ last.comp \in {"/", ".", ".."}
  /\ PutLink
  /\ \/ /\ last.comp # ".."
        /\ pc' = "stepped" /\ UNCHANGED <<at, next, err>>
     \/ /\ last.comp = ".." /\ ~InRoot /\ Below # at /\ "NO_XDEV" \in flags
        /\ Fail("EXDEV") /\ at' = Below /\ UNCHANGED next
     \/ /\ last.comp = ".." /\ (InRoot \/ Below = at \/ "NO_XDEV" \notin flags)
        /\ at' = IF InRoot THEN at ELSE Below
        /\ next' = DotDot
        /\ pc' = "step" /\ UNCHANGED err
  /\ UNCHANGED <<flags, name, last, how, names, room, total, rcu, call>>

InCache == Child[at.dentry][last.comp] # Absent

\* In RCU mode names are compared by length.  In ref-walk, which is what every
\* retry is, d_same_name compares the cached name with all the text from the
\* component on, and no component with a '/' behind it is found.
Mismatched == "RCU" \notin flags /\ last.slash

\* lookup_fast finds the entry; for a name the cache does not know,
\* lookup_slow allocates a negative dentry.
lookup ==
  /\ pc = "lookup" /\ last.comp \notin {"/", ".", ".."}
  /\ ~InCache \/ ~Mismatched
  /\ PutLink
  /\ next' = [mnt |-> at.mnt, dentry |-> Child[at.dentry][last.comp]]
  /\ pc' = "step"
  /\ UNCHANGED <<flags, at, name, last, how, names, room, total, rcu, err, call>>

\* ... and it does so for one that is not found, or that d_revalidate turns
\* down with 0, which lookup_fast makes a NULL of.
lookup_misses ==
  /\ pc = "lookup" /\ last.comp \notin {"/", ".", ".."}
  /\ InCache /\ (Mismatched \/ (Faults /\ "RCU" \notin flags))
  /\ PutLink
  /\ next' = [mnt |-> at.mnt, dentry |-> Absent]
  /\ missed' = TRUE
  /\ pc' = "step"
  /\ UNCHANGED <<flags, at, name, last, how, names, room, total, rcu, err, root, try,
                 arg>>

\* d_revalidate, d_alloc_parallel or the file system fails.
lookup_fails ==
  /\ Faults
  /\ pc = "lookup" /\ last.comp \notin {"/", ".", ".."}
  /\ \E e \in (IF "RCU" \in flags THEN {"ECHILD"} ELSE {"ESTALE"}) \cup {"EIO"} :
        Fail(e)
  /\ UNCHANGED <<flags, at, name, last, how, next, stack, rcu, call>>

\* handle_dots steps with WALK_NOFOLLOW.
MayFollow == last.comp # ".." /\ (how # "trailing" \/ "FOLLOW" \in flags)

Refused ==   \* handle_mounts with LOOKUP_NO_XDEV
  /\ "NO_XDEV" \in flags
  /\ IF "RCU" \in flags THEN Managed(next.dentry) ELSE Traverse(next) # next

step_negative ==
  /\ pc = "step" /\ next.dentry = Absent
  /\ Fail("ENOENT")
  /\ UNCHANGED <<flags, at, name, last, how, next, stack, rcu, call>>

step_refused ==
  /\ pc = "step" /\ next.dentry # Absent /\ Refused
  /\ Fail(IF "RCU" \in flags THEN "ECHILD" ELSE "EXDEV")
  /\ UNCHANGED <<flags, at, name, last, how, next, stack, rcu, call>>

step_into ==
  /\ pc = "step" /\ next.dentry # Absent /\ ~Refused
  /\ \/ /\ Kind[Traverse(next).dentry] = "link" /\ MayFollow
        /\ pc' = "pick" /\ UNCHANGED at
     \/ /\ ~(Kind[Traverse(next).dentry] = "link" /\ MayFollow)
        /\ at' = Traverse(next) /\ pc' = "stepped"
  /\ next' = Traverse(next)
  /\ UNCHANGED <<flags, name, last, how, stack, rcu, err, call>>

\* Back in link_path_walk, or in path_lookupat after the last component.
stepped ==
  /\ pc = "stepped"
  /\ \/ /\ how = "trailing"
        /\ pc' = "complete" /\ UNCHANGED err
     \/ /\ how # "trailing" /\ Kind[at.dentry] = "dir"
        /\ pc' = "walk" /\ UNCHANGED err
     \/ /\ how # "trailing" /\ Kind[at.dentry] # "dir"
        /\ Fail("ENOTDIR")
  /\ UNCHANGED <<flags, at, name, last, how, next, stack, rcu, call>>

-----------------------------------------------------------------------------
(***************************************************************************)
(* pick_link: reserve_stack, then the body of the link.                    *)
(***************************************************************************)
TooManyLinks == total >= MAXSYMLINKS
\* Off by one (mutant).
MustGrow_late == Len(links) > EMBEDDED_LEVELS /\ room = EMBEDDED_LEVELS

MustGrow == Len(links) = EMBEDDED_LEVELS /\ room = EMBEDDED_LEVELS

PushLink ==
  /\ links' = Append(links, total + 1)
  /\ IF "NO_SYMLINKS" \in flags THEN Fail("ELOOP")
     ELSE pc' = "get_link" /\ UNCHANGED err

reserve_loop ==
  /\ pc = "pick" /\ TooManyLinks
  /\ total' = total + 1
  /\ Fail("ELOOP")
  /\ UNCHANGED <<flags, at, name, last, how, next, names, links, room, bodies, rcu,
                 call>>

pick_link ==
  /\ pc = "pick" /\ ~TooManyLinks
  /\ total' = total + 1
  /\ room' = IF MustGrow THEN MAXSYMLINKS ELSE room
  /\ PushLink
  /\ UNCHANGED <<flags, at, name, last, how, next, names, bodies, rcu, call>>

\* nd_alloc_stack fails; in RCU mode the link cannot be legitimized.
reserve_fails ==
  /\ Faults
  /\ pc = "pick" /\ ~TooManyLinks /\ MustGrow
  /\ total' = total + 1
  /\ Fail(IF "RCU" \in flags THEN "ECHILD" ELSE "ENOMEM")
  /\ UNCHANGED <<flags, at, name, last, how, next, names, links, room, bodies, rcu,
                 call>>

get_link_fails ==
  /\ Faults /\ pc = "get_link"
  /\ Fail("EIO")
  /\ UNCHANGED <<flags, at, name, last, how, next, stack, rcu, call>>

\* nd_jump_root refuses to leave the mount under LOOKUP_NO_XDEV.
JumpRefused(body) == body.abs /\ "NO_XDEV" \in flags /\ at.mnt # root.mnt

\* A trailing link goes back to path_lookupat, any other to link_path_walk,
\* which saves what is left of the name that led to it.
get_link ==
  LET body == Body[next.dentry] IN
  /\ pc = "get_link"
  /\ \/ /\ JumpRefused(body)
        /\ Fail("EXDEV")
        /\ bodies' = bodies \cup {total}
        /\ UNCHANGED <<at, name, names, links>>
     \/ /\ ~JumpRefused(body) /\ body.comps = <<>>      \* pure jump: put_link
        /\ at' = IF body.abs THEN root ELSE at
        /\ links' = SubSeq(links, 1, Len(links) - 1)
        /\ pc' = "stepped"
        /\ UNCHANGED <<name, names, bodies, err>>
     \/ /\ ~JumpRefused(body) /\ body.comps # <<>>
        /\ at' = IF body.abs THEN root ELSE at
        /\ bodies' = bodies \cup {total}
        /\ name' = [comps |-> body.comps, slash |-> body.slash, src |-> total]
        /\ \/ how = "trailing" /\ pc' = "enter" /\ UNCHANGED names
           \/ how # "trailing" /\ pc' = "walk" /\ names' = Append(names, name)
        /\ UNCHANGED <<links, err>>
  /\ UNCHANGED <<flags, last, how, next, room, total, rcu, call>>

-----------------------------------------------------------------------------

complete_walk ==
  /\ pc = "complete"
  /\ IF "DIRECTORY" \in flags /\ Kind[at.dentry] # "dir"
     THEN Fail("ENOTDIR") ELSE pc' = "terminate" /\ UNCHANGED err
  /\ UNCHANGED <<flags, at, name, last, how, next, stack, rcu, call>>

\* drop_links forgets the delayed calls (mutant).
terminate_walk_leaks ==
  /\ pc = "terminate"
  /\ links' = <<>> /\ names' = <<>>
  /\ rcu' = IF "RCU" \in flags THEN rcu - 1 ELSE rcu
  /\ pc' = "returned"
  /\ UNCHANGED <<flags, at, name, last, how, next, room, total, bodies, err, call>>

\* drop_links and leave_rcu; the array itself stays with nd.
terminate_walk ==
  /\ pc = "terminate"
  /\ bodies' = bodies \ {links[i] : i \in 1 .. Len(links)}
  /\ links' = <<>> /\ names' = <<>>
  /\ rcu' = IF "RCU" \in flags THEN rcu - 1 ELSE rcu
  /\ pc' = "returned"
  /\ UNCHANGED <<flags, at, name, last, how, next, room, total, err, call>>

\* Again and again (mutant).
Retry_forever == err \in {"ECHILD", "ESTALE"}

Retry ==
  \/ try = 1 /\ err \in {"ECHILD", "ESTALE"}
  \/ try = 2 /\ err = "ESTALE"

retry ==
  /\ pc = "returned" /\ Retry
  /\ path_init(arg.flags, total, root, arg.path)
  /\ try' = IF err = "ECHILD" THEN 2 ELSE 3
  /\ UNCHANGED <<links, room, total, bodies, root>>

return ==
  /\ pc = "returned" /\ ~Retry
  /\ pc' = "done"
  /\ UNCHANGED <<flags, at, name, last, how, next, stack, rcu, err, call>>

\* What every call does.
Walk ==
  \/ __filename_lookup \/ link_path_walk
  \/ walk_more \/ walk_nested \/ walk_last
  \/ handle_dots \/ lookup \/ lookup_fails
  \/ step_negative \/ step_refused \/ step_into \/ stepped
  \/ reserve_loop \/ pick_link \/ reserve_fails \/ get_link_fails \/ get_link
  \/ terminate_walk \/ retry

\* What a lookup does with the last component and the result; an open does
\* something else (PathOpen).
LookupEnd == lookup_last \/ path_parentat \/ complete_walk

-----------------------------------------------------------------------------

TypeOK ==
  /\ at \in [mnt : Mounts \cup {Absent}, dentry : Dentries \cup {Absent}]
  /\ next \in [mnt : Mounts \cup {Absent}, dentry : Dentries \cup {Absent}]
  /\ how \in {"more", "nested", "trailing"}
  /\ room \in {EMBEDDED_LEVELS, MAXSYMLINKS}
  /\ total \in Nat /\ bodies \subseteq 1 .. total
  /\ rcu \in Nat /\ try \in 1 .. 3

\* "depth <= nd->depth" (namei.c:565) and the array is never overrun, on
\* any nesting of links and although it is grown only at the moment the
\* depth is exactly EMBEDDED_LEVELS.
StackInBounds ==
  TypeOK /\ Len(names) <= Len(links) /\ Len(links) <= room

\* A text is live as long as the path name is, or the delayed call that
\* frees the link body has not been made.
Live(src) == src = 0 \/ src \in bodies

\* The walk reads no link body after freeing it: neither the name it is in,
\* nor the names it will come back to, nor the last component it looks up.
\* put_link runs between the lookup of a component and the next one.
NamesAreLive ==
  /\ pc = "walk" => Live(name.src) /\ \A i \in DOMAIN names : Live(names[i].src)
  /\ pc \in {"last", "lookup"} => Live(last.src)

\* A walk that returns, on any path and after any retry, has freed every
\* link body, popped every link and left the RCU read side.
WalkCleansUp ==
  pc \in {"returned", "done"} => bodies = {} /\ links = <<>> /\ rcu = 0

=============================================================================
