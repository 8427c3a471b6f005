------------------------------ MODULE PathOpen ------------------------------
(***************************************************************************)
(* The calls around the walk: getname and putname (private/filename.c),    *)
(* the lookups of PathWalk, and open: vfs_openat_api (api/open.c),         *)
(* namei_open and __namei_path_openat with open_last_lookups, lookup_open  *)
(* and do_open (private/namei.c), which look up or create the last         *)
(* component where a lookup only looks it up, and try again as it does.    *)
(*                                                                         *)
(* Locks and what other tasks do to the directory are in DirOps, the       *)
(* descriptor in FdTable.  mnt_want_write and may_o_create never fail.     *)
(* FMODE_CREATED is left out: lookup_open clears it before it looks.       *)
(***************************************************************************)
EXTENDS PathWalk, OpenFlags

CONSTANTS
  OpenFlagSets,        \* the O_ flags callers pass
  New,                 \* the dentry of the file an open creates, not yet in the tree
  EMBEDDED_NAME_MAX,   \* components that fit beside a struct filename
  PATH_MAX             \* components that fit in a block of their own

ASSUME NewAssumption ==
  /\ OpenFlagSets \subseteq SUBSET O_FLAGS
  /\ New \in Dentries /\ Kind[New] = "file"
  /\ \A d \in Dentries : UpDir[d] # New /\ \A c \in Names : Child[d][c] # New
  /\ \A m \in Mounts : RootOf[m] # New /\ Place[m].dentry # New
ASSUME NameAssumption ==
  EMBEDDED_NAME_MAX \in Nat /\ PATH_MAX \in Nat /\ EMBEDDED_NAME_MAX <= PATH_MAX

VARIABLES
  op,        \* the call: [opens, creat, path], and the O_ flags it was asked with
  blocks,    \* allocated blocks of the struct filename
  made,      \* the name that was created: [dir, name], or NoPlace
  opened     \* the path op->do_open was called with and succeeded, or Nowhere

opening == <<op, blocks, made, opened>>
openVars == <<vars, opening>>

NoPlace == [dir |-> Absent, name |-> Absent]
Lookup == [opens |-> FALSE, creat |-> FALSE, path |-> FALSE, asked |-> {}]

\* An open that looks up its last component itself: not an O_PATH one.
Opening == op.opens /\ ~op.path

OpenInit ==
  /\ pc = "call" /\ set_nameidata
  /\ op = Lookup /\ blocks = {} /\ made = NoPlace /\ opened = Nowhere

walking == <<flags, at, name, last, how, next, stack, rcu, root, try, missed>>

-----------------------------------------------------------------------------
(* The calls.                                                              *)

namei_lookup ==
  /\ pc = "call" /\ pc' = "getname"
  /\ \E f \in FlagSets : arg' = [arg EXCEPT !.flags = f]
  /\ UNCHANGED <<walking, err, opening>>

\* The error of __build_openflags is not looked at: the call goes on with an
\* open_flags nobody filled in, which is as far as it can be followed.
vfs_openat_api ==
  /\ pc = "call"
  /\ \E f \in OpenFlagSets :
       LET built == build_open_flags(build_open_how(f)) IN
       \/ /\ Invalid(build_open_how(f))
          /\ pc' = "undefined" /\ UNCHANGED <<arg, op>>
       \/ /\ ~Invalid(build_open_how(f))
          /\ pc' = "getname"
          /\ op' = [opens |-> TRUE, creat |-> built.creat, path |-> built.path,
                    asked |-> f]
          /\ arg' = [arg EXCEPT !.flags = built.lookup]
  /\ UNCHANGED <<walking, err, blocks, made, opened>>

-----------------------------------------------------------------------------
(***************************************************************************)
(* getname: the path name is copied from user memory beside the struct     *)
(* filename; one that does not fit there gets the block to itself and is   *)
(* copied again, and by then user memory may hold another name.            *)
(***************************************************************************)
Fits(p, n) == Len(p.comps) <= n

getname ==
  /\ pc = "getname" /\ pc' = "start"
  /\ \E p \in Paths : Fits(p, EMBEDDED_NAME_MAX) /\ arg' = [arg EXCEPT !.path = p]
  /\ blocks' = {"text"}
  /\ UNCHANGED <<walking, err, op, made, opened>>

getname_long ==
  /\ pc = "getname" /\ pc' = "recopy"
  /\ \E p \in Paths : ~Fits(p, EMBEDDED_NAME_MAX)
  /\ blocks' = {"text", "struct"}
  /\ UNCHANGED <<walking, err, arg, op, made, opened>>

recopy ==
  /\ pc = "recopy" /\ pc' = "start"
  /\ \E p \in Paths : Fits(p, PATH_MAX) /\ arg' = [arg EXCEPT !.path = p]
  /\ UNCHANGED <<walking, err, opening>>

\* No memory, a fault, an empty name, or one longer than PATH_MAX.
getname_fails ==
  /\ \/ Faults /\ pc \in {"getname", "recopy"}
     \/ pc = "recopy" /\ \E p \in Paths : ~Fits(p, PATH_MAX)
  /\ pc' = "unnamed"
  /\ blocks' = {}
  /\ UNCHANGED <<walking, err, arg, op, made, opened>>

\* The struct of a name that has a block of its own is not freed (mutant).
putname_text_only == blocks' = blocks \ {"text"}

putname == blocks' = {}

-----------------------------------------------------------------------------
(***************************************************************************)
(* open_last_lookups.  With O_CREAT the directory is locked exclusively    *)
(* and nothing is followed yet; without it this is what a lookup does,     *)
(* except that a name the cache does not know ends a walk in RCU mode.     *)
(***************************************************************************)
AtLast == pc = "last" /\ Opening
Normal == last.comp \notin {"/", ".", ".."}
Here == [dir |-> at.dentry, name |-> last.comp]

open_last_dots ==
  /\ AtLast /\ ~Normal
  /\ how' = "trailing" /\ pc' = "lookup"
  /\ UNCHANGED <<flags, at, name, last, next, stack, rcu, err, call, opening>>

TrailingSlash ==
  flags' = IF last.slash THEN flags \cup {"FOLLOW", "DIRECTORY"} ELSE flags

open_last_plain ==
  /\ AtLast /\ Normal /\ ~op.creat
  /\ "RCU" \notin flags \/ InCache
  /\ TrailingSlash
  /\ how' = "trailing" /\ pc' = "lookup"
  /\ UNCHANGED <<at, name, last, next, stack, rcu, err, call, opening>>

open_last_miss ==
  /\ AtLast /\ Normal /\ ~op.creat
  /\ "RCU" \in flags /\ ~InCache
  /\ TrailingSlash
  /\ Fail("ECHILD")
  /\ UNCHANGED <<at, name, last, how, next, stack, rcu, call, opening>>

open_last_isdir ==
  /\ AtLast /\ Normal /\ op.creat
  /\ last.slash
  /\ Fail("EISDIR")
  /\ UNCHANGED <<flags, at, name, last, how, next, stack, rcu, call, opening>>

\* lookup_open finds the name; O_EXCL does not mind.
open_last_exists ==
  /\ AtLast /\ Normal /\ op.creat /\ ~last.slash
  /\ InCache
  /\ how' = "trailing" /\ pc' = "lookup"
  /\ UNCHANGED <<flags, at, name, last, next, stack, rcu, err, call, opening>>

\* Past lookup_open, with a name it found (the lookup it does itself is in
\* open_last_exists and the actions below).
CreatTrailing == op.creat /\ how = "trailing"

\* lookup_open creates: links are left to terminate_walk.
open_create ==
  /\ AtLast /\ Normal /\ op.creat /\ ~last.slash
  /\ ~InCache /\ made # Here
  /\ made' = Here
  /\ at' = [at EXCEPT !.dentry = New]
  /\ pc' = "complete"
  /\ UNCHANGED <<flags, name, last, how, next, stack, rcu, err, call, op, blocks,
                 opened>>

\* The dentry of a file that an earlier try made was never hashed (it comes
\* from d_alloc_parallel, for the name had none): lookup_open misses it and
\* calls i_op->create a second time, and the file system refuses, as in DirOps.
open_create_again ==
  /\ AtLast /\ Normal /\ op.creat /\ ~last.slash
  /\ ~InCache /\ made = Here
  /\ missed' = TRUE
  /\ Fail("EEXIST")
  /\ UNCHANGED <<flags, at, name, last, how, next, stack, rcu, root, try, arg, opening>>

\* A dentry that d_revalidate turns down with 0 is dropped and a negative one
\* allocated in its place: the file system is to create a name it may have.
open_create_over ==
  /\ Faults
  /\ AtLast /\ Normal /\ op.creat /\ ~last.slash
  /\ InCache
  /\ missed' = TRUE
  /\ \/ Fail("EEXIST") /\ UNCHANGED <<at, made>>
     \/ /\ made # Here
        /\ made' = Here
        /\ at' = [at EXCEPT !.dentry = New]
        /\ pc' = "complete" /\ UNCHANGED err
  /\ UNCHANGED <<flags, name, last, how, next, stack, rcu, root, try, arg, op, blocks,
                 opened>>

open_create_fails ==
  /\ Faults
  /\ AtLast /\ Normal /\ op.creat /\ ~last.slash
  /\ \E e \in {"EIO", "ESTALE"} : Fail(e)
  /\ UNCHANGED <<flags, at, name, last, how, next, stack, rcu, call, opening>>

-----------------------------------------------------------------------------

\* do_open: op->do_open calls f_op->open, which may fail.  It does not look
\* at LOOKUP_DIRECTORY.
do_open ==
  /\ pc = "complete" /\ Opening
  /\ \/ pc' = "terminate" /\ opened' = at /\ UNCHANGED err
     \/ /\ Faults
        /\ \E e \in {"EIO", "ESTALE"} : Fail(e)
        /\ UNCHANGED opened
  /\ UNCHANGED <<flags, at, name, last, how, next, stack, rcu, call, op, blocks, made>>

\* do_o_path: the same, after path_lookupat returned.
Looked == pc = "returned" /\ op.path /\ err = "ok" /\ opened = Nowhere

do_o_path ==
  /\ Looked
  /\ \/ opened' = at /\ UNCHANGED err
     \/ /\ Faults
        /\ \E e \in {"EIO", "ESTALE"} : err' = e
        /\ UNCHANGED opened
  /\ UNCHANGED <<walking, pc, arg, op, blocks, made>>

\* namei_open, namei_lookup and kern_path put the name; the walk to a parent
\* leaves it to its caller, and vfs_path_parent_lookup to nobody.
call_returns ==
  /\ ~Looked
  /\ return
  /\ IF "PARENT" \in arg.flags THEN UNCHANGED blocks ELSE putname
  /\ UNCHANGED <<op, made, opened>>

OpenStep ==
  \/ namei_lookup \/ vfs_openat_api
  \/ getname \/ getname_long \/ recopy \/ getname_fails
  \/ Walk /\ UNCHANGED opening
  \/ ~CreatTrailing /\ lookup_misses /\ UNCHANGED opening
  \/ ~Opening /\ LookupEnd /\ UNCHANGED opening
  \/ open_last_dots \/ open_last_plain \/ open_last_miss \/ open_last_isdir
  \/ open_last_exists
  \/ open_create \/ open_create_again \/ open_create_over \/ open_create_fails
  \/ do_open \/ do_o_path \/ call_returns

Ended == pc \in {"done", "unnamed", "undefined"}

OpenNext == OpenStep \/ (Ended /\ UNCHANGED openVars)

OpenSpec == OpenInit /\ [][OpenNext]_openVars

\* A call is one task's sequential code.
OpenFairSpec == OpenSpec /\ WF_openVars(OpenStep)

-----------------------------------------------------------------------------

\* A name's text outlives every use of it: the walk and its retries run with
\* the name allocated, and the last component that the walk to a parent
\* hands to its caller lies in that name, not in a link body that
\* terminate_walk freed (__namei_parentat copies nd->last after the walk).
\* And the name is freed with its struct once the call has returned.
NamesAreKept ==
  /\ pc \notin {"call", "getname", "unnamed", "undefined", "done"} => "text" \in blocks
  /\ pc = "done" /\ "PARENT" \notin arg.flags => blocks = {}
  /\ pc = "done" /\ "PARENT" \in arg.flags /\ err = "ok" =>
       last.src = 0 /\ "text" \in blocks

\* Every call returns, loops of links, creation and retries included.
CallsReturn == <>Ended
=============================================================================
