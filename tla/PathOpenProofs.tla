--------------------------- MODULE PathOpenProofs ---------------------------
(***************************************************************************)
(* What holds of every walk and every open, for every tree, every path     *)
(* name, every nesting of links and every limit: the stack of links is     *)
(* never overrun, no text is read after it was freed, a walk gives back    *)
(* everything it took, and a name lives as long as its call.               *)
(*                                                                         *)
(* link_path_walk counts the names it will come back to, nd counts the     *)
(* links whose bodies it holds, and both index one array.  The two depths  *)
(* differ by one exactly when the name being walked is a trailing link's   *)
(* (Base): this and the order of the links (Numbered) say which link body  *)
(* each saved name lies in (Texts), and that body is still held            *)
(* (BodiesAreHeld).                                                        *)
(***************************************************************************)
EXTENDS PathOpen, SequenceTheorems, FiniteSetTheorems, WellFoundedInduction, TLAPS

Walking == {"enter", "walk", "last", "lookup", "step", "pick", "stepped",
            "get_link", "complete"}

Text == [comps : Seq(Components), slash : BOOLEAN, src : Nat]

-----------------------------------------------------------------------------
(* The types.                                                              *)

At(l) == l \in [mnt : Mounts \cup {Absent}, dentry : Dentries \cup {Absent}]

Placed ==
  /\ root \in Roots
  /\ At(at) /\ (pc \in Walking => at \in Locations)
  /\ At(next)
  /\ pc = "step" => next.mnt \in Mounts
  /\ pc \in {"pick", "get_link"} => next \in Locations /\ Kind[next.dentry] = "link"

Spelled ==
  /\ name \in Text /\ names \in Seq(Text)
  /\ last \in [comp : Components \cup {"/"}, slash : BOOLEAN, src : Nat]
  /\ how \in {"more", "nested", "trailing"}
  /\ try \in 1 .. 3
  /\ DOMAIN arg = {"path", "flags", "begun"}
  /\ pc \notin {"call", "getname", "recopy", "unnamed", "undefined"} =>
       arg.path \in [comps : Seq(Components), slash : BOOLEAN]

Typed == Placed /\ Spelled

-----------------------------------------------------------------------------
(* The stack.                                                              *)

\* The links but for one that is still to be read, or about to be put.
Held ==
  IF pc = "get_link" \/ (pc = "lookup" /\ how = "nested")
  THEN Len(links) - 1 ELSE Len(links)

\* A trailing link has no name to come back to; a walk to a parent follows
\* no trailing link.
Base == IF "PARENT" \in flags THEN {0} ELSE {0, 1}

Levels ==
  /\ pc \in Walking => Held - Len(names) \in Base
  /\ pc \in {"enter", "last", "complete"} => names = <<>>
  /\ pc \in {"lookup", "step", "pick", "stepped", "get_link"} /\ how = "trailing" =>
       names = <<>>
  /\ pc \in {"step", "pick", "stepped", "get_link"} /\ how = "trailing" => Held = 0
  /\ pc = "terminate" => Len(names) <= Len(links)
  /\ pc \notin Walking \cup {"terminate"} => names = <<>> /\ links = <<>>

\* Links are numbered in the order in which they were picked.
Numbered ==
  /\ total \in Nat
  /\ links \in Seq(Nat)
  /\ \A i \in 1 .. Len(links) : links[i] \in 1 .. total
  /\ \A i, j \in 1 .. Len(links) : i < j => links[i] < links[j]
  /\ Len(links) <= total
  /\ pc = "get_link" => links[Len(links)] = total

Room == room \in {EMBEDDED_LEVELS, MAXSYMLINKS} /\ Len(links) <= room

Filled == IF pc = "get_link" THEN Len(links) - 1 ELSE Len(links)

BodiesAreHeld ==
  /\ pc \in Walking => bodies = {links[i] : i \in 1 .. Filled}
  /\ pc = "terminate" => bodies \subseteq {links[i] : i \in 1 .. Len(links)}
  /\ pc \notin Walking \cup {"terminate"} => bodies = {}

-----------------------------------------------------------------------------
(* The texts.                                                              *)

\* The text a level of links lies in: the path name below the first one.
Src(i) == IF i = 0 THEN 0 ELSE links[i]

Within ==
  \/ pc \in {"enter", "walk"}
  \/ pc \in {"lookup", "step", "pick", "stepped", "get_link"} /\ how # "trailing"

Texts ==
  /\ Within => name.src = Src(Held)
  /\ Within => \A i \in 1 .. Len(names) :
                 names[i].src = Src(Held - Len(names) + i - 1)
  /\ pc \in {"last", "lookup"} => last.src \in {0, Src(Len(links))}

-----------------------------------------------------------------------------
(* The call.                                                               *)

Reader ==
  rcu = IF pc \in Walking \cup {"terminate"} /\ "RCU" \in flags THEN 1 ELSE 0

Parents ==
  /\ pc \in Walking \cup {"terminate", "returned", "done"} =>
       ("PARENT" \in flags <=> "PARENT" \in arg.flags)
  /\ how = "trailing" \/ pc = "complete" => "PARENT" \notin flags
  /\ op.opens => "PARENT" \notin arg.flags
  /\ op.path => op.opens
  /\ pc = "call" => ~op.opens
  /\ pc \in Walking => err = "ok"
  /\ pc \in {"terminate", "returned", "done"} /\ "PARENT" \in flags /\ err = "ok" =>
       last.src = 0

Named ==
  /\ pc \notin {"call", "getname", "unnamed", "undefined", "done"} => "text" \in blocks
  /\ pc = "done" /\ "PARENT" \notin arg.flags => blocks = {}
  /\ pc = "done" /\ "PARENT" \in arg.flags => "text" \in blocks

Stack == Levels /\ Numbered /\ Room /\ BodiesAreHeld

IInv == Typed /\ Stack /\ Texts /\ Reader /\ Parents /\ Named

-----------------------------------------------------------------------------
(***************************************************************************)
(* What a step does to the stack.                                          *)
(***************************************************************************)
Still == UNCHANGED <<names, links, room, total, bodies>>

Outside == pc \notin Walking \cup {"terminate"}

\* A step of the call, not of a walk.
Around == Outside /\ Outside' /\ Still

Begins ==
  /\ pc \in {"start", "returned"} /\ pc' = "enter" /\ how' = "more"
  /\ Still

\* A step of the walk that leaves the stack alone.
Proceeds ==
  /\ Still
  /\ Base' = Base
  /\ \/ pc = "enter" /\ pc' \in {"last", "walk"}
     \/ pc = "walk" /\ pc' = "lookup" /\ how' = "more"
     \/ pc = "walk" /\ pc' = "last" /\ names = <<>>
     \/ pc = "last" /\ pc' = "lookup" /\ how' = "trailing"
     \/ pc = "last" /\ pc' = "complete"
     \/ pc = "step" /\ pc' \in {"pick", "stepped"} /\ how' = how
     \/ pc = "stepped" /\ pc' = "complete" /\ how = "trailing"
     \/ pc = "stepped" /\ pc' = "walk" /\ how # "trailing"

\* The walk ends with the stack as it is; a link may have been counted.
Ends ==
  /\ pc \in Walking /\ pc' = "terminate"
  /\ total' \in {total, total + 1}
  /\ UNCHANGED <<names, links, room, bodies>>

\* A component was looked up: its link is put if it was the last one of it.
Puts ==
  /\ pc = "lookup" /\ how' = how /\ PutLink
  /\ pc' \in {"step", "stepped", "terminate"}
  /\ Base' = Base
  /\ UNCHANGED <<names, room, total>>

LEMMA StackSteps ==
  ASSUME Levels, [OpenNext]_openVars
  PROVE  \/ Around \/ Begins \/ Proceeds \/ Ends \/ Puts
         \/ walk_nested \/ pick_link \/ get_link \/ terminate_walk
         \/ UNCHANGED openVars
<1> USE DEF Around, Begins, Proceeds, Ends, Puts, Outside, Still, Base, Walking,
            Fail
<1>1. CASE namei_lookup \/ vfs_openat_api
  BY <1>1 DEF namei_lookup, vfs_openat_api, walking, stack
<1>2. CASE getname \/ getname_long \/ recopy \/ getname_fails
  BY <1>2 DEF getname, getname_long, recopy, getname_fails, walking, stack
<1>3. CASE Walk /\ UNCHANGED opening
  <2>1. CASE __filename_lookup \/ retry
    BY <2>1 DEF __filename_lookup, retry, path_init, Levels
  <2>2. CASE link_path_walk
    BY <2>2 DEF link_path_walk, Levels
  <2>3. CASE walk_more \/ walk_last
    BY <2>3 DEF walk_more, walk_last, stack
  <2>4. CASE handle_dots
    BY <2>4 DEF handle_dots
  <2>5. CASE lookup
    BY <2>5 DEF lookup
  <2>6. CASE lookup_fails \/ step_negative \/ step_refused \/ get_link_fails
    BY <2>6 DEF lookup_fails, step_negative, step_refused, get_link_fails, stack
  <2>7. CASE step_into
    BY <2>7 DEF step_into, stack
  <2>8. CASE stepped
    BY <2>8 DEF stepped, stack
  <2>9. CASE reserve_loop \/ reserve_fails
    BY <2>9 DEF reserve_loop, reserve_fails
  <2> QED
    BY <1>3, <2>1, <2>2, <2>3, <2>4, <2>5, <2>6, <2>7, <2>8, <2>9 DEF Walk
<1>4. CASE LookupEnd
  BY <1>4 DEF LookupEnd, lookup_last, path_parentat, complete_walk, stack
<1>5. CASE open_last_dots \/ open_last_plain \/ open_last_exists
  BY <1>5 DEF open_last_dots, open_last_plain, open_last_exists, AtLast,
              TrailingSlash, stack
<1>6. CASE open_last_miss \/ open_last_isdir \/ open_create_fails
  BY <1>6 DEF open_last_miss, open_last_isdir, open_create_fails, AtLast, stack
<1>7. CASE lookup_misses
  BY <1>7 DEF lookup_misses
<1>8. CASE open_create \/ open_create_again \/ open_create_over
  BY <1>8 DEF open_create, open_create_again, open_create_over, AtLast, stack
<1>9. CASE do_open
  BY <1>9 DEF do_open, stack
<1>10. CASE do_o_path \/ call_returns
  BY <1>10 DEF do_o_path, Looked, call_returns, return, walking, stack
<1> QED
  BY <1>1, <1>2, <1>3, <1>4, <1>5, <1>6, <1>7, <1>8, <1>9, <1>10
     DEF OpenNext, OpenStep

-----------------------------------------------------------------------------
(* The stack.                                                              *)

\* A sequence without its last element.
LEMMA Front ==
  ASSUME NEW S, NEW s \in Seq(S), s # <<>>
  PROVE  /\ SubSeq(s, 1, Len(s) - 1) \in Seq(S)
         /\ Len(s) \in Nat \ {0} /\ Len(SubSeq(s, 1, Len(s) - 1)) = Len(s) - 1
         /\ \A i \in 1 .. Len(s) - 1 : SubSeq(s, 1, Len(s) - 1)[i] = s[i]
<1>1. PICK n \in Nat : Len(s) = n + 1
  <2>1. Len(s) \in Nat \ {0}
    OBVIOUS
  <2> QED
    BY <2>1
<1>2. \A i \in 1 .. n : s[i] \in S
  BY <1>1
<1>3. SubSeq(s, 1, n) = [i \in 1 .. n |-> s[i]]
  BY <1>1
<1>4. [i \in 1 .. n |-> s[i]] \in Seq(S) /\ Len([i \in 1 .. n |-> s[i]]) = n
  BY <1>2
<1>5. Len(s) - 1 = n
  BY <1>1
<1> QED
  BY <1>1, <1>3, <1>4, <1>5

\* What PopLink leaves of the links.
LEMMA Popped ==
  ASSUME links \in Seq(Nat), PopLink
  PROVE  /\ links' \in Seq(Nat) /\ Len(links) \in Nat /\ Len(links') \in Nat
         /\ Len(links') = IF Len(links) = 0 THEN 0 ELSE Len(links) - 1
         /\ \A i \in 1 .. Len(links') : i \in 1 .. Len(links) /\ links'[i] = links[i]
<1>1. CASE links = <<>>
  BY <1>1 DEF PopLink
<1>2. CASE links # <<>>
  BY <1>2, Front DEF PopLink
<1> QED
  BY <1>1, <1>2

\* The two depths: they part and meet only as trailing links are entered.
LEMMA NextLevels ==
  ASSUME Typed, Levels, Parents, links \in Seq(Nat), [OpenNext]_openVars
  PROVE  Levels'
<1>1. /\ names \in Seq(Text) /\ Len(names) \in Nat /\ Len(links) \in Nat
      /\ names = <<>> <=> Len(names) = 0
      /\ links = <<>> <=> Len(links) = 0
      /\ 0 \in Base /\ 0 \in Base' /\ Base \subseteq {0, 1}
      /\ "PARENT" \notin flags' => Base' = {0, 1}
  BY DEF Typed, Spelled, Base
<1> USE DEF Levels, Held, Walking, Outside
<1>2. CASE Around \/ Begins
  BY <1>1, <1>2 DEF Around, Begins, Still
<1>3. CASE Proceeds
  BY <1>1, <1>3 DEF Proceeds, Still
<1>4. CASE Ends
  BY <1>1, <1>4 DEF Ends
<1>5. CASE Puts
  <2>1. pc' \in {"step", "stepped", "terminate"} /\ how' \in {"more", "nested", "trailing"}
        /\ UNCHANGED names /\ Base' = Base
    BY <1>5 DEF Puts, Typed, Spelled
  <2>2. CASE pc = "lookup" /\ how = "more"
    BY <1>1, <1>5, <2>1, <2>2 DEF Puts, PutLink
  <2>3. CASE pc = "lookup" /\ how # "more"
    <3>1. Len(links') \in Nat
          /\ Len(links') = IF Len(links) = 0 THEN 0 ELSE Len(links) - 1
      BY <1>5, <2>3, Popped DEF Puts, PutLink
    <3>2. how' = how
      BY <1>5, <2>3 DEF Puts
    <3>3. CASE how = "nested"
      <4>1. Held = Len(links) - 1 /\ Held' = Len(links')
        BY <2>1, <2>3, <3>3
      <4>2. Len(links) - 1 - Len(names) \in {0, 1} /\ Len(links') = Len(links) - 1
        BY <1>1, <2>3, <3>1, <4>1
      <4> QED
        BY <1>1, <2>1, <2>3, <3>1, <3>2, <3>3, <4>1, <4>2
    <3>4. CASE how = "trailing"
      <4>1. Held = Len(links) /\ Held' = Len(links') /\ names = <<>>
        BY <2>1, <2>3, <3>4
      <4>2. Len(links) \in {0, 1} /\ Len(links') = 0
        <5>1. Held - Len(names) \in {0, 1}
          BY <1>1, <2>3
        <5> QED
          BY <1>1, <3>1, <4>1, <5>1
      <4> QED
        BY <1>1, <2>1, <2>3, <3>1, <3>2, <3>4, <4>1, <4>2
    <3> QED
      BY <2>3, <3>3, <3>4 DEF Typed, Spelled
  <2>4. CASE pc = "last"
    <3>1. Len(links') \in Nat
          /\ Len(links') = IF Len(links) = 0 THEN 0 ELSE Len(links) - 1
      BY <1>5, <2>4, Popped DEF Puts
    <3>2. Held = Len(links) /\ Held' = Len(links') /\ names = <<>>
      BY <2>1, <2>4
    <3>3. Len(links) \in {0, 1} /\ Len(links') = 0
      <4>1. Held - Len(names) \in {0, 1}
        BY <1>1, <2>4
      <4> QED
        BY <1>1, <3>1, <3>2, <4>1
    <3> QED
      BY <1>1, <2>1, <2>4, <3>1, <3>2, <3>3
  <2> QED
    BY <1>5, <2>2, <2>3, <2>4 DEF Puts
<1>6. CASE walk_nested
  <2>1. names # <<>> /\ names' = SubSeq(names, 1, Len(names) - 1)
    BY <1>6 DEF walk_nested
  <2>2. Len(names') = Len(names) - 1
    BY <1>1, <2>1, Front
  <2>3. pc = "walk" /\ pc' = "lookup" /\ how' = "nested" /\ Base' = Base
        /\ UNCHANGED links
    BY <1>6 DEF walk_nested, Base
  <2>4. Held = Len(links) /\ Held' = Len(links) - 1
    BY <2>3
  <2>5. Held' - Len(names') = Held - Len(names)
    BY <1>1, <2>2, <2>4
  <2> QED
    BY <1>1, <2>3, <2>5
<1>7. CASE pick_link
  <2>1. links' = Append(links, total + 1)
    BY <1>7 DEF pick_link, PushLink
  <2>2. Len(links') = Len(links) + 1
    BY <2>1
  <2>3. pc = "pick" /\ pc' \in {"get_link", "terminate"} /\ Base' = Base
        /\ UNCHANGED <<how, names>>
    BY <1>7 DEF pick_link, PushLink, Fail, Base
  <2> QED
    BY <1>1, <2>2, <2>3 DEF Typed, Spelled
<1>8. CASE get_link
  <2> DEFINE body == Body[next.dentry]
  <2>0. Base' = Base
    BY <1>8 DEF get_link, Base
  <2>1. CASE JumpRefused(body)
    BY <1>1, <1>8, <2>0, <2>1 DEF get_link, Fail
  <2>2. CASE ~JumpRefused(body) /\ body.comps = <<>>
    <3>1. links # <<>>
      BY <1>1, <1>8 DEF get_link
    <3>2. links' = SubSeq(links, 1, Len(links) - 1) /\ pc' = "stepped"
          /\ UNCHANGED names
      BY <1>8, <2>2 DEF get_link
    <3>3. Len(links') = Len(links) - 1
      BY <3>1, <3>2, Front
    <3> QED
      BY <1>1, <1>8, <2>0, <3>2, <3>3 DEF get_link
  <2>3. CASE ~JumpRefused(body) /\ body.comps # <<>>
    <3>1. UNCHANGED links
      BY <1>8, <2>3 DEF get_link
    <3>2. CASE how = "trailing"
      <4>1. pc = "get_link" /\ pc' = "enter" /\ UNCHANGED <<names, flags>>
        BY <1>8, <2>3, <3>2 DEF get_link
      <4>2. "PARENT" \notin flags
        BY <3>2 DEF Parents
      <4>3. Held = 0 /\ Held = Len(links) - 1 /\ Held' = Len(links)
        BY <3>1, <3>2, <4>1
      <4>4. Len(links) = 1 /\ names = <<>>
        BY <1>1, <3>2, <4>1, <4>3
      <4>5. Base' = {0, 1}
        BY <1>1, <4>1, <4>2
      <4> QED
        BY <1>1, <3>1, <4>1, <4>3, <4>4, <4>5
    <3>3. CASE how # "trailing"
      <4>1. names' = Append(names, name) /\ pc' = "walk"
        BY <1>8, <2>3, <3>3 DEF get_link
      <4>2. Len(names') = Len(names) + 1
        BY <1>1, <4>1
      <4> QED
        BY <1>1, <1>8, <2>0, <3>1, <3>3, <4>1, <4>2 DEF get_link
    <3> QED
      BY <3>2, <3>3
  <2> QED
    BY <2>1, <2>2, <2>3
<1>9. CASE terminate_walk
  BY <1>9 DEF terminate_walk
<1>10. CASE UNCHANGED openVars
  BY <1>10 DEF openVars, vars, stack, Base
<1> QED
  BY <1>2, <1>3, <1>4, <1>5, <1>6, <1>7, <1>8, <1>9, <1>10, StackSteps

\* A link is numbered above every link that is still held.
LEMMA NextNumbered ==
  ASSUME Typed, Levels, Numbered, [OpenNext]_openVars
  PROVE  Numbered'
<1>1. links \in Seq(Nat) /\ Len(links) \in Nat /\ total \in Nat
  BY DEF Numbered
<1> USE DEF Numbered
<1>2. CASE Around \/ Begins \/ Proceeds
  BY <1>1, <1>2 DEF Around, Begins, Proceeds, Still, Outside, Walking
<1>3. CASE Ends
  BY <1>1, <1>3 DEF Ends
<1>4. CASE Puts
  <2>1. pc' # "get_link" /\ UNCHANGED total
    BY <1>4 DEF Puts
  <2>2. CASE PopLink
    <3>1. /\ links' \in Seq(Nat) /\ Len(links') \in Nat /\ Len(links') <= Len(links)
          /\ \A i \in 1 .. Len(links') : i \in 1 .. Len(links) /\ links'[i] = links[i]
      BY <1>1, <2>2, Popped
    <3> QED
      BY <1>1, <2>1, <3>1
  <2>3. CASE UNCHANGED links
    BY <1>1, <2>1, <2>3
  <2> QED
    BY <1>4, <2>2, <2>3 DEF Puts, PutLink
<1>5. CASE walk_nested
  BY <1>1, <1>5 DEF walk_nested
<1>6. CASE pick_link
  <2>1. links' = Append(links, total + 1) /\ total' = total + 1
    BY <1>6 DEF pick_link, PushLink
  <2>2. /\ links' \in Seq(Nat) /\ Len(links') = Len(links) + 1
        /\ \A i \in 1 .. Len(links) : links'[i] = links[i]
        /\ links'[Len(links) + 1] = total + 1
    BY <1>1, <2>1
  <2>3. \A i \in 1 .. Len(links') : i \in 1 .. Len(links) \/ i = Len(links) + 1
    BY <1>1, <2>2
  <2> QED
    BY <1>1, <2>1, <2>2, <2>3
<1>7. CASE get_link
  <2>1. pc' # "get_link" /\ UNCHANGED total
    BY <1>7 DEF get_link, Fail
  <2>2. UNCHANGED links \/ links' = SubSeq(links, 1, Len(links) - 1)
    BY <1>7 DEF get_link
  <2>3. CASE UNCHANGED links
    BY <1>1, <2>1, <2>3
  <2>4. CASE links' = SubSeq(links, 1, Len(links) - 1)
    <3>1. links # <<>>
      <4>1. pc = "get_link" /\ names \in Seq(Text) /\ Base \subseteq {0, 1}
        BY <1>7 DEF get_link, Typed, Spelled, Base
      <4>2. Len(links) - 1 - Len(names) \in {0, 1}
        BY <4>1 DEF Levels, Held, Walking
      <4> QED
        BY <1>1, <4>1, <4>2
    <3>2. /\ links' \in Seq(Nat) /\ Len(links') = Len(links) - 1
          /\ Len(links) \in Nat \ {0}
          /\ \A i \in 1 .. Len(links') : links'[i] = links[i]
      BY <1>1, <2>4, <3>1, Front
    <3> QED
      BY <1>1, <2>1, <3>2
  <2> QED
    BY <2>2, <2>3, <2>4
<1>8. CASE terminate_walk
  BY <1>1, <1>8 DEF terminate_walk
<1>9. CASE UNCHANGED openVars
  BY <1>1, <1>9 DEF openVars, vars, stack
<1> QED
  BY <1>2, <1>3, <1>4, <1>5, <1>6, <1>7, <1>8, <1>9, StackSteps

\* The array grows once, exactly when it is full.
LEMMA NextRoom ==
  ASSUME Levels, Numbered, Room, [OpenNext]_openVars
  PROVE  Room'
<1>1. /\ links \in Seq(Nat) /\ Len(links) \in Nat
      /\ total \in Nat /\ Len(links) <= total
  BY DEF Numbered
<1>2. /\ EMBEDDED_LEVELS \in Nat \ {0} /\ MAXSYMLINKS \in Nat
      /\ EMBEDDED_LEVELS < MAXSYMLINKS
  BY LimitAssumption
<1>3. CASE Around \/ Begins \/ Proceeds \/ Ends
  BY <1>1, <1>3 DEF Around, Begins, Proceeds, Ends, Still, Room
<1>4. CASE Puts
  <2>1. UNCHANGED room
    BY <1>4 DEF Puts
  <2>2. CASE PopLink
    BY <1>1, <1>2, <2>1, <2>2, Popped DEF Room
  <2>3. CASE UNCHANGED links
    BY <2>1, <2>3 DEF Room
  <2> QED
    BY <1>4, <2>2, <2>3 DEF Puts, PutLink
<1>5. CASE walk_nested
  BY <1>5 DEF walk_nested, Room
<1>6. CASE pick_link
  <2>1. /\ links' = Append(links, total + 1)
        /\ room' = IF MustGrow THEN MAXSYMLINKS ELSE room
        /\ total < MAXSYMLINKS
    BY <1>1, <1>2, <1>6 DEF pick_link, PushLink, TooManyLinks
  <2>2. Len(links') = Len(links) + 1
    BY <1>1, <2>1
  <2> QED
    BY <1>1, <1>2, <2>1, <2>2 DEF Room, MustGrow
<1>7. CASE get_link
  <2>1. UNCHANGED room
    BY <1>7 DEF get_link
  <2>2. CASE links' = SubSeq(links, 1, Len(links) - 1) /\ links # <<>>
    BY <1>1, <1>2, <2>1, <2>2, Front DEF Room
  <2>3. CASE UNCHANGED links
    BY <2>1, <2>3 DEF Room
  <2>4. CASE links = <<>> /\ links' = SubSeq(links, 1, Len(links) - 1)
    <3>1. links' = <<>>
      BY <2>4
    <3> QED
      BY <1>2, <2>1, <3>1 DEF Room
  <2> QED
    BY <1>7, <2>2, <2>3, <2>4 DEF get_link
<1>8. CASE terminate_walk
  BY <1>2, <1>8 DEF terminate_walk, Room
<1>9. CASE UNCHANGED openVars
  BY <1>9 DEF openVars, vars, stack, Room
<1> QED
  BY <1>3, <1>4, <1>5, <1>6, <1>7, <1>8, <1>9, StackSteps

\* A link is put once, and its body is freed then.
LEMMA PoppedBodies ==
  ASSUME Numbered, PopLink, bodies = {links[i] : i \in 1 .. Len(links)}
  PROVE  bodies' = {links'[i] : i \in 1 .. Len(links')}
<1>1. links \in Seq(Nat) /\ Len(links) \in Nat
  BY DEF Numbered
<1>2. CASE links = <<>>
  BY <1>2 DEF PopLink
<1>3. CASE links # <<>>
  <2>1. bodies' = bodies \ {links[Len(links)]}
    BY <1>3 DEF PopLink
  <2>2. /\ Len(links') = Len(links) - 1 /\ Len(links) \in Nat \ {0}
        /\ \A i \in 1 .. Len(links) - 1 : links'[i] = links[i]
    BY <1>1, <1>3, Front DEF PopLink
  <2>3. \A i \in 1 .. Len(links) :
          i \in 1 .. Len(links) - 1 <=> links[i] # links[Len(links)]
    BY <2>2 DEF Numbered
  <2>4. \A x : x \in bodies' <=> \E i \in 1 .. Len(links) - 1 : x = links[i]
    BY <2>1, <2>2, <2>3
  <2>5. \A x : x \in bodies' <=> \E i \in 1 .. Len(links') : x = links'[i]
    BY <2>2, <2>4
  <2> QED
    BY <2>5
<1> QED
  BY <1>2, <1>3

\* The links that wait for their delayed call are the links on the stack.
LEMMA NextBodies ==
  ASSUME Typed, Levels, Numbered, BodiesAreHeld, [OpenNext]_openVars
  PROVE  BodiesAreHeld'
<1>1. links \in Seq(Nat) /\ Len(links) \in Nat /\ total \in Nat
  BY DEF Numbered
<1> USE DEF BodiesAreHeld, Filled, Walking
<1>2. CASE Around
  BY <1>2 DEF Around, Outside, Still
<1>3. CASE Begins
  <2>1. links = <<>> /\ bodies = {}
    BY <1>3 DEF Begins, Levels
  <2>2. links' = <<>> /\ bodies' = {} /\ pc' = "enter"
    BY <1>3, <2>1 DEF Begins, Still
  <2> QED
    BY <2>2
<1>4. CASE Proceeds
  BY <1>4 DEF Proceeds, Still
<1>5. CASE Ends
  <2>1. bodies \subseteq {links[i] : i \in 1 .. Len(links)}
    BY <1>1, <1>5 DEF Ends
  <2> QED
    BY <1>5, <2>1 DEF Ends
<1>6. CASE Puts
  <2>1. bodies = {links[i] : i \in 1 .. Len(links)} /\ pc' \in {"step", "stepped", "terminate"}
    BY <1>6 DEF Puts
  <2>2. bodies' = {links'[i] : i \in 1 .. Len(links')}
    <3>1. CASE PopLink
      BY <2>1, <3>1, PoppedBodies
    <3>2. CASE UNCHANGED <<links, bodies>>
      BY <2>1, <3>2
    <3> QED
      BY <1>6, <3>1, <3>2 DEF Puts, PutLink
  <2> QED
    BY <2>1, <2>2
<1>7. CASE walk_nested
  BY <1>7 DEF walk_nested
<1>8. CASE pick_link
  <2>1. /\ pc = "pick" /\ pc' \in {"get_link", "terminate"}
        /\ links' = Append(links, total + 1) /\ UNCHANGED bodies
    BY <1>8 DEF pick_link, PushLink, Fail
  <2>2. /\ Len(links') = Len(links) + 1
        /\ \A i \in 1 .. Len(links) : links'[i] = links[i]
    BY <1>1, <2>1
  <2>3. \A x : x \in bodies' <=> \E i \in 1 .. Len(links) : x = links'[i]
    BY <2>1, <2>2
  <2>4. bodies' = {links'[i] : i \in 1 .. Len(links') - 1}
        /\ bodies' \subseteq {links'[i] : i \in 1 .. Len(links')}
    BY <1>1, <2>2, <2>3
  <2> QED
    BY <2>1, <2>4
<1>9. CASE get_link
  <2>1. pc = "get_link" /\ bodies = {links[i] : i \in 1 .. Len(links) - 1}
    BY <1>9 DEF get_link
  <2>2. Len(links) \in Nat \ {0} /\ links # <<>> /\ links[Len(links)] = total
    <3>1. names \in Seq(Text) /\ Base \subseteq {0, 1}
      BY DEF Typed, Spelled, Base
    <3>2. Len(links) - 1 - Len(names) \in {0, 1}
      BY <2>1, <3>1 DEF Levels, Held
    <3> QED
      BY <1>1, <2>1, <3>1, <3>2 DEF Numbered
  <2>3. CASE bodies' = bodies \cup {total} /\ UNCHANGED links
    <3>1. \A i \in 1 .. Len(links) : i \in 1 .. Len(links) - 1 \/ i = Len(links)
      BY <2>2
    <3>2. \A x : x \in bodies' <=> \E i \in 1 .. Len(links) : x = links[i]
      BY <2>1, <2>2, <2>3, <3>1
    <3>3. bodies' = {links'[i] : i \in 1 .. Len(links')}
      BY <2>3, <3>2
    <3>4. pc' \in {"terminate", "enter", "walk"}
          \/ links' = SubSeq(links, 1, Len(links) - 1)
      BY <1>9 DEF get_link, Fail
    <3>5. links # SubSeq(links, 1, Len(links) - 1)
      BY <1>1, <2>2, Front
    <3> QED
      BY <2>3, <3>3, <3>4, <3>5
  <2>4. CASE UNCHANGED bodies /\ links' = SubSeq(links, 1, Len(links) - 1)
             /\ pc' = "stepped"
    <3>1. /\ Len(links') = Len(links) - 1
          /\ \A i \in 1 .. Len(links) - 1 : links'[i] = links[i]
      BY <1>1, <2>2, <2>4, Front
    <3>2. \A x : x \in bodies' <=> \E i \in 1 .. Len(links') : x = links'[i]
      BY <2>1, <2>4, <3>1
    <3> QED
      BY <2>4, <3>2
  <2> QED
    BY <1>9, <2>3, <2>4 DEF get_link
<1>10. CASE terminate_walk
  BY <1>10 DEF terminate_walk
<1>11. CASE UNCHANGED openVars
  BY <1>11 DEF openVars, vars, stack
<1> QED
  BY <1>2, <1>3, <1>4, <1>5, <1>6, <1>7, <1>8, <1>9, <1>10, <1>11, StackSteps

-----------------------------------------------------------------------------
(* The texts.                                                              *)

\* The levels a walk will come back to are levels it holds.
LEMMA Depths ==
  ASSUME Typed, Levels, Numbered, pc \in Walking
  PROVE  /\ names \in Seq(Text) /\ links \in Seq(Nat)
         /\ Len(links) \in Nat /\ Len(names) \in Nat /\ Held \in Nat
         /\ Held - Len(names) \in {0, 1} /\ Held <= Len(links)
         /\ "PARENT" \in flags => Held = Len(names)
<1>1. /\ names \in Seq(Text) /\ Len(names) \in Nat
      /\ links \in Seq(Nat) /\ Len(links) \in Nat
  BY DEF Typed, Spelled, Numbered
<1>2. Held - Len(names) \in Base
  BY DEF Levels
<1>3. Held \in {Len(links), Len(links) - 1}
  BY DEF Held
<1> QED
  BY <1>1, <1>2, <1>3 DEF Base

\* A step that keeps the levels a walk holds keeps what the names lie in.
LEMMA TextsStay ==
  ASSUME Typed, Levels, Numbered, Texts, pc \in Walking, Within,
         Held' = Held, name'.src = name.src, UNCHANGED names,
         \A i \in 1 .. Held : links'[i] = links[i]
  PROVE  /\ name'.src = Src(Held)'
         /\ \A i \in 1 .. Len(names') :
              names'[i].src = Src(Held - Len(names) + i - 1)'
<1>1. /\ Len(names) \in Nat /\ Held \in Nat /\ Held - Len(names) \in {0, 1}
  BY Depths
<1>2. \A i \in 0 .. Held : (IF i = 0 THEN 0 ELSE links'[i]) = Src(i)
  BY <1>1 DEF Src
<1>3. name'.src = Src(Held)'
  BY <1>1, <1>2 DEF Texts, Src
<1>4. ASSUME NEW i \in 1 .. Len(names')
      PROVE  names'[i].src = Src(Held - Len(names) + i - 1)'
  <2>1. i \in 1 .. Len(names) /\ Held - Len(names) + i - 1 \in 0 .. Held
    BY <1>1
  <2>2. names[i].src = Src(Held - Len(names) + i - 1)
    BY <2>1 DEF Texts
  <2> QED
    BY <1>2, <2>1, <2>2 DEF Src
<1> QED
  BY <1>3, <1>4

\* The steps after which a text is still to be read.
LEMMA ReadingSteps ==
  ASSUME [OpenNext]_openVars, pc' \in Walking \ {"complete"}
  PROVE  \/ __filename_lookup \/ retry \/ link_path_walk
         \/ walk_more \/ walk_nested \/ walk_last
         \/ handle_dots \/ lookup \/ lookup_misses \/ step_into \/ stepped
         \/ pick_link \/ get_link
         \/ /\ pc = "last" /\ pc' = "lookup" /\ how' = "trailing"
            /\ UNCHANGED <<last, links>>
         \/ UNCHANGED openVars
<1> USE DEF Walking, Fail
<1>1. CASE namei_lookup \/ vfs_openat_api
  BY <1>1 DEF namei_lookup, vfs_openat_api
<1>2. CASE getname \/ getname_long \/ recopy \/ getname_fails
  BY <1>2 DEF getname, getname_long, recopy, getname_fails
<1>3. CASE Walk
  <2>1. ~lookup_fails /\ ~step_negative /\ ~step_refused /\ ~get_link_fails
    BY DEF lookup_fails, step_negative, step_refused, get_link_fails
  <2>2. ~reserve_loop /\ ~reserve_fails /\ ~terminate_walk
    BY DEF reserve_loop, reserve_fails, terminate_walk
  <2> QED
    BY <1>3, <2>1, <2>2 DEF Walk
<1>4. CASE LookupEnd
  BY <1>4 DEF LookupEnd, lookup_last, path_parentat, complete_walk, stack
<1>5. CASE open_last_dots \/ open_last_plain \/ open_last_exists
  BY <1>5 DEF open_last_dots, open_last_plain, open_last_exists, AtLast, stack
<1>6. CASE open_last_miss \/ open_last_isdir \/ open_create_fails
  BY <1>6 DEF open_last_miss, open_last_isdir, open_create_fails
<1>7. CASE open_create \/ open_create_again \/ open_create_over \/ do_open
  BY <1>7 DEF open_create, open_create_again, open_create_over, do_open
<1>8. CASE do_o_path \/ call_returns
  BY <1>8 DEF do_o_path, Looked, call_returns, return
<1> QED
  BY <1>1, <1>2, <1>3, <1>4, <1>5, <1>6, <1>7, <1>8 DEF OpenNext, OpenStep

\* The name being walked lies in the last link that is held, and every name
\* that was saved in the one before the link that led away from it.
LEMMA NextTexts ==
  ASSUME Typed, Levels, Numbered, Texts, [OpenNext]_openVars
  PROVE  Texts'
<1> SUFFICES ASSUME pc' \in Walking \ {"complete"}
             PROVE  Texts'
  BY DEF Texts, Within, Walking
<1>1. links \in Seq(Nat) /\ names \in Seq(Text) /\ name \in Text
      /\ Len(links) \in Nat /\ Len(names) \in Nat
  BY DEF Numbered, Typed, Spelled
<1>2. CASE __filename_lookup \/ retry
  <2>1. links = <<>>
    BY <1>2 DEF __filename_lookup, retry, Levels, Walking
  <2>2. /\ pc' = "enter" /\ names' = <<>> /\ links' = <<>> /\ name'.src = 0
    BY <1>2, <2>1 DEF __filename_lookup, retry, path_init
  <2>3. Held' = 0 /\ Len(names') = 0
    BY <2>2 DEF Held
  <2> QED
    BY <2>2, <2>3 DEF Texts, Src
<1>3. CASE link_path_walk
  <2>1. /\ pc = "enter" /\ pc' \in {"last", "walk"} /\ last'.src = 0
        /\ UNCHANGED <<name, links>> /\ names' = <<>>
    BY <1>3 DEF link_path_walk
  <2>2. UNCHANGED names
    BY <2>1 DEF Levels
  <2>3. Held' = Held /\ Within
    BY <2>1 DEF Held, Within
  <2> QED
    BY <2>1, <2>2, <2>3, TextsStay DEF Texts, Walking
<1>4. CASE walk_more
  <2>1. /\ pc = "walk" /\ pc' = "lookup" /\ how' = "more"
        /\ UNCHANGED <<names, links>>
        /\ last'.src = name.src /\ name'.src = name.src
    BY <1>1, <1>4 DEF walk_more, TakeComponent, stack, Text
  <2>2. Held' = Held /\ Held = Len(links) /\ Within
    BY <2>1 DEF Held, Within
  <2>3. last'.src = Src(Len(links))'
    BY <2>1, <2>2 DEF Texts, Src
  <2> QED
    BY <2>1, <2>2, <2>3, TextsStay DEF Texts, Walking
<1>5. CASE walk_nested
  <2>1. /\ pc = "walk" /\ pc' = "lookup" /\ how' = "nested" /\ UNCHANGED links
        /\ last'.src = name.src /\ name' = names[Len(names)] /\ names # <<>>
        /\ names' = SubSeq(names, 1, Len(names) - 1)
    BY <1>5 DEF walk_nested, TakeComponent
  <2>2. /\ Held = Len(links) /\ Held' = Len(links) - 1 /\ Within
        /\ Held - Len(names) \in {0, 1}
    BY <2>1, Depths DEF Held, Within, Walking
  <2>3. /\ Len(names) \in Nat \ {0} /\ Len(names') = Len(names) - 1
        /\ \A i \in 1 .. Len(names) - 1 : names'[i] = names[i]
    BY <1>1, <2>1, Front
  <2>4. last'.src = Src(Len(links))'
    BY <2>1, <2>2 DEF Texts, Src
  <2>5. name'.src = Src(Held)'
    <3>1. name'.src = Src(Held - Len(names) + Len(names) - 1)
      BY <2>1, <2>2, <2>3 DEF Texts
    <3>2. Held - Len(names) + Len(names) - 1 = Len(links) - 1
      BY <1>1, <2>2, <2>3
    <3> QED
      BY <2>1, <2>2, <3>1, <3>2 DEF Src
  <2>6. ASSUME NEW i \in 1 .. Len(names')
        PROVE  names'[i].src = Src(Held - Len(names) + i - 1)'
    <3>1. i \in 1 .. Len(names) /\ names'[i] = names[i]
      BY <2>3
    <3>2. names'[i].src = Src(Held - Len(names) + i - 1)
      BY <2>2, <3>1 DEF Texts
    <3>3. Held' - Len(names') + i - 1 = Held - Len(names) + i - 1
      BY <1>1, <2>2, <2>3
    <3> QED
      BY <2>1, <3>2, <3>3 DEF Src
  <2> QED
    BY <2>1, <2>4, <2>5, <2>6 DEF Texts
<1>6. CASE walk_last
  <2>1. /\ pc = "walk" /\ pc' = "last" /\ last'.src = name.src /\ UNCHANGED links
    BY <1>6 DEF walk_last, TakeComponent, stack
  <2> QED
    BY <2>1 DEF Texts, Within, Held, Src
<1>7. CASE handle_dots \/ lookup \/ lookup_misses
  <2>1. /\ pc = "lookup" /\ pc' \in {"step", "stepped"}
        /\ UNCHANGED <<how, name, names>> /\ PutLink
    BY <1>7 DEF handle_dots, lookup, lookup_misses, Fail, Walking
  <2>2. CASE how = "trailing"
    BY <2>1, <2>2 DEF Texts, Within
  <2>3. CASE how = "more"
    <3>1. UNCHANGED links /\ Held' = Held /\ Within
      BY <2>1, <2>3 DEF PutLink, Held, Within
    <3> QED
      BY <2>1, <2>3, <3>1, TextsStay DEF Texts, Within, Walking
  <2>4. CASE how = "nested"
    <3>1. PopLink /\ Held = Len(links) - 1 /\ Held' = Len(links') /\ Within
      BY <2>1, <2>4 DEF PutLink, Held, Within
    <3>2. Held \in Nat
      BY <2>1, Depths DEF Walking
    <3>3. Held' = Held /\ \A i \in 1 .. Held : links'[i] = links[i]
      BY <1>1, <3>1, <3>2, Popped
    <3> QED
      BY <2>1, <2>4, <3>1, <3>3, TextsStay DEF Texts, Within, Walking
  <2> QED
    BY <2>2, <2>3, <2>4 DEF Typed, Spelled
<1>8. CASE step_into \/ stepped
  <2>1. /\ pc \in {"step", "stepped"} /\ pc' \in {"pick", "stepped", "walk"}
        /\ UNCHANGED <<how, name, names, links>>
        /\ how = "trailing" => pc' # "walk"
    BY <1>8 DEF step_into, stepped, Fail, Walking, stack
  <2>2. CASE how = "trailing"
    BY <2>1, <2>2 DEF Texts, Within
  <2>3. CASE how # "trailing"
    <3>1. Held' = Held /\ Within
      BY <2>1, <2>3 DEF Held, Within
    <3> QED
      BY <2>1, <3>1, TextsStay DEF Texts, Walking
  <2> QED
    BY <2>2, <2>3
<1>9. CASE pick_link
  <2>1. /\ pc = "pick" /\ pc' = "get_link" /\ links' = Append(links, total + 1)
        /\ UNCHANGED <<how, name, names>>
    BY <1>9 DEF pick_link, PushLink, Fail, Walking
  <2>2. CASE how = "trailing"
    BY <2>1, <2>2 DEF Texts, Within
  <2>3. CASE how # "trailing"
    <3>1. /\ Len(links') = Len(links) + 1
          /\ \A i \in 1 .. Len(links) : links'[i] = links[i]
      BY <1>1, <2>1 DEF Numbered
    <3>2. Held = Len(links) /\ Held' = Held /\ Within
      BY <1>1, <2>1, <2>3, <3>1 DEF Held, Within
    <3> QED
      BY <2>1, <3>1, <3>2, TextsStay DEF Texts, Walking
  <2> QED
    BY <2>2, <2>3
<1>10. CASE get_link
  <2> DEFINE body == Body[next.dentry]
  <2>1. pc = "get_link" /\ ~JumpRefused(body) /\ how' = how
    BY <1>10 DEF get_link, Fail, Walking
  <2>2. /\ Held = Len(links) - 1 /\ Held \in Nat
        /\ Held - Len(names) \in {0, 1} /\ links[Len(links)] = total
    BY <2>1, Depths DEF Held, Walking, Numbered
  <2>3. CASE body.comps = <<>>
    <3>1. /\ pc' = "stepped" /\ UNCHANGED <<name, names>>
          /\ links' = SubSeq(links, 1, Len(links) - 1)
      BY <1>10, <2>1, <2>3 DEF get_link
    <3>2. CASE how = "trailing"
      BY <2>1, <3>1, <3>2 DEF Texts, Within
    <3>3. CASE how # "trailing"
      <4>1. links # <<>>
        BY <1>1, <2>2
      <4>2. Held' = Held /\ \A i \in 1 .. Held : links'[i] = links[i]
        BY <1>1, <2>2, <3>1, <4>1, Front DEF Held
      <4>3. Within
        BY <2>1, <3>3 DEF Within
      <4> QED
        BY <2>1, <3>1, <4>2, <4>3, TextsStay DEF Texts, Walking
    <3> QED
      BY <3>2, <3>3
  <2>4. CASE body.comps # <<>>
    <3>1. name'.src = total /\ UNCHANGED links
      BY <1>10, <2>1, <2>4 DEF get_link
    <3>2. CASE how = "trailing"
      <4>1. pc' = "enter" /\ UNCHANGED names
        BY <1>10, <2>1, <2>4, <3>2 DEF get_link
      <4>2. names = <<>> /\ Held' = Len(links)
        BY <2>1, <3>1, <3>2, <4>1 DEF Levels, Held
      <4>3. name'.src = Src(Held)'
        BY <1>1, <2>2, <3>1, <4>2 DEF Src
      <4> QED
        BY <1>1, <4>1, <4>2, <4>3 DEF Texts
    <3>3. CASE how # "trailing"
      <4>1. pc' = "walk" /\ names' = Append(names, name)
        BY <1>10, <2>1, <2>4, <3>3 DEF get_link
      <4>2. Held' = Held + 1 /\ Held' = Len(links) /\ Within
        BY <1>1, <2>1, <2>2, <3>1, <3>3, <4>1 DEF Held, Within
      <4>3. /\ Len(names') = Len(names) + 1
            /\ \A i \in 1 .. Len(names) : names'[i] = names[i]
            /\ names'[Len(names) + 1] = name
        BY <1>1, <4>1
      <4>4. name'.src = Src(Held)'
        BY <1>1, <2>2, <3>1, <4>2 DEF Src
      <4>5. ASSUME NEW i \in 1 .. Len(names')
            PROVE  names'[i].src = Src(Held - Len(names) + i - 1)'
        <5>1. Held' - Len(names') + i - 1 = Held - Len(names) + i - 1
          BY <1>1, <2>2, <4>2, <4>3
        <5>2. names'[i].src = Src(Held - Len(names) + i - 1)
          <6>1. CASE i \in 1 .. Len(names)
            BY <4>2, <4>3, <6>1 DEF Texts
          <6>2. CASE i = Len(names) + 1
            <7>1. Held - Len(names) + i - 1 = Held
              BY <1>1, <2>2, <6>2
            <7> QED
              BY <4>2, <4>3, <6>2, <7>1 DEF Texts
          <6> QED
            BY <1>1, <4>3, <6>1, <6>2
        <5> QED
          BY <3>1, <5>1, <5>2 DEF Src
      <4> QED
        BY <4>1, <4>4, <4>5 DEF Texts
    <3> QED
      BY <3>2, <3>3
  <2> QED
    BY <2>3, <2>4
<1>11. CASE pc = "last" /\ pc' = "lookup" /\ how' = "trailing"
            /\ UNCHANGED <<last, links>>
  BY <1>11 DEF Texts, Within, Src
<1>12. CASE UNCHANGED openVars
  BY <1>12 DEF openVars, vars, stack, Texts, Within, Held, Src
<1> QED
  BY <1>2, <1>3, <1>4, <1>5, <1>6, <1>7, <1>8, <1>9, <1>10, <1>11, <1>12, ReadingSteps

-----------------------------------------------------------------------------
(***************************************************************************)
(* Recursion.  The climbs over piled mounts call themselves as the last    *)
(* thing they do.  Such a definition always has a solution: what the chain *)
(* of calls ends with, if it ends.                                         *)
(***************************************************************************)
Solves(A, stop, step, res, f) ==
  f = [a \in A |-> IF a \in stop THEN res[a] ELSE f[step[a]]]

\* c is the chain of n calls that begins at a.
Chain(A, stop, step, a, n, c) ==
  /\ n \in Nat /\ c \in [0 .. n -> A]
  /\ c[0] = a /\ c[n] \in stop
  /\ \A i \in 0 .. n - 1 : c[i] \notin stop /\ c[i + 1] = step[c[i]]

ChainEnds(A, stop, step, a) ==
  {e \in stop : \E n \in Nat : \E c \in [0 .. n -> A] :
                  Chain(A, stop, step, a, n, c) /\ e = c[n]}

LEMMA TailRecursion ==
  ASSUME NEW A, NEW stop \in SUBSET A, NEW step, NEW res,
         \A a \in A \ stop : step[a] \in A
  PROVE  \E f : Solves(A, stop, step, res, f)
<1> DEFINE end(a) == CHOOSE e : e \in ChainEnds(A, stop, step, a)
           f == [a \in A |-> res[end(a)]]
<1>1. ASSUME NEW a \in stop
      PROVE  ChainEnds(A, stop, step, a) = {a}
  <2>1. ASSUME NEW e \in ChainEnds(A, stop, step, a)
        PROVE  e = a
    <3>1. PICK n \in Nat : \E c \in [0 .. n -> A] :
                             Chain(A, stop, step, a, n, c) /\ e = c[n]
      BY <2>1 DEF ChainEnds
    <3>2. PICK c \in [0 .. n -> A] : Chain(A, stop, step, a, n, c) /\ e = c[n]
      BY <3>1
    <3>3. n = 0
      BY <3>2 DEF Chain
    <3> QED
      BY <3>2, <3>3 DEF Chain
  <2>2. a \in ChainEnds(A, stop, step, a)
    <3> DEFINE d == [i \in 0 .. 0 |-> a]
    <3>1. d \in [0 .. 0 -> A] /\ d[0] = a
      OBVIOUS
    <3>2. Chain(A, stop, step, a, 0, d)
      BY DEF Chain
    <3> HIDE DEF d
    <3>3. \E c \in [0 .. 0 -> A] : Chain(A, stop, step, a, 0, c) /\ a = c[0]
      BY <3>1, <3>2
    <3> QED
      BY <3>3 DEF ChainEnds
  <2> QED
    BY <2>1, <2>2
<1>2. ASSUME NEW a \in A, a \notin stop
      PROVE  ChainEnds(A, stop, step, a) = ChainEnds(A, stop, step, step[a])
  <2>1. ASSUME NEW e \in ChainEnds(A, stop, step, a)
        PROVE  e \in ChainEnds(A, stop, step, step[a])
    <3>1. PICK n \in Nat : \E c \in [0 .. n -> A] :
                             Chain(A, stop, step, a, n, c) /\ e = c[n]
      BY <2>1 DEF ChainEnds
    <3>2. PICK c \in [0 .. n -> A] : Chain(A, stop, step, a, n, c) /\ e = c[n]
      BY <3>1
    <3>3. n # 0
      BY <1>2, <3>2 DEF Chain
    <3>4. PICK m \in Nat : n = m + 1
      <4>1. n - 1 \in Nat /\ n = (n - 1) + 1
        BY <3>3
      <4> QED
        BY <4>1
    <3> DEFINE d == [i \in 0 .. m |-> c[i + 1]]
    <3>5. d \in [0 .. m -> A]
      BY <3>4
    <3>6. Chain(A, stop, step, step[a], m, d)
      BY <3>2, <3>4, <3>5 DEF Chain
    <3>7. e = d[m] /\ e \in stop
      BY <3>2, <3>4 DEF Chain
    <3> HIDE DEF d
    <3> QED
      BY <3>5, <3>6, <3>7 DEF ChainEnds
  <2>2. ASSUME NEW e \in ChainEnds(A, stop, step, step[a])
        PROVE  e \in ChainEnds(A, stop, step, a)
    <3>1. PICK n \in Nat : \E c \in [0 .. n -> A] :
                             Chain(A, stop, step, step[a], n, c) /\ e = c[n]
      BY <2>2 DEF ChainEnds
    <3>2. PICK c \in [0 .. n -> A] :
            Chain(A, stop, step, step[a], n, c) /\ e = c[n]
      BY <3>1
    <3> DEFINE d == [i \in 0 .. n + 1 |-> IF i = 0 THEN a ELSE c[i - 1]]
    <3>3. d \in [0 .. n + 1 -> A]
      OBVIOUS
    <3>4. Chain(A, stop, step, a, n + 1, d)
      BY <1>2, <3>2, <3>3 DEF Chain
    <3>5. e = d[n + 1] /\ e \in stop
      BY <3>2 DEF Chain
    <3> HIDE DEF d
    <3> QED
      BY <3>3, <3>4, <3>5 DEF ChainEnds
  <2> QED
    BY <2>1, <2>2
<1>3. \A a \in A : f[a] = IF a \in stop THEN res[a] ELSE f[step[a]]
  <2>1. \A a \in stop : f[a] = res[a]
    BY <1>1
  <2>2. \A a \in A \ stop : f[a] = f[step[a]]
    BY <1>2
  <2> HIDE DEF end
  <2> QED
    BY <2>1, <2>2
<1>4. f = [a \in A |-> f[a]]
  OBVIOUS
<1> HIDE DEF f
<1>5. Solves(A, stop, step, res, f)
  BY <1>3, <1>4 DEF Solves
<1> QED
  BY <1>5

\* A set of numbers has a least one: what replaces induction below.
LEMMA Least ==
  ASSUME NEW T \in SUBSET Nat, T # {}
  PROVE  \E n \in T : \A m \in T : n <= m
<1>1. IsWellFoundedOn(OpToRel(<, Nat), Nat)
  BY NatLessThanWellFounded
<1>2. PICK n \in T : \A m \in T : ~ (<<m, n>> \in OpToRel(<, Nat))
  BY <1>1, WFMin
<1>3. \A m \in T : ~ (m < n)
  BY <1>2 DEF OpToRel
<1> QED
  BY <1>3

-----------------------------------------------------------------------------
(* Piled mounts.                                                           *)

\* A depth of each mount, which ForestAssumption says there is.
Depth ==
  CHOOSE depth \in [Mounts -> 0 .. Cardinality(Mounts)] :
    \A m \in Mounts : Place[m] # MountRoot(m) => depth[Place[m].mnt] < depth[m]

LEMMA DepthGrows ==
  /\ Cardinality(Mounts) \in Nat
  /\ \A m \in Mounts : Depth[m] \in Nat /\ Depth[m] <= Cardinality(Mounts)
  /\ \A m \in Mounts : /\ Place[m] \in Locations /\ MountRoot(m) \in Locations
                       /\ Place[m].mnt \in Mounts
                       /\ Place[m] # MountRoot(m) => Depth[Place[m].mnt] < Depth[m]
<1>1. Cardinality(Mounts) \in Nat
  BY ForestAssumption, FS_CardinalityType
<1>2. /\ Depth \in [Mounts -> 0 .. Cardinality(Mounts)]
      /\ \A m \in Mounts : Place[m] # MountRoot(m) => Depth[Place[m].mnt] < Depth[m]
  BY ForestAssumption DEF Depth
<1>3. \A m \in Mounts : Depth[m] \in Nat /\ Depth[m] <= Cardinality(Mounts)
  BY <1>1, <1>2
<1>4. \A m \in Mounts : /\ Place[m] \in Locations /\ MountRoot(m) \in Locations
                        /\ Place[m].mnt \in Mounts
  BY TreeAssumption DEF Locations, MountRoot
<1> QED
  BY <1>1, <1>2, <1>3, <1>4

\* The mount on another's root is deeper.
LEMMA OverIsDeeper ==
  ASSUME NEW p \in Locations, NEW n \in Over(p)
  PROVE  n \in Mounts /\ Depth[p.mnt] < Depth[n] /\ p.mnt \in Mounts
<1>1. n \in Mounts /\ Place[n] = p /\ Place[n] # MountRoot(n)
  BY DEF Over, MountRoot
<1> QED
  BY <1>1, DepthGrows DEF Locations

LEMMA TopMountDef ==
  \A m \in Mounts :
    TopMount[m] = IF Over(MountRoot(m)) = {} THEN m
                  ELSE TopMount[CHOOSE n \in Over(MountRoot(m)) : TRUE]
<1> DEFINE stop == {m \in Mounts : Over(MountRoot(m)) = {}}
           step == [m \in Mounts |-> CHOOSE n \in Over(MountRoot(m)) : TRUE]
           res == [m \in Mounts |-> m]
<1>1. \A m \in Mounts \ stop : step[m] \in Mounts
  BY DEF Over
<1>2. PICK f : Solves(Mounts, stop, step, res, f)
  <2>1. stop \in SUBSET Mounts
    OBVIOUS
  <2> HIDE DEF stop, step, res
  <2> QED
    BY <1>1, <2>1, TailRecursion
<1>3. \A m \in Mounts : f[m] = IF Over(MountRoot(m)) = {} THEN m
                               ELSE f[CHOOSE n \in Over(MountRoot(m)) : TRUE]
  BY <1>2 DEF Solves
<1>4. f = [m \in Mounts |-> f[m]]
  BY <1>2 DEF Solves
<1> HIDE DEF stop, step, res
<1>5. f = [m \in Mounts |-> IF Over(MountRoot(m)) = {} THEN m
                            ELSE f[CHOOSE n \in Over(MountRoot(m)) : TRUE]]
  BY <1>3, <1>4
<1>6. TopMount = [m \in Mounts |-> IF Over(MountRoot(m)) = {} THEN m
                               ELSE TopMount[CHOOSE n \in Over(MountRoot(m)) : TRUE]]
  BY <1>5 DEF TopMount
<1> QED
  BY <1>6

\* The climb to the top of a pile ends, at a mount at least as deep.
LEMMA TopMountIsMount ==
  ASSUME NEW m \in Mounts
  PROVE  TopMount[m] \in Mounts /\ Depth[m] <= Depth[TopMount[m]]
<1> DEFINE Good(n) == TopMount[n] \in Mounts /\ Depth[n] <= Depth[TopMount[n]]
           N == Cardinality(Mounts)
           T == {N - Depth[n] : n \in {k \in Mounts : ~Good(k)}}
<1> SUFFICES ASSUME ~Good(m)
             PROVE  FALSE
  OBVIOUS
<1>1. T \in SUBSET Nat /\ T # {}
  BY DepthGrows
<1>2. PICK d \in T : \A e \in T : d <= e
  <2> HIDE DEF T
  <2> QED
    BY <1>1, Least
<1>3. PICK n \in Mounts : ~Good(n) /\ d = N - Depth[n]
  BY <1>2
<1>4. Over(MountRoot(n)) # {}
  BY <1>3, TopMountDef, DepthGrows
<1>5. PICK k : k = CHOOSE i \in Over(MountRoot(n)) : TRUE
  OBVIOUS
<1>6. k \in Over(MountRoot(n)) /\ TopMount[n] = TopMount[k]
  BY <1>4, <1>5, TopMountDef
<1>7. k \in Mounts /\ Depth[n] < Depth[k]
  BY <1>6, OverIsDeeper, DepthGrows DEF MountRoot
<1>8. ~Good(k)
  BY <1>3, <1>6, <1>7, DepthGrows
<1>9. N - Depth[k] \in T
  BY <1>7, <1>8
<1> HIDE DEF T
<1>10. d <= N - Depth[k]
  BY <1>2, <1>9
<1> QED
  BY <1>3, <1>7, <1>10, DepthGrows

\* Crossing mounts upward ends at a place in the tree, and in another mount
\* unless there was nothing to cross.
LEMMA TraverseIsPlaced ==
  ASSUME NEW p \in Locations
  PROVE  /\ Traverse(p) \in Locations
         /\ Traverse(p).mnt = p.mnt => Traverse(p) = p
         /\ Traverse(p) # p => \E m \in Mounts : Traverse(p).dentry = RootOf[m]
<1>1. CASE Over(p) = {}
  BY <1>1 DEF Traverse
<1>2. CASE Over(p) # {}
  <2>1. PICK m : m = CHOOSE n \in Over(p) : TRUE
    OBVIOUS
  <2>2. m \in Over(p)
    BY <1>2, <2>1
  <2>3. m \in Mounts /\ p.mnt \in Mounts /\ Depth[p.mnt] < Depth[m]
    BY <2>2, OverIsDeeper
  <2>4. TopMount[m] \in Mounts /\ Depth[m] <= Depth[TopMount[m]]
    BY <2>3, TopMountIsMount
  <2>5. MountRoot(TopMount[m]) \in Locations
    BY <2>4, DepthGrows
  <2>6. MountRoot(TopMount[m]).mnt # p.mnt
    BY <2>3, <2>4, DepthGrows DEF MountRoot
  <2>7. MountRoot(TopMount[m]).dentry = RootOf[TopMount[m]]
    BY DEF MountRoot
  <2>8. Traverse(p) = MountRoot(TopMount[m])
    BY <1>2, <2>1 DEF Traverse
  <2> QED
    BY <2>4, <2>5, <2>6, <2>7, <2>8
<1> QED
  BY <1>1, <1>2

\* One step of choose_mountpoint.
Stepping(top, m) ==
  IF Place[m] = MountRoot(m) \/ Place[m] = top THEN Nowhere
  ELSE IF Place[m].dentry # RootOf[Place[m].mnt] THEN Place[m]
  ELSE Mountpoint[<<top, Place[m].mnt>>]

LEMMA MountpointDef ==
  \A top \in Roots, m \in Mounts : Mountpoint[<<top, m>>] = Stepping(top, m)
<1> DEFINE A == Roots \X Mounts
           out(w) == Place[w[2]] = MountRoot(w[2]) \/ Place[w[2]] = w[1]
           found(w) == Place[w[2]].dentry # RootOf[Place[w[2]].mnt]
           stop == {w \in A : out(w) \/ found(w)}
           step == [w \in A |-> <<w[1], Place[w[2]].mnt>>]
           res == [w \in A |-> IF out(w) THEN Nowhere ELSE Place[w[2]]]
<1>1. \A w \in A \ stop : step[w] \in A
  BY DepthGrows
<1>2. PICK f : Solves(A, stop, step, res, f)
  <2>1. stop \in SUBSET A
    OBVIOUS
  <2> HIDE DEF A, stop, step, res
  <2> QED
    BY <1>1, <2>1, TailRecursion
<1>3. \A w \in A : f[w] = IF out(w) THEN Nowhere
                          ELSE IF found(w) THEN Place[w[2]] ELSE f[<<w[1], Place[w[2]].mnt>>]
  <2> HIDE DEF A, out, found
  <2> QED
    BY <1>2 DEF Solves
<1>4. f = [w \in A |-> f[w]]
  <2> HIDE DEF A, stop, step, res
  <2> QED
    BY <1>2 DEF Solves
<1> HIDE DEF stop, step, res
<1>5. f = [w \in A |-> IF out(w) THEN Nowhere
                       ELSE IF found(w) THEN Place[w[2]] ELSE f[<<w[1], Place[w[2]].mnt>>]]
  <2> HIDE DEF A, out, found
  <2> QED
    BY <1>3, <1>4
<1>6. Mountpoint =
        [w \in A |-> IF out(w) THEN Nowhere
                     ELSE IF found(w) THEN Place[w[2]]
                     ELSE Mountpoint[<<w[1], Place[w[2]].mnt>>]]
  BY <1>5 DEF Mountpoint
<1>7. ASSUME NEW top \in Roots, NEW m \in Mounts
      PROVE  Mountpoint[<<top, m>>] = Stepping(top, m)
  BY <1>6, <1>7 DEF Stepping
<1> QED
  BY <1>7

\* The climb down ends too, at a less deep mount or nowhere.
LEMMA MountpointIsPlaced ==
  ASSUME NEW top \in Roots, NEW m \in Mounts, Mountpoint[<<top, m>>] # Nowhere
  PROVE  /\ Mountpoint[<<top, m>>] \in Locations
         /\ Depth[Mountpoint[<<top, m>>].mnt] < Depth[m]
<1> DEFINE z(n) == Mountpoint[<<top, n>>]
           Good(n) == z(n) # Nowhere => z(n) \in Locations /\ Depth[z(n).mnt] < Depth[n]
           T == {Depth[n] : n \in {k \in Mounts : ~Good(k)}}
<1> SUFFICES ASSUME ~Good(m)
             PROVE  FALSE
  OBVIOUS
<1>1. T \in SUBSET Nat /\ T # {}
  BY DepthGrows
<1>2. PICK d \in T : \A e \in T : d <= e
  <2> HIDE DEF T
  <2> QED
    BY <1>1, Least
<1>3. PICK n \in Mounts : ~Good(n) /\ d = Depth[n]
  BY <1>2
<1>4. z(n) = Stepping(top, n)
  BY MountpointDef
<1>5. Place[n] # MountRoot(n) /\ z(n) = z(Place[n].mnt)
  BY <1>3, <1>4, DepthGrows DEF Stepping
<1>6. Place[n].mnt \in Mounts /\ Depth[Place[n].mnt] < Depth[n]
  BY <1>5, DepthGrows
<1>7. ~Good(Place[n].mnt)
  <2> SUFFICES ASSUME Good(Place[n].mnt)
               PROVE  Good(n)
    BY <1>3
  <2>1. CASE z(n) = Nowhere
    BY <2>1
  <2>2. CASE z(n) # Nowhere
    <3>1. z(n) \in Locations /\ Depth[z(n).mnt] < Depth[Place[n].mnt]
      BY <1>5, <2>2
    <3>2. z(n).mnt \in Mounts
      BY <3>1 DEF Locations
    <3> QED
      BY <1>6, <3>1, <3>2, DepthGrows
  <2> QED
    BY <2>1, <2>2
<1>8. Depth[Place[n].mnt] \in T
  BY <1>6, <1>7
<1> HIDE DEF T
<1>9. Depth[n] <= Depth[Place[n].mnt]
  BY <1>2, <1>3, <1>8
<1> QED
  BY <1>6, <1>9, DepthGrows

-----------------------------------------------------------------------------
(* The types.                                                              *)

\* follow_dotdot ends at a place in the tree.
LEMMA DotDotIsPlaced ==
  ASSUME root \in Roots, at \in Locations
  PROVE  /\ DotDot \in Locations
         /\ ~InRoot => Below \in Locations
<1>1. at.mnt \in Mounts /\ at.dentry \in Dentries
  BY DEF Locations
<1>2. ASSUME ~InRoot
      PROVE  Below \in Locations
  <2>1. CASE at.dentry = RootOf[at.mnt]
    <3>1. Mountpoint[<<root, at.mnt>>] \in Locations \cup {Nowhere}
      BY <1>1, MountpointIsPlaced
    <3> QED
      BY <1>2, <2>1, <3>1 DEF InRoot, Below
  <2>2. CASE at.dentry # RootOf[at.mnt]
    BY <2>2 DEF Below
  <2> QED
    BY <2>1, <2>2
<1>3. CASE InRoot
  BY <1>2, <1>3 DEF DotDot
<1>4. CASE ~InRoot
  <2>1. Below.mnt \in Mounts /\ Below.dentry \in Dentries
    BY <1>2, <1>4 DEF Locations
  <2>2. UpDir[Below.dentry] \in Dentries
    BY <2>1, TreeAssumption
  <2> QED
    BY <1>2, <1>4, <2>1, <2>2 DEF DotDot, Locations
<1> QED
  BY <1>3, <1>4

\* The steps that move the walk.
LEMMA PlaceSteps ==
  ASSUME [OpenNext]_openVars
  PROVE  \/ __filename_lookup \/ retry
         \/ handle_dots \/ lookup \/ lookup_misses \/ step_into \/ get_link
         \/ open_create \/ open_create_over
         \/ /\ UNCHANGED <<root, at, next>>
            /\ pc' \in Walking => pc \in Walking
            /\ pc' = "step" => pc = "step"
            /\ pc' \in {"pick", "get_link"} => pc \in {"pick", "get_link"}
<1> USE DEF Walking, Fail
<1>1. CASE namei_lookup \/ vfs_openat_api
  BY <1>1 DEF namei_lookup, vfs_openat_api, walking
<1>2. CASE getname \/ getname_long \/ recopy \/ getname_fails
  BY <1>2 DEF getname, getname_long, recopy, getname_fails, walking
<1>3. CASE Walk
  <2>1. CASE link_path_walk \/ walk_more \/ walk_nested \/ walk_last
    BY <2>1 DEF link_path_walk, walk_more, walk_nested, walk_last, call
  <2>2. CASE lookup_fails \/ step_negative \/ step_refused \/ get_link_fails
    BY <2>2 DEF lookup_fails, step_negative, step_refused, get_link_fails, call
  <2>3. CASE stepped
    BY <2>3 DEF stepped, call
  <2>4. CASE reserve_loop \/ reserve_fails \/ pick_link
    BY <2>4 DEF reserve_loop, reserve_fails, pick_link, PushLink, call
  <2>5. CASE terminate_walk
    BY <2>5 DEF terminate_walk, call
  <2> QED
    BY <1>3, <2>1, <2>2, <2>3, <2>4, <2>5 DEF Walk
<1>4. CASE LookupEnd
  BY <1>4 DEF LookupEnd, lookup_last, path_parentat, complete_walk, call
<1>5. CASE open_last_dots \/ open_last_plain \/ open_last_exists
  BY <1>5 DEF open_last_dots, open_last_plain, open_last_exists, AtLast, call
<1>6. CASE open_last_miss \/ open_last_isdir \/ open_create_fails \/ open_create_again
  BY <1>6 DEF open_last_miss, open_last_isdir, open_create_fails, open_create_again, call
<1>7. CASE do_open
  BY <1>7 DEF do_open, call
<1>8. CASE do_o_path \/ call_returns
  BY <1>8 DEF do_o_path, Looked, call_returns, return, walking, call
<1>9. CASE UNCHANGED openVars
  BY <1>9 DEF openVars, vars, call
<1> QED
  BY <1>1, <1>2, <1>3, <1>4, <1>5, <1>6, <1>7, <1>8, <1>9 DEF OpenNext, OpenStep

\* The walk is always at a place in the tree, and so is what it steps to.
LEMMA NextPlaced ==
  ASSUME Typed, [OpenNext]_openVars
  PROVE  Placed'
<1>1. root \in Roots /\ Roots \subseteq Locations /\ root \in Locations
  BY TreeAssumption DEF Typed, Placed
<1>2. \A p : p \in Locations => At(p) /\ p.mnt \in Mounts /\ p.dentry \in Dentries
  BY DEF At, Locations
<1>3. CASE __filename_lookup \/ retry
  <2>1. at' = root /\ next' = Nowhere /\ UNCHANGED root /\ pc' = "enter"
    BY <1>3 DEF __filename_lookup, retry, path_init
  <2>2. At(next')
    BY <2>1 DEF At, Nowhere
  <2> QED
    BY <1>1, <1>2, <2>1, <2>2 DEF Placed
<1>4. CASE handle_dots
  <2>1. UNCHANGED root /\ at \in Locations /\ At(next)
    BY <1>4 DEF handle_dots, call, Typed, Placed, Walking
  <2>2. CASE UNCHANGED <<at, next>> /\ pc' \in {"stepped", "terminate"}
    BY <1>1, <1>2, <2>1, <2>2 DEF Placed
  <2>3. CASE at' = (IF InRoot THEN at ELSE Below) /\ next' = DotDot /\ pc' = "step"
    <3>1. at' \in Locations /\ next' \in Locations
      BY <1>1, <2>1, <2>3, DotDotIsPlaced
    <3> QED
      BY <1>1, <1>2, <2>1, <2>3, <3>1 DEF Placed
  <2>4. CASE ~InRoot /\ at' = Below /\ UNCHANGED next /\ pc' = "terminate"
    <3>1. at' \in Locations
      BY <1>1, <2>1, <2>4, DotDotIsPlaced
    <3> QED
      BY <1>1, <1>2, <2>1, <2>4, <3>1 DEF Placed, Walking
  <2> QED
    BY <1>4, <2>2, <2>3, <2>4 DEF handle_dots, Fail
<1>5. CASE lookup \/ lookup_misses
  <2>1. /\ UNCHANGED <<root, at>> /\ at \in Locations /\ pc' = "step"
        /\ last.comp \in Names
        /\ next' \in {[mnt |-> at.mnt, dentry |-> Child[at.dentry][last.comp]],
                      [mnt |-> at.mnt, dentry |-> Absent]}
    BY <1>5 DEF lookup, lookup_misses, call, Typed, Placed, Spelled, Walking, Components
  <2>2. Child[at.dentry][last.comp] \in Dentries \cup {Absent}
    BY <1>2, <2>1, TreeAssumption
  <2>3. At(next') /\ next'.mnt \in Mounts
    BY <1>2, <2>1, <2>2 DEF At
  <2> QED
    BY <1>1, <1>2, <2>1, <2>3 DEF Placed
<1>6. CASE step_into
  <2>1. /\ UNCHANGED root /\ at \in Locations /\ next' = Traverse(next)
        /\ at' \in {at, next'} /\ pc' \in {"pick", "stepped"}
        /\ pc' = "pick" => Kind[next'.dentry] = "link"
    BY <1>6 DEF step_into, call, Typed, Placed, Walking
  <2>2. next \in Locations
    BY <1>6 DEF step_into, Typed, Placed, At, Locations
  <2>3. next' \in Locations
    BY <2>1, <2>2, TraverseIsPlaced
  <2> QED
    BY <1>1, <1>2, <2>1, <2>3 DEF Placed
<1>7. CASE get_link
  <2>1. /\ UNCHANGED <<root, next>> /\ at \in Locations /\ At(next)
        /\ at' \in {at, root} /\ pc' \notin {"step", "pick", "get_link"}
    BY <1>7 DEF get_link, Fail, call, Typed, Placed, Walking
  <2> QED
    BY <1>1, <1>2, <2>1 DEF Placed
<1>8. CASE open_create \/ open_create_over
  <2>1. /\ UNCHANGED <<root, next>> /\ at \in Locations /\ At(next)
        /\ \/ at' = [at EXCEPT !.dentry = New] /\ pc' = "complete"
           \/ at' = at /\ pc' = "terminate"
    BY <1>8 DEF open_create, open_create_over, Fail, AtLast, call, Typed, Placed, Walking
  <2>2. at' \in Locations
    BY <2>1, NewAssumption DEF Locations
  <2> QED
    BY <1>1, <1>2, <2>1, <2>2 DEF Placed, Walking
<1>9. CASE /\ UNCHANGED <<root, at, next>>
           /\ pc' \in Walking => pc \in Walking
           /\ pc' = "step" => pc = "step"
           /\ pc' \in {"pick", "get_link"} => pc \in {"pick", "get_link"}
  BY <1>9 DEF Typed, Placed
<1> QED
  BY <1>3, <1>4, <1>5, <1>6, <1>7, <1>8, <1>9, PlaceSteps

\* The steps that change what is read, and the way it is read.
LEMMA SpellSteps ==
  ASSUME [OpenNext]_openVars
  PROVE  \/ getname \/ recopy \/ namei_lookup \/ vfs_openat_api
         \/ __filename_lookup \/ retry \/ link_path_walk
         \/ walk_more \/ walk_nested \/ walk_last \/ get_link \/ terminate_walk
         \/ /\ UNCHANGED <<name, names, last, try, arg>>
            /\ how' \in {how, "trailing"}
            /\ pc' \in {"call", "getname", "recopy", "unnamed", "undefined"}
               \/ pc \notin {"call", "getname", "recopy", "unnamed", "undefined"}
<1> USE DEF Fail
<1>1. CASE getname_long \/ getname_fails
  BY <1>1 DEF getname_long, getname_fails, walking, stack
<1>2. CASE Walk
  <2>1. CASE handle_dots \/ lookup \/ lookup_fails
    BY <2>1 DEF handle_dots, lookup, lookup_fails, stack, call
  <2>2. CASE step_negative \/ step_refused \/ step_into \/ stepped
    BY <2>2 DEF step_negative, step_refused, step_into, stepped, stack, call
  <2>3. CASE reserve_loop \/ reserve_fails \/ pick_link \/ get_link_fails
    BY <2>3 DEF reserve_loop, reserve_fails, pick_link, get_link_fails, stack, call
  <2> QED
    BY <1>2, <2>1, <2>2, <2>3 DEF Walk
<1>3. CASE LookupEnd
  BY <1>3 DEF LookupEnd, lookup_last, path_parentat, complete_walk, stack, call
<1>4. CASE open_last_dots \/ open_last_plain \/ open_last_exists \/ lookup_misses
  BY <1>4 DEF open_last_dots, open_last_plain, open_last_exists, lookup_misses,
              AtLast, stack, call
<1>5. CASE \/ open_last_miss \/ open_last_isdir \/ open_create_fails
           \/ open_create \/ open_create_again \/ open_create_over
  BY <1>5 DEF open_last_miss, open_last_isdir, open_create_fails, open_create,
              open_create_again, open_create_over, AtLast, stack, call
<1>6. CASE do_open \/ do_o_path \/ call_returns
  BY <1>6 DEF do_open, do_o_path, Looked, call_returns, return, walking, stack, call
<1>7. CASE UNCHANGED openVars
  BY <1>7 DEF openVars, vars, stack, call
<1> QED
  BY <1>1, <1>2, <1>3, <1>4, <1>5, <1>6, <1>7 DEF OpenNext, OpenStep

\* Names are made of components, and are taken apart into components.
LEMMA NextSpelled ==
  ASSUME Typed, Levels, Numbered, [OpenNext]_openVars
  PROVE  Spelled'
<1>1. /\ name \in Text /\ names \in Seq(Text)
      /\ last \in [comp : Components \cup {"/"}, slash : BOOLEAN, src : Nat]
      /\ how \in {"more", "nested", "trailing"} /\ try \in 1 .. 3
      /\ DOMAIN arg = {"path", "flags", "begun"}
      /\ name.comps \in Seq(Components) /\ name.slash \in BOOLEAN
      /\ name.src \in Nat /\ total \in Nat
  BY DEF Typed, Spelled, Text, Numbered
<1>2. CASE getname \/ recopy
  <2>1. PICK p \in Paths : arg' = [arg EXCEPT !.path = p]
    BY <1>2 DEF getname, recopy
  <2>2. p \in [comps : Seq(Components), slash : BOOLEAN]
    BY TextAssumption
  <2>3. DOMAIN arg' = DOMAIN arg /\ arg'.path = p
    BY <1>1, <2>1
  <2>4. UNCHANGED <<name, names, last, how, try>>
    BY <1>2 DEF getname, recopy, walking, stack
  <2> QED
    BY <1>1, <2>2, <2>3, <2>4 DEF Spelled
<1>3. CASE namei_lookup \/ vfs_openat_api
  <2>1. /\ UNCHANGED <<name, names, last, how, try>>
        /\ pc' \in {"getname", "undefined"}
    BY <1>3 DEF namei_lookup, vfs_openat_api, walking, stack
  <2>2. DOMAIN arg' = DOMAIN arg
    BY <1>3 DEF namei_lookup, vfs_openat_api
  <2> QED
    BY <1>1, <2>1, <2>2 DEF Spelled
<1>4. CASE __filename_lookup \/ retry
  <2>1. arg.path \in [comps : Seq(Components), slash : BOOLEAN]
    BY <1>4 DEF __filename_lookup, retry, Typed, Spelled
  <2>2. /\ name' = [comps |-> arg.path.comps, slash |-> arg.path.slash, src |-> 0]
        /\ last' = [comp |-> "/", slash |-> FALSE, src |-> 0]
        /\ how' = "more" /\ names' = <<>> /\ try' \in 1 .. 3
    BY <1>1, <1>4 DEF __filename_lookup, retry, path_init
  <2>3. DOMAIN arg' = {"path", "flags", "begun"} /\ arg'.path = arg.path
    BY <1>4 DEF __filename_lookup, retry, path_init
  <2>4. name' \in Text
        /\ last' \in [comp : Components \cup {"/"}, slash : BOOLEAN, src : Nat]
    BY <2>1, <2>2 DEF Text
  <2> QED
    BY <2>1, <2>2, <2>3, <2>4 DEF Spelled
<1>5. CASE link_path_walk
  BY <1>1, <1>5 DEF link_path_walk, call, Typed, Spelled
<1>6. CASE walk_more \/ walk_nested \/ walk_last
  <2>1. name.comps # <<>> /\ pc = "walk" /\ pc' \in {"lookup", "last"}
    <3>1. Len(name.comps) > 1 \/ Len(name.comps) = 1
      BY <1>6 DEF walk_more, walk_nested, walk_last
    <3>2. name.comps # <<>>
      BY <3>1
    <3> QED
      BY <1>6, <3>2 DEF walk_more, walk_nested, walk_last
  <2>2. Head(name.comps) \in Components /\ Tail(name.comps) \in Seq(Components)
    BY <1>1, <2>1, HeadTailProperties
  <2>3. last' \in [comp : Components \cup {"/"}, slash : BOOLEAN, src : Nat]
    <3>1. last' = [comp |-> Head(name.comps),
                   slash |-> name.slash \/ Len(name.comps) > 1, src |-> name.src]
      BY <1>6 DEF walk_more, walk_nested, walk_last, TakeComponent
    <3>2. (name.slash \/ Len(name.comps) > 1) \in BOOLEAN
      OBVIOUS
    <3> QED
      BY <1>1, <2>2, <3>1, <3>2
  <2>4. name' \in Text /\ names' \in Seq(Text)
    <3>1. CASE walk_more
      <4>1. name' = [name EXCEPT !.comps = Tail(@)] /\ UNCHANGED names
        BY <3>1 DEF walk_more, stack
      <4> QED
        BY <1>1, <2>2, <4>1 DEF Text
    <3>2. CASE walk_nested
      <4>1. /\ names # <<>> /\ name' = names[Len(names)]
            /\ names' = SubSeq(names, 1, Len(names) - 1)
        BY <3>2 DEF walk_nested
      <4> QED
        BY <1>1, <4>1, Front
    <3>3. CASE walk_last
      <4>1. name' = NoName /\ UNCHANGED names
        BY <3>3 DEF walk_last, stack
      <4>2. NoName \in Text
        BY DEF NoName, Text
      <4> QED
        BY <1>1, <4>1, <4>2
    <3> QED
      BY <1>6, <3>1, <3>2, <3>3
  <2>5. how' \in {"more", "nested", how} /\ UNCHANGED <<try, arg>>
    BY <1>6 DEF walk_more, walk_nested, walk_last, call
  <2> QED
    BY <1>1, <2>1, <2>3, <2>4, <2>5 DEF Typed, Spelled
<1>7. CASE get_link
  <2>1. /\ pc = "get_link" /\ UNCHANGED <<last, how, try, arg>>
        /\ \/ UNCHANGED <<name, names>>
           \/ /\ name' = [comps |-> Body[next.dentry].comps,
                           slash |-> Body[next.dentry].slash, src |-> total]
              /\ names' \in {names, Append(names, name)}
    BY <1>7 DEF get_link, call
  <2>2. Body[next.dentry] \in [abs : BOOLEAN, comps : Seq(Components), slash : BOOLEAN]
    BY <2>1, TextAssumption DEF Typed, Placed, Locations
  <2>3. name' \in Text
    BY <1>1, <2>1, <2>2 DEF Text
  <2>4. names' \in Seq(Text)
    <3>1. names' = names \/ names' = Append(names, name)
      BY <2>1
    <3> QED
      BY <1>1, <3>1, AppendProperties
  <2> QED
    BY <1>1, <2>1, <2>3, <2>4 DEF Typed, Spelled
<1>8. CASE terminate_walk
  BY <1>1, <1>8 DEF terminate_walk, call, Typed, Spelled
<1>9. CASE /\ UNCHANGED <<name, names, last, try, arg>>
           /\ how' \in {how, "trailing"}
           /\ pc' \in {"call", "getname", "recopy", "unnamed", "undefined"}
              \/ pc \notin {"call", "getname", "recopy", "unnamed", "undefined"}
  BY <1>9 DEF Typed, Spelled
<1> QED
  BY <1>2, <1>3, <1>4, <1>5, <1>6, <1>7, <1>8, <1>9, SpellSteps

-----------------------------------------------------------------------------
(***************************************************************************)
(* The call.                                                               *)
(***************************************************************************)

\* A step of a walk that has begun: what it leaves alone, how it may end,
\* and how it may come to a trailing component.
WalkStep ==
  /\ pc \in Walking /\ pc' \in Walking \cup {"terminate"}
  /\ flags' \in {flags, flags \cup {"FOLLOW", "DIRECTORY"}}
  /\ UNCHANGED <<rcu, arg, op, blocks>>
  /\ \/ pc' # "terminate" /\ err' = err
     \/ pc' = "terminate" /\ err' # "ok"
     \/ pc' = "terminate" /\ pc \in {"last", "complete"} /\ UNCHANGED <<last, flags>>
  /\ how' = "trailing" =>
       how = "trailing" \/ (pc = "last" /\ ("PARENT" \notin flags \/ Opening))
  /\ pc' = "complete" => how = "trailing" \/ (pc = "last" /\ Opening)

LEMMA CallSteps ==
  ASSUME [OpenNext]_openVars
  PROVE  \/ namei_lookup \/ vfs_openat_api
         \/ getname \/ getname_long \/ recopy \/ getname_fails
         \/ __filename_lookup /\ UNCHANGED opening
         \/ retry /\ UNCHANGED opening
         \/ WalkStep
         \/ terminate_walk /\ UNCHANGED opening
         \/ do_o_path \/ call_returns
         \/ UNCHANGED openVars
<1> USE DEF Walking, Fail, WalkStep
<1>1. CASE Walk /\ UNCHANGED opening
  <2>1. CASE link_path_walk
    BY <1>1, <2>1 DEF link_path_walk, call, opening
  <2>2. CASE walk_more \/ walk_nested \/ walk_last
    BY <1>1, <2>2 DEF walk_more, walk_nested, walk_last, call, opening
  <2>3. CASE handle_dots
    BY <1>1, <2>3 DEF handle_dots, call, opening
  <2>4. CASE lookup
    BY <1>1, <2>4 DEF lookup, call, opening
  <2>5. CASE lookup_fails
    BY <1>1, <2>5 DEF lookup_fails, call, opening
  <2>6. CASE step_negative \/ step_refused
    BY <1>1, <2>6 DEF step_negative, step_refused, call, opening
  <2>7. CASE step_into
    BY <1>1, <2>7 DEF step_into, call, opening
  <2>8. CASE stepped
    BY <1>1, <2>8 DEF stepped, call, opening
  <2>9. CASE reserve_loop \/ reserve_fails \/ get_link_fails
    BY <1>1, <2>9 DEF reserve_loop, reserve_fails, get_link_fails, call, opening
  <2>10. CASE pick_link
    BY <1>1, <2>10 DEF pick_link, PushLink, call, opening
  <2>11. CASE get_link
    BY <1>1, <2>11 DEF get_link, call, opening
  <2> QED
    BY <1>1, <2>1, <2>2, <2>3, <2>4, <2>5, <2>6, <2>7, <2>8, <2>9, <2>10, <2>11
       DEF Walk
<1>2. CASE LookupEnd /\ UNCHANGED opening
  <2>1. CASE lookup_last
    BY <1>2, <2>1 DEF lookup_last, call, opening
  <2>2. CASE path_parentat
    BY <1>2, <2>2 DEF path_parentat, call, opening
  <2>3. CASE complete_walk
    BY <1>2, <2>3 DEF complete_walk, call, opening
  <2> QED
    BY <1>2, <2>1, <2>2, <2>3 DEF LookupEnd
<1>3. CASE open_last_dots \/ open_last_plain
  BY <1>3 DEF open_last_dots, open_last_plain, AtLast, TrailingSlash, call, opening
<1>4. CASE open_last_exists \/ (lookup_misses /\ UNCHANGED opening)
  BY <1>4 DEF open_last_exists, lookup_misses, AtLast, call, opening
<1>5. CASE open_last_miss \/ open_last_isdir \/ open_create_fails
  BY <1>5 DEF open_last_miss, open_last_isdir, open_create_fails, AtLast,
              TrailingSlash, call, opening
<1>6. CASE open_create \/ open_create_again \/ open_create_over
  BY <1>6 DEF open_create, open_create_again, open_create_over, AtLast, call, opening
<1>7. CASE do_open
  BY <1>7 DEF do_open, call
<1> QED
  BY <1>1, <1>2, <1>3, <1>4, <1>5, <1>6, <1>7 DEF OpenNext, OpenStep, Walk

\* The RCU read side is entered and left once for each try.
LEMMA NextReader ==
  ASSUME Reader, [OpenNext]_openVars
  PROVE  Reader'
<1> USE DEF Reader, Walking
<1>1. CASE namei_lookup \/ vfs_openat_api
  BY <1>1 DEF namei_lookup, vfs_openat_api, walking
<1>2. CASE getname \/ getname_long \/ recopy \/ getname_fails
  BY <1>2 DEF getname, getname_long, recopy, getname_fails, walking
<1>3. CASE __filename_lookup \/ retry
  BY <1>3 DEF __filename_lookup, retry, path_init
<1>4. CASE WalkStep
  BY <1>4 DEF WalkStep
<1>5. CASE terminate_walk
  BY <1>5 DEF terminate_walk
<1>6. CASE do_o_path \/ call_returns
  BY <1>6 DEF do_o_path, Looked, call_returns, return, walking
<1>7. CASE UNCHANGED openVars
  BY <1>7 DEF openVars, vars
<1> QED
  BY <1>1, <1>2, <1>3, <1>4, <1>5, <1>6, <1>7, CallSteps

\* A walk to a parent follows no trailing link, so the last component it
\* hands back lies in the path name.
LEMMA NextParents ==
  ASSUME Typed, Levels, Numbered, Texts, Parents, [OpenNext]_openVars
  PROVE  Parents'
<1>1. DOMAIN arg = {"path", "flags", "begun"}
  BY DEF Typed, Spelled
<1>2. CASE namei_lookup
  <2>1. pc = "call" /\ pc' = "getname" /\ UNCHANGED <<flags, how, op>>
    BY <1>2 DEF namei_lookup, walking, opening
  <2> QED
    BY <2>1 DEF Parents, Walking
<1>3. CASE vfs_openat_api
  <2>1. /\ pc = "call" /\ pc' \in {"getname", "undefined"} /\ UNCHANGED <<flags, how>>
        /\ \/ UNCHANGED <<arg, op>>
           \/ /\ op'.opens /\ "PARENT" \notin arg'.flags
    <3>1. PICK f \in OpenFlagSets :
            \/ /\ pc' = "undefined" /\ UNCHANGED <<arg, op>>
            \/ /\ pc' = "getname"
               /\ op' = [opens |-> TRUE, creat |-> build_open_flags(build_open_how(f)).creat,
                         path |-> build_open_flags(build_open_how(f)).path, asked |-> f]
               /\ arg' = [arg EXCEPT !.flags = build_open_flags(build_open_how(f)).lookup]
      BY <1>3 DEF vfs_openat_api
    <3>2. "PARENT" \notin build_open_flags(build_open_how(f)).lookup
      BY DEF build_open_flags
    <3> QED
      BY <1>1, <1>3, <3>1, <3>2 DEF vfs_openat_api, walking
  <2> QED
    BY <2>1 DEF Parents, Walking
<1>4. CASE getname \/ getname_long \/ recopy \/ getname_fails
  <2>1. /\ pc \in {"getname", "recopy"} /\ pc' \in {"recopy", "start", "unnamed"}
        /\ UNCHANGED <<flags, how, op>>
    BY <1>4 DEF getname, getname_long, recopy, getname_fails, walking, opening
  <2>2. arg'.flags = arg.flags
    BY <1>1, <1>4 DEF getname, getname_long, recopy, getname_fails, opening
  <2> QED
    BY <2>1, <2>2 DEF Parents, Walking
<1>5. CASE (__filename_lookup \/ retry) /\ UNCHANGED opening
  <2>1. /\ pc' = "enter" /\ how' = "more" /\ err' = "ok" /\ UNCHANGED op
        /\ "PARENT" \in flags' <=> "PARENT" \in arg.flags
        /\ "PARENT" \in arg'.flags <=> "PARENT" \in arg.flags
    BY <1>5 DEF __filename_lookup, retry, path_init, opening
  <2> QED
    BY <2>1 DEF Parents, Walking
<1>6. CASE WalkStep
  <2>1. /\ "PARENT" \in flags' <=> "PARENT" \in flags
        /\ pc \in Walking /\ pc' \in Walking \cup {"terminate"}
        /\ UNCHANGED <<arg, op>>
    BY <1>6 DEF WalkStep
  <2>2. "PARENT" \in flags <=> "PARENT" \in arg.flags
    BY <2>1 DEF Parents
  <2>3. Opening => "PARENT" \notin flags
    BY <2>2 DEF Opening, Parents
  <2>4. how' = "trailing" \/ pc' = "complete" => "PARENT" \notin flags'
    BY <1>6, <2>1, <2>3 DEF WalkStep, Parents
  <2>5. pc' \in Walking => err' = "ok"
    BY <1>6, <2>1 DEF WalkStep, Parents, Walking
  <2>6. pc' = "terminate" /\ "PARENT" \in flags' /\ err' = "ok" => last'.src = 0
    <3> SUFFICES ASSUME pc' = "terminate", "PARENT" \in flags', err' = "ok"
                 PROVE  last'.src = 0
      OBVIOUS
    <3>1. pc = "last" /\ UNCHANGED last
      BY <1>6, <2>1 DEF WalkStep, Parents
    <3>2. Held = Len(names) /\ Held = Len(links) /\ names = <<>>
      BY <2>1, <3>1, Depths DEF Held, Levels
    <3> QED
      BY <3>1, <3>2 DEF Texts, Src
  <2> QED
    BY <2>1, <2>2, <2>4, <2>5, <2>6 DEF Parents, Walking
<1>7. CASE terminate_walk /\ UNCHANGED opening
  <2>1. /\ pc = "terminate" /\ pc' = "returned"
        /\ UNCHANGED <<flags, last, how, err, arg, op>>
    BY <1>7 DEF terminate_walk, call, opening
  <2> QED
    BY <2>1 DEF Parents, Walking
<1>8. CASE do_o_path
  <2>1. /\ pc = "returned" /\ pc' = "returned" /\ op.path
        /\ UNCHANGED <<flags, last, how, arg, op>>
    BY <1>8 DEF do_o_path, Looked, walking
  <2> QED
    BY <2>1 DEF Parents, Walking
<1>9. CASE call_returns
  <2>1. /\ pc = "returned" /\ pc' = "done"
        /\ UNCHANGED <<flags, last, how, err, arg, op>>
    BY <1>9 DEF call_returns, return, call
  <2> QED
    BY <2>1 DEF Parents, Walking
<1>10. CASE UNCHANGED openVars
  BY <1>10 DEF openVars, vars, call, opening, Parents
<1> QED
  BY <1>2, <1>3, <1>4, <1>5, <1>6, <1>7, <1>8, <1>9, <1>10, CallSteps

\* The name is allocated from the copy to the return of the call, and the
\* walk to a parent leaves it to the caller.
LEMMA NextNamed ==
  ASSUME Typed, Named, [OpenNext]_openVars
  PROVE  Named'
<1> USE DEF Named, Walking
<1>1. CASE namei_lookup \/ vfs_openat_api
  BY <1>1 DEF namei_lookup, vfs_openat_api, opening
<1>2. CASE getname \/ getname_long \/ recopy \/ getname_fails
  BY <1>2 DEF getname, getname_long, recopy, getname_fails, opening
<1>3. CASE (__filename_lookup \/ retry) /\ UNCHANGED opening
  BY <1>3 DEF __filename_lookup, retry, path_init, opening
<1>4. CASE WalkStep
  BY <1>4 DEF WalkStep
<1>5. CASE terminate_walk /\ UNCHANGED opening
  BY <1>5 DEF terminate_walk, opening
<1>6. CASE do_o_path
  BY <1>6 DEF do_o_path, Looked
<1>7. CASE call_returns
  BY <1>7 DEF call_returns, return, putname, call
<1>8. CASE UNCHANGED openVars
  BY <1>8 DEF openVars, vars, call, opening
<1> QED
  BY <1>1, <1>2, <1>3, <1>4, <1>5, <1>6, <1>7, <1>8, CallSteps

-----------------------------------------------------------------------------
(***************************************************************************)
(* The invariant, and what it says.                                        *)
(***************************************************************************)
LEMMA InitIInv ==
  ASSUME OpenInit
  PROVE  IInv
<1>1. /\ pc = "call" /\ root \in Roots /\ names = <<>> /\ links = <<>>
      /\ name = NoName /\ at = Nowhere /\ next = Nowhere /\ how = "more"
      /\ last = [comp |-> "/", slash |-> FALSE, src |-> 0]
      /\ arg = [path |-> NoName, flags |-> {}, begun |-> 0] /\ flags = {}
      /\ room = EMBEDDED_LEVELS /\ total = 0 /\ bodies = {} /\ rcu = 0
      /\ err = "ok" /\ try = 1 /\ op = Lookup /\ blocks = {}
  BY DEF OpenInit, set_nameidata
<1>2. Placed
  BY <1>1 DEF Placed, At, Nowhere, Walking
<1>3. Spelled
  <2>1. NoName \in Text
    BY DEF NoName, Text
  <2> QED
    BY <1>1, <2>1 DEF Spelled
<1>4. Levels
  BY <1>1 DEF Levels, Walking
<1>5. Numbered /\ Room
  BY <1>1, LimitAssumption DEF Numbered, Room
<1>6. BodiesAreHeld
  BY <1>1 DEF BodiesAreHeld, Walking
<1>7. Texts
  BY <1>1 DEF Texts, Within
<1>8. Reader /\ Parents /\ Named
  BY <1>1 DEF Reader, Parents, Named, Walking, Lookup
<1> QED
  BY <1>2, <1>3, <1>4, <1>5, <1>6, <1>7, <1>8 DEF IInv, Typed, Stack

LEMMA NextIInv ==
  ASSUME IInv, [OpenNext]_openVars
  PROVE  IInv'
<1>1. links \in Seq(Nat)
  BY DEF IInv, Stack, Numbered
<1> QED
  BY <1>1, NextPlaced, NextSpelled, NextLevels, NextNumbered, NextRoom,
     NextBodies, NextTexts, NextReader, NextParents, NextNamed
     DEF IInv, Typed, Stack

\* The invariant above holds of every walk and every open, whatever the tree.
THEOREM Invariance == OpenSpec => []IInv
<1>1. IInv /\ [OpenNext]_openVars => IInv'
  BY NextIInv
<1> QED
  BY <1>1, InitIInv, PTL DEF OpenSpec

\* The array of links is never overrun, whatever the nesting of links, and
\* everything keeps its type.
THEOREM StackIsInBounds == OpenSpec => []StackInBounds
<1>1. IInv => StackInBounds
  <2> SUFFICES ASSUME IInv
               PROVE  StackInBounds
    OBVIOUS
  <2>1. /\ names \in Seq(Text) /\ Len(names) \in Nat
        /\ links \in Seq(Nat) /\ Len(links) \in Nat /\ total \in Nat
    BY DEF IInv, Stack, Numbered, Typed, Spelled
  <2>2. Len(names) <= Len(links)
    <3>1. CASE pc \in Walking
      BY <2>1, <3>1, Depths DEF IInv, Stack
    <3>2. CASE pc = "terminate"
      BY <3>2 DEF IInv, Stack, Levels
    <3>3. CASE pc \notin Walking \cup {"terminate"}
      BY <3>3 DEF IInv, Stack, Levels
    <3> QED
      BY <3>1, <3>2, <3>3
  <2>3. Len(links) <= room /\ room \in {EMBEDDED_LEVELS, MAXSYMLINKS}
    BY DEF IInv, Stack, Room
  <2>4. bodies \subseteq 1 .. total
    BY <2>1 DEF IInv, Stack, BodiesAreHeld, Filled, Numbered
  <2>5. rcu \in Nat
    BY DEF IInv, Reader
  <2> QED
    BY <2>1, <2>2, <2>3, <2>4, <2>5
       DEF StackInBounds, TypeOK, IInv, Typed, Placed, Spelled, At
<1> QED
  BY <1>1, Invariance, PTL

\* The walk reads no link body after it was freed.
THEOREM TextsAreLive == OpenSpec => []NamesAreLive
<1>1. IInv => NamesAreLive
  <2> SUFFICES ASSUME IInv
               PROVE  NamesAreLive
    OBVIOUS
  <2> USE DEF IInv, Stack
  <2>1. ASSUME pc \in Walking \ {"get_link"}, NEW i \in 0 .. Len(links)
        PROVE  Live(Src(i))
    BY <2>1 DEF Numbered, BodiesAreHeld, Filled, Live, Src
  <2>2. ASSUME pc = "walk"
        PROVE  Live(name.src) /\ \A i \in DOMAIN names : Live(names[i].src)
    <3>1. /\ Held = Len(links) /\ Held \in Nat /\ Len(names) \in Nat
          /\ Held - Len(names) \in {0, 1} /\ names \in Seq(Text)
      BY <2>2, Depths DEF Walking, Held
    <3>2. name.src = Src(Len(links))
          /\ \A i \in 1 .. Len(names) : names[i].src = Src(Held - Len(names) + i - 1)
      BY <2>2, <3>1 DEF Texts, Within
    <3>3. ASSUME NEW i \in DOMAIN names
          PROVE  Live(names[i].src)
      <4>1. i \in 1 .. Len(names)
        BY <3>1
      <4>2. Held - Len(names) + i - 1 \in 0 .. Len(links)
        BY <3>1, <4>1
      <4> QED
        BY <2>1, <2>2, <3>2, <4>1, <4>2 DEF Walking
    <3> QED
      BY <2>1, <2>2, <3>1, <3>2, <3>3 DEF Walking
  <2>3. ASSUME pc \in {"last", "lookup"}
        PROVE  Live(last.src)
    <3>1. last.src = 0 \/ last.src = Src(Len(links))
      BY <2>3 DEF Texts
    <3>2. Len(links) \in Nat
      BY DEF Numbered
    <3> QED
      BY <2>1, <2>3, <3>1, <3>2 DEF Walking, Live
  <2> QED
    BY <2>2, <2>3 DEF NamesAreLive
<1> QED
  BY <1>1, Invariance, PTL

\* A walk that returns has given back every link, every link body and the
\* RCU read side.
THEOREM WalksCleanUp == OpenSpec => []WalkCleansUp
<1>1. IInv => WalkCleansUp
  BY DEF IInv, Stack, Levels, BodiesAreHeld, Reader, WalkCleansUp, Walking
<1> QED
  BY <1>1, Invariance, PTL

\* The name of a call is there as long as something may read it, the last
\* component that a walk to a parent returns included.
THEOREM NamesOutliveTheirCalls == OpenSpec => []NamesAreKept
<1>1. IInv => NamesAreKept
  BY DEF IInv, Named, Parents, NamesAreKept
<1> QED
  BY <1>1, Invariance, PTL

=============================================================================
