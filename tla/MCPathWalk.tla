----------------------------- MODULE MCPathWalk -----------------------------
EXTENDS PathRef

CONSTANTS r, a, b, f, l1, l2, l3, l4, l5, s, t, u, g, m0, m1, m2, none

\* /a/b and /a/f on the root mount; m1 is mounted on /a/b with the directory
\* s in it and m2 is mounted on the root of m1.  Links: /x -> a/y/, /a/y -> b,
\* /z -> /z, /a/w -> /x/.., /d -> a/n, where there is nothing, and v in m2 -> /.
\* g is the file an open creates.
MCDentries == {r, a, b, f, l1, l2, l3, l4, l5, s, t, u, g}
MCMounts == {m0, m1, m2}
MCNames == {"a", "b", "f", "x", "y", "z", "w", "v", "d", "n"}
MCKind == [d \in MCDentries |-> CASE d \in {l1, l2, l3, l4, l5, u} -> "link"
                                  [] d \in {f, g} -> "file" [] OTHER -> "dir"]
Entry(d, c) ==
  CASE d = r /\ c = "a" -> a [] d = r /\ c = "x" -> l1 [] d = r /\ c = "z" -> l3
    [] d = a /\ c = "b" -> b [] d = a /\ c = "f" -> f
    [] d = a /\ c = "y" -> l2 [] d = a /\ c = "w" -> l4
    [] d = t /\ c = "v" -> u [] d = r /\ c = "d" -> l5
    [] OTHER -> none
MCChild == [d \in MCDentries |-> [c \in MCNames |-> Entry(d, c)]]
MCUpDir == [d \in MCDentries |-> CASE d \in {b, f, l2, l4} -> a [] d = s -> s
                                   [] d \in {t, u} -> t [] OTHER -> r]
Link(abs, comps, slash) == [abs |-> abs, comps |-> comps, slash |-> slash]
MCBody == [d \in {l1, l2, l3, l4, l5, u} |->
             CASE d = l1 -> Link(FALSE, <<"a", "y">>, TRUE)
               [] d = l2 -> Link(FALSE, <<"b">>, FALSE)
               [] d = l3 -> Link(TRUE, <<"z">>, FALSE)
               [] d = l4 -> Link(TRUE, <<"x", "..">>, FALSE)
               [] d = l5 -> Link(FALSE, <<"a", "n">>, FALSE)
               [] d = u -> Link(TRUE, <<>>, FALSE)]
MCRootOf == [m \in MCMounts |-> CASE m = m0 -> r [] m = m1 -> s [] m = m2 -> t]
At(m, d) == [mnt |-> m, dentry |-> d]
MCPlace == [m \in MCMounts |-> CASE m = m0 -> At(m0, r) [] m = m1 -> At(m0, b)
                                 [] m = m2 -> At(m1, s)]
MCRoots == {At(m0, r), At(m0, a)}
\* Every single component and pairs that begin with a directory, a link or
\* "..", with and without a slash at the end; longer ones through nothing,
\* through a loop, links in links, piled mounts and "..".
MCShort == {<<x>> : x \in MCNames \cup {".", ".."}}
             \cup {"a", "x", ".."} \X {"b", "f", "y", "w", "n", ".."}
MCLong == {<<"a", "b", "v", "x">>, <<"x", "..", "w", "f">>, <<"a", "w", "y", "v">>,
           <<"a", "y", "..", "..">>, <<"x", "v", "x", "..">>, <<"a", "w", "x", "w">>,
           <<"z", "b">>, <<"d", "f">>, <<"w", "..", "y", "v">>, <<"a", "w", "w", "f">>,
           <<"a", "y", "..", "n">>, <<"a", "..", "a", "..", "f">>}
Path(c, e) == [comps |-> c, slash |-> e]
MCPaths == {Path(c, e) : c \in MCShort, e \in BOOLEAN}
             \cup {Path(c, FALSE) : c \in MCLong \cup {<<>>}}
MCFlagSets == {{}, {"FOLLOW"}, {"PARENT"}, {"FOLLOW", "NO_XDEV"},
               {"DIRECTORY"}, {"NO_SYMLINKS"}}
MCOpenFlagSets == {{}, {"NOFOLLOW", "EXCL"}, {"DIRECTORY", "TMPFILE"}, {"CREAT"},
                   {"CREAT", "EXCL"}, {"CREAT", "NOFOLLOW"}, {"CREAT", "DIRECTORY"},
                   {"PATH"}, {"PATH", "NOFOLLOW"}, {"PATH", "CREAT", "DIRECTORY"}}
=============================================================================
