------------------------------- MODULE MCDput -------------------------------
EXTENDS Dput, TLC

CONSTANTS root, a, b, c

\* root above a and c, a above b.
MCDentries == {root, a, b, c}
MCParent == root :> root @@ a :> root @@ b :> a @@ c :> root

\* root above a above b.
MCChain == {root, a, b}
MCChainParent == root :> root @@ a :> root @@ b :> a

MCSymmetry == Permutations(Threads)
=============================================================================
