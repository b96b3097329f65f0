------------------------------ MODULE MCNames ------------------------------
(* Names, on a file system of a few inodes. *)
EXTENDS Names, TLC
Directories == {<<>>, <<"a">>}
LinkPaths == {<<"a">>}
N(k, d, n) == [kind |-> k, dir |-> d, name |-> n, target |-> <<>>]
L(d, n, p) == [kind |-> "link", dir |-> d, name |-> n, target |-> p]
SmallTrees == {<<N("dir", 1, "a"), N("file", 2, "b")>>,
               <<N("dir", 1, "a"), N("dir", 1, "b")>>,
               <<N("dir", 1, "a"), N("dir", 2, "b")>>,
               <<L(1, "a", <<"b">>), L(1, "b", <<"a">>)>>,
               <<N("dir", 1, "a"), L(2, "b", <<"..", "a">>)>>}
Symm == Permutations(Proc)
=============================================================================
