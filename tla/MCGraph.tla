------------------------------ MODULE MCGraph ------------------------------
(* All graphs with up to four edges on four nodes.  The nodes are alike:   *)
(* one start stands for all.                                               *)
EXTENDS Graph

FourNodes == 1..4
FirstNode == {1}
FourIds == 1..4

(* The order of equal edges makes no difference: they are numbered in the  *)
(* order of what they join.                                                *)
Code(p) == 10 * p[1] + p[2]
UpToFour ==
    {g \in UNION {[1..n -> Nodes \X Nodes] : n \in 0..4} :
        \A i \in 1..(Len(g) - 1) : Code(g[i]) <= Code(g[i + 1])}
=============================================================================
