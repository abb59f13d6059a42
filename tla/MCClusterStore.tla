--------------------------- MODULE MCClusterStore ---------------------------
(* Names for model checking ClusterStore: two that differ in case, and one whose *)
(* _ matches the fourth.                                                          *)
EXTENDS ClusterStore, TLC

FoldName(n) == IF n = "A" THEN "a" ELSE n
Underscore == {<<"x-y", "x_y">>, <<"x_y", "x_y">>}

Symmetry == Permutations(Proc)
=============================================================================
