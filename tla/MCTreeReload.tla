---------------------------- MODULE MCTreeReload ----------------------------
(* Two policies, of which the second configuration drops one, and sources  *)
(* that answer a tree or an empty one.                                     *)
EXTENDS TreeReload
CONSTANTS k1, k2, t1, none
MCKeys == {k1, k2}
MCTrees == {t1, none}
LosesOne == [v \in Versions |-> IF v = 2 THEN {k1} ELSE {k1, k2}]
=============================================================================
