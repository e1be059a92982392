--------------------------- MODULE MCJobLifecycle ---------------------------
(* Instances of JobLifecycle for TLC.                                      *)
EXTENDS JobLifecycle, TLC

CONSTANTS j1, j2

OneOwner   == [j \in Jobs |-> "scheduled_ubuntu"]
OneEach    == [j \in Jobs |-> 1]
TwoAndOne  == [j \in Jobs |-> IF j = j1 THEN 2 ELSE 1]
Symmetry   == Permutations(Nodes)
AllSymmetry == Permutations(Nodes) \cup Permutations(Jobs)
=============================================================================
