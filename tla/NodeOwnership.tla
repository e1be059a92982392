---------------------------- MODULE NodeOwnership ---------------------------
(***************************************************************************)
(* What a lab promises about its nodes: a node is taken by one job or      *)
(* person at a time, a job works only on nodes it has taken, and nobody    *)
(* takes a node away from a job that works on it.                          *)
(***************************************************************************)
CONSTANTS Jobs, Takers, Nodes, Free
VARIABLES owner, working

vars == <<owner, working>>

Init == owner = [n \in Nodes |-> Free] /\ working = [j \in Jobs |-> {}]

Take(t, S) ==
  /\ \A n \in S : owner[n] = Free
  /\ owner' = [n \in Nodes |-> IF n \in S THEN t ELSE owner[n]]
  /\ UNCHANGED working

Work(j, S) ==
  /\ \A n \in S : owner[n] = j
  /\ working' = [working EXCEPT ![j] = S]
  /\ UNCHANGED owner

GiveBack(n) ==
  /\ \A j \in Jobs : n \notin working[j]
  /\ owner' = [owner EXCEPT ![n] = Free]
  /\ UNCHANGED working

Next ==
  \/ \E t \in Takers, S \in SUBSET Nodes : Take(t, S)
  \/ \E j \in Jobs, S \in SUBSET Nodes : Work(j, S)
  \/ \E n \in Nodes : GiveBack(n)

Spec == Init /\ [][Next]_vars
=============================================================================
