------------------------------ MODULE MCConHash ------------------------------
(* Instances of ConHash for TLC: n1 has two virtual nodes, the others one. *)
EXTENDS ConHash, TLC

CONSTANTS n1, n2, n3, o1

Counts == [n \in Node |-> IF n = n1 THEN 2 ELSE 1]

Symmetry == Permutations(Node \ {n1})
=============================================================================
