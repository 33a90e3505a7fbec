------------------------------ MODULE MCRBTree ------------------------------
(* Instances of RBTree for TLC: nodes are numbers, two of them share a key. *)
EXTENDS RBCheck

Twice == [n \in Nodes |-> IF n = 1 THEN 2 ELSE n]
=============================================================================
