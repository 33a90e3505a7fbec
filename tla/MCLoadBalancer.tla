--------------------------- MODULE MCLoadBalancer ---------------------------
(* Instances of LoadBalancer for TLC. *)
EXTENDS LoadBalancer, TLC

CONSTANTS c1, c2, c3, c4, w1, w2

HomeSame  == [c \in Clients |-> 0]
HomeSplit == [c \in Clients |-> IF c = c1 THEN 0 ELSE 1]
HomePartial == [c \in Clients |-> IF c = c1 THEN 0 ELSE Unrouted]

Symmetry == Permutations(Workers)
=============================================================================
