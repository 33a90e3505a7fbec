----------------------------- MODULE MCMd5Stream -----------------------------
(* Instances of Md5Stream for TLC: what is appended is told by its length. *)
EXTENDS Md5Stream

PieceOf(n) == [i \in 1..n |-> (7 * n + i) % Radix]
Sizes == {PieceOf(n) : n \in {0, 1, 2, 5, 8, 9}}
=============================================================================
