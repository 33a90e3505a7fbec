------------------------------- MODULE RBSteps -------------------------------
(***************************************************************************)
(* What the loops of conhash/CRBTree.cpp do to a red-black tree in one     *)
(* pass: rotations, and the cases of both fixups. RBTree makes the loops   *)
(* and the operations of them.                                             *)
(*                                                                         *)
(* Nodes are the caller's, linked through left, right and parent; the      *)
(* sentinel inside the tree stands for every missing child. The code is    *)
(* written twice for the two sides of a node; here a side d is a           *)
(* parameter, and Other(d) its mirror.                                     *)
(***************************************************************************)
EXTENDS Integers

CONSTANTS
    Nodes,    \* the util_rbtree_node_t objects of the caller
    Key,      \* Key[n]: node->key
    null,     \* the sentinel, rbtree->null
    NULL      \* no object

ASSUME NodesAssumption ==
    /\ Key \in [Nodes -> Int]
    /\ null \notin Nodes /\ NULL \notin Nodes \cup {null}

Sides    == {"left", "right"}
Other(d) == IF d = "left" THEN "right" ELSE "left"
Objects  == Nodes \cup {null}

-----------------------------------------------------------------------------
\* The side of its parent x hangs on
SideOf(t, x) == IF t.child["left"][t.parent[x]] = x THEN "left" ELSE "right"

\* y takes x's place under x's parent, or as the root.
Replace(t, x, y) ==
    IF x = t.root THEN [t EXCEPT !.root = y]
    ELSE [t EXCEPT !.child[SideOf(t, x)][t.parent[x]] = y]

\* Mutant: the inner child is dropped.
RotateInnerLost(t, x, d) ==
    LET c == t.child[Other(d)][x]
        r == Replace([t EXCEPT !.parent[c] = t.parent[x]], x, c)
    IN  [r EXCEPT !.parent[x] = c, !.child[d][c] = x, !.child[Other(d)][x] = null]

\* rbtree_left_rotate for d = "left"; c comes up, its inner child i moves over.
Rotate(t, x, d) ==
    LET c == t.child[Other(d)][x]
        i == t.child[d][c]
        r == Replace([t EXCEPT !.parent[c] = t.parent[x]], x, c)
        s == [r EXCEPT !.parent[x] = c, !.child[d][c] = x, !.child[Other(d)][x] = i]
    IN  IF i = null THEN s ELSE [s EXCEPT !.parent[i] = x]

-----------------------------------------------------------------------------
\* rbtree_insert_fixup for a red x under a red parent: the parent's parent, and
\* the side of it the parent hangs on.
Grand(t, x)     == t.parent[t.parent[x]]
GrandSide(t, x) == SideOf(t, t.parent[x])
Uncle(t, x)     == t.child[Other(GrandSide(t, x))][Grand(t, x)]

\* Case 1: the uncle is red. The loop goes on with Grand(t, x).
Recoloured(t, x) == [t EXCEPT !.color[Uncle(t, x)] = "black", !.color[t.parent[x]] = "black",
                              !.color[Grand(t, x)] = "red"]

\* Case 2: x is on the inner side of its parent, which goes below it.
Inner(t, x)     == x = t.child[Other(GrandSide(t, x))][t.parent[x]]
Straight(t, x)  == IF Inner(t, x) THEN Rotate(t, t.parent[x], GrandSide(t, x)) ELSE t
Outermost(t, x) == IF Inner(t, x) THEN t.parent[x] ELSE x

\* Case 3: the parent comes up, for a node on the outer side.
Turned(t, x) ==
    LET p == t.parent[x]
        g == Grand(t, x)
    IN  Rotate([t EXCEPT !.color[p] = "black", !.color[g] = "red"], g, Other(SideOf(t, p)))

-----------------------------------------------------------------------------
\* rbtree_delete_fixup for x, which is one black short: its sibling.
Sibling(t, x) == t.child[Other(SideOf(t, x))][t.parent[x]]

\* A red sibling goes up, so that the next one is black.
SiblingUp(t, x) ==
    LET p == t.parent[x]
    IN  IF t.color[Sibling(t, x)] = "black" THEN t
        ELSE Rotate([t EXCEPT !.color[Sibling(t, x)] = "black", !.color[p] = "red"], p, SideOf(t, x))

\* The sibling's children, on x's side and on the other.
Near(t, x) == t.child[SideOf(t, x)][Sibling(t, x)]
Far(t, x)  == t.child[Other(SideOf(t, x))][Sibling(t, x)]

\* Both are black: the sibling loses one as well, and the loop goes on above.
Lowered(t, x) == [t EXCEPT !.color[Sibling(t, x)] = "red"]

\* Only the near one is red: it becomes the sibling.
FarRed(t, x) ==
    IF t.color[Far(t, x)] = "red" THEN t
    ELSE Rotate([t EXCEPT !.color[Near(t, x)] = "black", !.color[Sibling(t, x)] = "red"],
                Sibling(t, x), Other(SideOf(t, x)))

\* The far one is red: the sibling comes up and there is one black more above x.
Refilled(t, x) ==
    LET p == t.parent[x]
        w == Sibling(t, x)
    IN  Rotate([t EXCEPT !.color[w] = t.color[p], !.color[p] = "black",
                         !.color[Far(t, x)] = "black"],
               p, SideOf(t, x))

=============================================================================
