------------------------------- MODULE RBTree -------------------------------
(***************************************************************************)
(* The red-black tree of conhash/CRBTree.cpp, with its pointers. A call    *)
(* goes from pc = "idle" to "idle", one pass of a loop at a time; nothing  *)
(* else runs in between, as the callers are one thread. What the passes of *)
(* the fixups do is in RBSteps.                                            *)
(*                                                                         *)
(* A node may be inserted again after it was deleted: the caller frees it, *)
(* and its address comes back with a later allocation. Once an insertion   *)
(* has climbed past the root no further one is begun, and no deletion.     *)
(***************************************************************************)
EXTENDS RBSteps, FiniteSets

VARIABLES
    rbtree,   \* root, size, and the fields of all nodes
    inside,   \* history: the nodes in the tree
    strayed,  \* history: an insertion climbed past the root
    pc,       \* the loop a call is in, or what it has found
    node,     \* the node to insert or to delete; the best one of a lookup
    cur,      \* where the loop is
    key       \* the key to look for

vars == <<rbtree, inside, strayed, pc, node, cur, key>>

Keys == {Key[n] : n \in Nodes}

\* util_rbtree_init
Init ==
    /\ rbtree = [root   |-> null, size |-> 0,
                 child  |-> [d \in Sides |-> [x \in Objects |-> NULL]],
                 parent |-> [x \in Objects |-> NULL],
                 color  |-> [x \in Objects |-> "black"]]
    /\ inside = {} /\ strayed = FALSE
    /\ pc = "idle" /\ node = NULL /\ cur = NULL /\ key = NULL

GoTo(p, n, c) == pc' = p /\ node' = n /\ cur' = c
Return        == GoTo("idle", NULL, NULL) /\ key' = NULL

-----------------------------------------------------------------------------
\* Mutant: the comparison is turned round.
SideForSwapped(k, x) == IF k < Key[x] THEN "right" ELSE "left"

\* Where a node with key k hangs below x: keys that are equal go right.
SideFor(k, x) == IF k < Key[x] THEN "left" ELSE "right"

\* n, red and without children, becomes a child of y, or the root.
Hang(t, n, y) ==
    LET l == IF y = null THEN [t EXCEPT !.root = n]
             ELSE [t EXCEPT !.child[SideFor(Key[n], y)][y] = n]
    IN  [l EXCEPT !.parent[n] = y, !.child["left"][n] = null,
                  !.child["right"][n] = null, !.color[n] = "red"]

util_rbtree_insert(n) ==
    /\ pc = "idle" /\ ~strayed
    /\ n \notin inside
    /\ GoTo("place", n, rbtree.root)
    /\ UNCHANGED <<rbtree, inside, strayed, key>>

PlaceBelow ==
    /\ pc = "place" /\ cur # null
    /\ LET y == rbtree.child[SideFor(Key[node], cur)][cur]
       IN  y # null /\ GoTo("place", node, y)
    /\ UNCHANGED <<rbtree, inside, strayed, key>>

PlaceHere ==
    /\ pc = "place"
    /\ cur # null => rbtree.child[SideFor(Key[node], cur)][cur] = null
    /\ rbtree' = Hang(rbtree, node, cur)
    /\ inside' = inside \cup {node}
    /\ GoTo("insert_fixup", NULL, node)
    /\ UNCHANGED <<strayed, key>>

\* The root's link leads to a node that was given back to the allocator: its
\* colour is whatever is in that memory.
Stale == cur = rbtree.root /\ rbtree.parent[cur] \notin inside \cup {null}

\* Nothing stops the loop at the root: the root's parent may be a node that was
\* deleted, and inserted again elsewhere.
ParentRed == ~Stale /\ rbtree.color[rbtree.parent[cur]] = "red"

InsertFixupRecolours ==
    /\ pc = "insert_fixup"
    /\ ParentRed /\ rbtree.color[Uncle(rbtree, cur)] = "red"
    /\ rbtree' = Recoloured(rbtree, cur)
    /\ GoTo(pc, NULL, Grand(rbtree, cur))
    /\ strayed' = (strayed \/ cur = rbtree.root)
    /\ UNCHANGED <<inside, key>>

InsertFixupTurns ==
    /\ pc = "insert_fixup"
    /\ ParentRed /\ rbtree.color[Uncle(rbtree, cur)] = "black"
    /\ rbtree' = Turned(Straight(rbtree, cur), Outermost(rbtree, cur))
    /\ GoTo(pc, NULL, Outermost(rbtree, cur))
    /\ strayed' = (strayed \/ cur = rbtree.root)
    /\ UNCHANGED <<inside, key>>

\* Mutant: size is not counted up.
InsertFixupUncounted ==
    /\ pc = "insert_fixup"
    /\ Stale \/ rbtree.color[rbtree.parent[cur]] = "black"
    /\ rbtree' = [rbtree EXCEPT !.color[rbtree.root] = "black"]
    /\ Return
    /\ UNCHANGED <<inside, strayed>>

\* The loop ends, and util_rbtree_insert with it.
InsertFixupEnds ==
    /\ pc = "insert_fixup"
    /\ Stale \/ rbtree.color[rbtree.parent[cur]] = "black"
    /\ rbtree' = [rbtree EXCEPT !.color[rbtree.root] = "black", !.size = @ + 1]
    /\ Return
    /\ UNCHANGED <<inside, strayed>>

\* The loop goes on in memory that is not the tree's; what it does there is
\* not followed.
InsertFixupLost ==
    /\ pc = "insert_fixup" /\ Stale
    /\ strayed' = TRUE
    /\ GoTo("lost", NULL, NULL)
    /\ UNCHANGED <<rbtree, inside, key>>

-----------------------------------------------------------------------------
Clear(t, x) == [t EXCEPT !.child["left"][x] = NULL, !.child["right"][x] = NULL,
                         !.parent[x] = NULL]

\* temp, linked where n is, takes n's links and colour over.
TakeOver(t, n, temp) ==
    LET r == Replace([t EXCEPT !.parent[temp] = t.parent[n]], n, temp)
        l == t.child["left"][n]
        m == t.child["right"][n]
        s == [r EXCEPT !.child["left"][temp] = l, !.child["right"][temp] = m,
                       !.color[temp] = t.color[n]]
    IN  [s EXCEPT !.parent = [x \in Objects |->
                                 IF x # null /\ x \in {l, m} THEN temp ELSE s.parent[x]]]

\* The root is replaced without its child learning of it: parent of subst stays.
DeleteRoot(t, temp, subst) ==
    Clear([t EXCEPT !.root = subst, !.color[subst] = "black"], temp)

\* The only child of temp, or the sentinel
Subst(t, temp) ==
    IF t.child["left"][temp] # null THEN t.child["left"][temp] ELSE t.child["right"][temp]

\* temp's place goes to its child, and n's place to temp.
Unlinked(t, n, temp) ==
    LET subst == Subst(t, temp)
        t1 == [t EXCEPT !.parent[subst] = IF t.parent[temp] = n THEN temp ELSE t.parent[temp]]
        t2 == [t1 EXCEPT !.child[SideOf(t, temp)][t.parent[temp]] = subst]
    IN  Clear(IF temp = n THEN t2 ELSE TakeOver(t2, n, temp), n)

\* The node to unlink is n, or the least one on its right if n has two children.
util_rbtree_delete(n) ==
    /\ pc = "idle" /\ ~strayed
    /\ n \in inside
    /\ rbtree' = [rbtree EXCEPT !.size = @ - 1]
    /\ IF rbtree.child["left"][n] = null \/ rbtree.child["right"][n] = null
       THEN GoTo("unlink", n, n)
       ELSE GoTo("min", n, rbtree.child["right"][n])
    /\ UNCHANGED <<inside, strayed, key>>

\* util_rbsubtree_min, of the subtree at cur
MinBelow ==
    /\ pc \in {"min", "least"}
    /\ LET y == rbtree.child["left"][cur] IN y # null /\ GoTo(pc, node, y)
    /\ UNCHANGED <<rbtree, inside, strayed, key>>

MinFound ==
    /\ pc = "min" /\ rbtree.child["left"][cur] = null
    /\ GoTo("unlink", node, cur)
    /\ UNCHANGED <<rbtree, inside, strayed, key>>

\* Mutant: the colour of the node that is unlinked is not looked at.
MustFixNever(t, temp) == FALSE

MustFix(t, temp) == t.color[temp] = "black"

Unlink ==
    /\ pc = "unlink"
    /\ inside' = inside \ {node}
    /\ IF cur = rbtree.root
       THEN rbtree' = DeleteRoot(rbtree, cur, Subst(rbtree, cur)) /\ Return
       ELSE /\ rbtree' = Unlinked(rbtree, node, cur)
            /\ IF MustFix(rbtree, cur)
               THEN GoTo("delete_fixup", NULL, Subst(rbtree, cur)) /\ UNCHANGED key
               ELSE Return
    /\ UNCHANGED strayed

\* The condition of the loop in rbtree_delete_fixup
Short(t, x) == x # t.root /\ t.color[x] = "black"

\* No child of the sibling is red.
SiblingBare(t, x) == t.color[Near(t, x)] = "black" /\ t.color[Far(t, x)] = "black"

DeleteFixupLowers ==
    /\ pc = "delete_fixup" /\ Short(rbtree, cur)
    /\ LET t == SiblingUp(rbtree, cur)
       IN  SiblingBare(t, cur) /\ rbtree' = Lowered(t, cur)
    /\ GoTo(pc, NULL, rbtree.parent[cur])
    /\ UNCHANGED <<inside, strayed, key>>

DeleteFixupRefills ==
    /\ pc = "delete_fixup" /\ Short(rbtree, cur)
    /\ LET t == SiblingUp(rbtree, cur)
       IN  ~SiblingBare(t, cur) /\ rbtree' = Refilled(FarRed(t, cur), cur)
    /\ GoTo(pc, NULL, rbtree'.root)
    /\ UNCHANGED <<inside, strayed, key>>

DeleteFixupEnds ==
    /\ pc = "delete_fixup" /\ ~Short(rbtree, cur)
    /\ rbtree' = [rbtree EXCEPT !.color[cur] = "black"]
    /\ Return
    /\ UNCHANGED <<inside, strayed>>

-----------------------------------------------------------------------------
util_rbtree_search(k) ==
    /\ pc = "idle"
    /\ GoTo("search", NULL, rbtree.root) /\ key' = k
    /\ UNCHANGED <<rbtree, inside, strayed>>

\* Mutant: left and right are exchanged.
SearchTurned ==
    /\ pc = "search" /\ cur # null /\ key # Key[cur]
    /\ GoTo(pc, NULL, rbtree.child[Other(SideFor(key, cur))][cur])
    /\ UNCHANGED <<rbtree, inside, strayed, key>>

SearchBelow ==
    /\ pc = "search" /\ cur # null /\ key # Key[cur]
    /\ GoTo(pc, NULL, rbtree.child[SideFor(key, cur)][cur])
    /\ UNCHANGED <<rbtree, inside, strayed, key>>

SearchEnds ==
    /\ pc = "search" /\ (cur # null => key = Key[cur])
    /\ GoTo("searched", IF cur = null THEN NULL ELSE cur, NULL)
    /\ UNCHANGED <<rbtree, inside, strayed, key>>

util_rbtree_lookup(k) ==
    /\ pc = "idle"
    /\ GoTo("lookup", NULL, rbtree.root) /\ key' = k
    /\ UNCHANGED <<rbtree, inside, strayed>>

\* Mutant: equal keys are passed over.
LookupPast ==
    /\ pc = "lookup" /\ cur # null
    /\ IF key < Key[cur] THEN GoTo(pc, cur, rbtree.child["left"][cur])
       ELSE GoTo(pc, node, rbtree.child["right"][cur])
    /\ UNCHANGED <<rbtree, inside, strayed, key>>

LookupBelow ==
    /\ pc = "lookup" /\ cur # null
    /\ IF key <= Key[cur] THEN GoTo(pc, cur, rbtree.child["left"][cur])
       ELSE GoTo(pc, node, rbtree.child["right"][cur])
    /\ UNCHANGED <<rbtree, inside, strayed, key>>

\* Above the largest key the lookup goes round.
LookupEnds ==
    /\ pc = "lookup" /\ cur = null
    /\ IF node = NULL /\ rbtree.root # null THEN GoTo("least", NULL, rbtree.root)
       ELSE GoTo("looked_up", node, NULL)
    /\ UNCHANGED <<rbtree, inside, strayed, key>>

LookupLeast ==
    /\ pc = "least" /\ rbtree.child["left"][cur] = null
    /\ GoTo("looked_up", cur, NULL)
    /\ UNCHANGED <<rbtree, inside, strayed, key>>

\* The caller has the node.
Returned ==
    /\ pc \in {"searched", "looked_up"}
    /\ Return
    /\ UNCHANGED <<rbtree, inside, strayed>>

-----------------------------------------------------------------------------
Next ==
    \/ \E n \in Nodes : util_rbtree_insert(n) \/ util_rbtree_delete(n)
    \/ \E k \in Keys : util_rbtree_search(k) \/ util_rbtree_lookup(k)
    \/ PlaceBelow \/ PlaceHere
    \/ InsertFixupRecolours \/ InsertFixupTurns \/ InsertFixupEnds
    \/ InsertFixupLost \/ MinBelow \/ MinFound \/ Unlink
    \/ DeleteFixupLowers \/ DeleteFixupRefills \/ DeleteFixupEnds
    \/ SearchBelow \/ SearchEnds
    \/ LookupBelow \/ LookupEnds \/ LookupLeast \/ Returned

Spec == Init /\ [][Next]_vars

-----------------------------------------------------------------------------
\* Links lead to nodes, the sentinel or nowhere, the sentinel is black, and the
\* loops never leave the tree for a NULL pointer.
TypeOK ==
    /\ rbtree.root \in Objects
    /\ rbtree.size \in Nat
    /\ rbtree.child \in [Sides -> [Objects -> Objects \cup {NULL}]]
    /\ rbtree.parent \in [Objects -> Objects \cup {NULL}]
    /\ rbtree.color \in [Objects -> {"red", "black"}]
    /\ rbtree.color[null] = "black"
    /\ pc \in {"idle", "place", "insert_fixup", "min", "unlink", "delete_fixup",
               "search", "searched", "lookup", "least", "looked_up", "lost"}
    /\ node \in Nodes \cup {NULL}
    /\ pc \notin {"idle", "searched", "looked_up", "lost"} => cur \in inside \cup {null}
    /\ key \in Keys \cup {NULL}

\* The children are nodes of the tree and know their parents.
ParentsRight ==
    \A d \in Sides, x \in inside :
        LET c == rbtree.child[d][x]
        IN  c # null => c \in inside /\ c # rbtree.root /\ rbtree.parent[c] = x

\* The nodes that hang at each node and below
Below ==
    LET b[x \in inside \cup {null}] ==
            IF x = null THEN {}
            ELSE {x} \cup b[rbtree.child["left"][x]] \cup b[rbtree.child["right"][x]]
    IN  b

\* Also in the middle of a call exactly the nodes inserted and not deleted hang
\* in the tree, each once, in the order of their keys, with their parents'
\* links by which rotations and fixups climb; size counts them between calls.
HoldsInside ==
    LET b == Below
    IN  /\ ParentsRight
        /\ b[rbtree.root] = inside
        /\ \A x \in inside :
              /\ \A y \in b[rbtree.child["left"][x]] : y # x /\ Key[y] <= Key[x]
              /\ \A y \in b[rbtree.child["right"][x]] : y # x /\ Key[x] <= Key[y]
              /\ b[rbtree.child["left"][x]] \cap b[rbtree.child["right"][x]] = {}
        /\ pc = "idle" => rbtree.size = Cardinality(inside)

\* The black nodes on the way down from each node, keeping left
BlackHeight ==
    LET h[x \in inside \cup {null}] ==
            IF x = null THEN 0
            ELSE h[rbtree.child["left"][x]] + (IF rbtree.color[x] = "black" THEN 1 ELSE 0)
    IN  h

\* Between calls the tree is a red-black tree: black root, no red node under a
\* red one, the same number of black nodes on every way down.
RedBlack ==
    pc = "idle" /\ ~strayed =>
        /\ rbtree.color[rbtree.root] = "black"
        /\ \A x \in inside, d \in Sides :
              rbtree.color[x] = "red" => rbtree.color[rbtree.child[d][x]] = "black"
        /\ LET h == BlackHeight
           IN  \A x \in inside : h[rbtree.child["left"][x]] = h[rbtree.child["right"][x]]

\* util_rbtree_search finds a node with the key if there is one.
SearchFinds ==
    pc = "searched" => IF node = NULL THEN \A x \in inside : Key[x] # key
                       ELSE node \in inside /\ Key[node] = key

\* util_rbtree_lookup goes round: the least key that is not below the one asked
\* for, or the least of all; NULL only from an empty tree.
LookupWraps ==
    pc = "looked_up" =>
        LET above == {x \in inside : Key[x] >= key}
            from  == IF above = {} THEN inside ELSE above
        IN  IF node = NULL THEN inside = {}
            ELSE node \in from /\ \A x \in from : Key[node] <= Key[x]

=============================================================================
