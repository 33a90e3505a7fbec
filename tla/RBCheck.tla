------------------------------ MODULE RBCheck -------------------------------
(***************************************************************************)
(* What conhash/CRBTree.cpp has for looking at a whole tree: the walk from *)
(* left to right and its own check. Both recurse and change nothing; they  *)
(* are called between the calls of RBTree.                                 *)
(***************************************************************************)
EXTENDS RBTree, Sequences

\* The nodes that rbtree_mid_travel visits, from each node
MidTravel ==
    LET s[x \in inside \cup {null}] ==
            IF x = null THEN << >>
            ELSE s[rbtree.child["left"][x]] \o <<x>> \o s[rbtree.child["right"][x]]
    IN  s

\* Mutant: what is left of the root is passed over.
TravelHalf == IF rbtree.root = null THEN << >> ELSE MidTravel[rbtree.child["right"][rbtree.root]]

util_rbtree_mid_travel == MidTravel[rbtree.root]

\* The code's own check, called for a.x with what it has found, rbh and fini, and
\* the number of black nodes above. A node without a left child ends the check
\* of its subtree.
CheckCalls == [x : inside, rbh : Nat, fini : 0..5, above : Nat]

CheckAt(check, a) ==
    LET x     == a.x
        l     == rbtree.child["left"][x]
        r     == rbtree.child["right"][x]
        black == IF rbtree.color[x] = "black" THEN a.above + 1 ELSE a.above
        Call(y, c) == check[[x |-> y, rbh |-> c.rbh, fini |-> c.fini, above |-> black]]
        Fail(c, code) == [rbh |-> c.rbh, fini |-> code]
        Ends(c) == LET b == IF c.rbh = 0 THEN black ELSE c.rbh
                   IN  [rbh |-> b, fini |-> IF b # black THEN 3 ELSE c.fini]
        RedRed(y) == rbtree.color[x] = "red" /\ rbtree.color[y] = "red"
        c1 == Call(l, a)
    IN  IF a.fini # 0 THEN Fail(a, a.fini)
        ELSE IF l = null THEN Ends(a)
        ELSE IF RedRed(l) THEN Fail(a, 4)
        ELSE IF Key[x] < Key[l] THEN Fail(a, 5)
        ELSE IF r = null THEN Ends(c1)
        ELSE IF RedRed(r) THEN Fail(c1, 4)
        ELSE IF Key[x] > Key[r] THEN Fail(c1, 5)
        ELSE Call(r, c1)

rbtree_check_subtree ==
    LET check[a \in CheckCalls] == CheckAt(check, a) IN check

util_rbtree_check ==
    IF rbtree.root = null THEN 0
    ELSE IF rbtree.color[rbtree.root] # "black" THEN 1
    ELSE rbtree_check_subtree[[x |-> rbtree.root, rbh |-> 0, fini |-> 0, above |-> 0]].fini

-----------------------------------------------------------------------------
\* util_rbtree_check accepts every tree that inserting and deleting makes, as long
\* as no insertion has climbed past the root.
CheckAccepts == pc = "idle" /\ ~strayed => util_rbtree_check = 0

\* That no calls at all, of nodes that were deleted too, leave a tree the check
\* finds fault with: what the check is there for.
AlwaysAccepted == pc = "idle" => util_rbtree_check = 0

\* util_rbtree_mid_travel visits each node once, in the order of the keys.
TravelsInOrder ==
    pc = "idle" =>
        LET s == util_rbtree_mid_travel
        IN  /\ {s[i] : i \in DOMAIN s} = inside /\ Len(s) = rbtree.size
            /\ \A i, j \in DOMAIN s : i < j => Key[s[i]] <= Key[s[j]]

=============================================================================
