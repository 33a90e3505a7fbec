---------------------------- MODULE RBTree_proofs ----------------------------
(***************************************************************************)
(* That every sequence of calls keeps a red-black tree of the nodes that   *)
(* were inserted, whatever their number and their keys, until an insertion *)
(* climbs past the root by the root's stale link, and that searches and    *)
(* lookups in it find what they should. Deleted nodes, or others at their  *)
(* addresses, may be inserted again. What a pass of a fixup keeps is in    *)
(* RBSteps_proofs.                                                         *)
(***************************************************************************)
EXTENDS RBCheck, RBSteps_proofs, FiniteSetTheorems, SequenceTheorems, WellFoundedInduction

-----------------------------------------------------------------------------
\* A set of nodes of a finite tree has one whose children are not in it.
LEMMA Lowest ==
    ASSUME NEW t, NEW S, NEW U, Linked(t, S), Under(t, S, U), IsFiniteSet(S),
           NEW Z, Z \subseteq S, Z # {}
    PROVE  \E z \in Z : \A d \in Sides : t.child[d][z] \notin Z
<1> DEFINE R == StrictSubsetOrdering(S)
           T == {U[z] : z \in Z}
<1>1. IsWellFoundedOn(R, SUBSET S)
  BY FS_StrictSubsetOrderingWellFounded, FS_FiniteSubsetsOfFinite
<1>2. T \subseteq SUBSET S /\ T # {}
  BY DEF Under
<1>3. PICK u \in T : \A v \in T : ~(<<v, u>> \in R)
  <2> HIDE DEF R, T
  <2> QED BY <1>1, <1>2, WFMin
<1>4. PICK z \in Z : u = U[z]
  BY <1>3
<1>5. ASSUME NEW d \in Sides, t.child[d][z] \in Z PROVE FALSE
  <2> DEFINE y == t.child[d][z]
  <2>1. U[y] \subseteq U[z] /\ z \in U[z] /\ z \notin U[y]
    BY <1>4, UnderFacts
  <2>2. U[y] \in T /\ U[y] \in SUBSET S /\ U[z] \in SUBSET S
    BY <1>2, <1>4, <1>5
  <2>3. <<U[y], U[z]>> \in R
    BY <2>1, <2>2 DEF StrictSubsetOrdering
  <2> QED BY <1>3, <1>4, <2>2, <2>3
<1> QED BY <1>5

\* What hangs below a node hangs there by its parent.
LEMMA UpOne ==
    ASSUME NEW t, NEW S, NEW U, Linked(t, S), Under(t, S, U), IsFiniteSet(S),
           NEW z \in S, NEW y \in U[z], y # z
    PROVE  y # t.root /\ t.parent[y] \in U[z]
<1> DEFINE Z == {v \in S : y \in U[v] /\ y # v /\ ~(y # t.root /\ t.parent[y] \in U[v])}
<1>1. y \in S /\ y # null /\ S \subseteq Nodes
  BY NodesAssumption DEF Under, Linked
<1>2. SUFFICES ASSUME Z # {} PROVE FALSE
  BY <1>1
<1>3. PICK v \in Z : \A d \in Sides : t.child[d][v] \notin Z
  <2>1. Z \subseteq S
    OBVIOUS
  <2> HIDE DEF Z
  <2> QED BY <1>2, <2>1, Lowest
<1>4. PICK d \in Sides : y \in U[t.child[d][v]]
  BY <1>3, TwoSides DEF Under
<1> DEFINE c == t.child[d][v]
<1>5. c \in S
  BY <1>3, <1>4 DEF Under, Linked
<1>6. U[c] \subseteq U[v] /\ v \in U[v]
  BY <1>3, <1>5, UnderFacts
<1>7. CASE c = y
  <2>1. t.parent[y] = v /\ y # t.root
    BY <1>1, <1>3, <1>7, LinkedFacts
  <2> QED BY <1>3, <1>6, <2>1
<1>8. CASE c # y
  BY <1>3, <1>4, <1>5, <1>6, <1>8
<1> QED BY <1>7, <1>8

\* The recursion of Below has one solution, what hangs at each node.
LEMMA BelowIs ==
    ASSUME NEW U, Linked(rbtree, inside), Under(rbtree, inside, U), IsFiniteSet(inside)
    PROVE  Below = U
<1> DEFINE l(x) == rbtree.child["left"][x]
           r(x) == rbtree.child["right"][x]
           D    == inside \cup {null}
           F(b) == [x \in D |-> IF x = null THEN {} ELSE {x} \cup b[l(x)] \cup b[r(x)]]
           B    == Below
<1>1. U = F(U)
  <2>1. U \in [D -> SUBSET inside] /\ U[null] = {}
    BY DEF Under
  <2>2. \A x \in D : U[x] = IF x = null THEN {} ELSE {x} \cup U[l(x)] \cup U[r(x)]
    BY DEF Under
  <2> QED BY <2>1, <2>2
<1>2. B = CHOOSE b : b = F(b)
  BY DEF Below
<1> HIDE DEF F, B
<1>3. B = F(B)
  BY <1>1, <1>2
<1> DEFINE Z == {x \in inside : B[x] # U[x]}
<1>4. B[null] = U[null] /\ null \notin inside
  BY <1>1, <1>3, NodesAssumption DEF F, Linked
<1>5. Z = {}
  <2> SUFFICES ASSUME Z # {} PROVE FALSE
    OBVIOUS
  <2>1. PICK z \in Z : \A d \in Sides : rbtree.child[d][z] \notin Z
    <3>1. Z \subseteq inside
      OBVIOUS
    <3> HIDE DEF Z
    <3> QED BY <3>1, Lowest
  <2>2. B[l(z)] = U[l(z)] /\ B[r(z)] = U[r(z)]
    BY <1>4, <2>1, TwoSides DEF Linked
  <2>3. B[z] = {z} \cup B[l(z)] \cup B[r(z)]
    BY <1>3, <1>4, <2>1 DEF F
  <2>4. U[z] = {z} \cup U[l(z)] \cup U[r(z)]
    BY <1>1, <1>4, <2>1 DEF F
  <2> QED BY <2>1, <2>2, <2>3, <2>4
<1>6. \A x \in D : B[x] = U[x]
  BY <1>4, <1>5
<1>7. B = [x \in D |-> B[x]] /\ U = [x \in D |-> U[x]]
  BY <1>1, <1>3 DEF F
<1> QED BY <1>6, <1>7 DEF B

\* So has that of BlackHeight, if all ways down have as many black nodes.
LEMMA BlackHeightIs ==
    ASSUME NEW U, Linked(rbtree, inside), Under(rbtree, inside, U), IsFiniteSet(inside),
           NEW g, Heights(rbtree, inside, g, {})
    PROVE  BlackHeight = g
<1> DEFINE l(x) == rbtree.child["left"][x]
           w(x) == IF rbtree.color[x] = "black" THEN 1 ELSE 0
           D    == inside \cup {null}
           F(h) == [x \in D |-> IF x = null THEN 0 ELSE h[l(x)] + w(x)]
           B    == BlackHeight
<1>0. null \notin inside
  BY NodesAssumption DEF Linked
<1>1. g = F(g)
  <2>1. g \in [D -> Nat] /\ g[null] = 0
    BY DEF Heights
  <2>2. ASSUME NEW x \in inside PROVE g[x] = g[l(x)] + w(x)
    <3>1. l(x) \in D
      BY TwoSides DEF Linked
    <3>2. g[x] = w(x) + g[l(x)] + Lack({}, x, "left") /\ g[l(x)] \in Nat
      BY <2>1, <3>1, TwoSides DEF Heights, Black
    <3> QED BY <3>2 DEF Lack
  <2> QED BY <1>0, <2>1, <2>2
<1>2. B = CHOOSE h : h = F(h)
  BY DEF BlackHeight
<1> HIDE DEF F, B
<1>3. B = F(B)
  BY <1>1, <1>2
<1> DEFINE Z == {x \in inside : B[x] # g[x]}
<1>4. B[null] = g[null]
  BY <1>1, <1>3 DEF F
<1>5. Z = {}
  <2> SUFFICES ASSUME Z # {} PROVE FALSE
    OBVIOUS
  <2>1. PICK z \in Z : \A d \in Sides : rbtree.child[d][z] \notin Z
    <3>1. Z \subseteq inside
      OBVIOUS
    <3> HIDE DEF Z
    <3> QED BY <3>1, Lowest
  <2>2. B[l(z)] = g[l(z)]
    BY <1>4, <2>1, TwoSides DEF Linked
  <2>3. B[z] = B[l(z)] + w(z) /\ g[z] = g[l(z)] + w(z)
    BY <1>0, <1>1, <1>3, <2>1 DEF F
  <2> QED BY <2>1, <2>2, <2>3
<1>6. \A x \in D : B[x] = g[x]
  BY <1>4, <1>5
<1>7. B = [x \in D |-> B[x]] /\ g = [x \in D |-> g[x]]
  BY <1>1, <1>3 DEF F
<1> QED BY <1>6, <1>7 DEF B

-----------------------------------------------------------------------------
\* What linking a new node leaves in each field.
LEMMA HangIs ==
    ASSUME NEW t \in Trees, NEW n \in Nodes, NEW y \in Objects, y # n
    PROVE  LET r == Hang(t, n, y)
           IN  /\ r \in Trees /\ r.size = t.size
               /\ r.root = IF y = null THEN n ELSE t.root
               /\ \A e \in Sides, a \in Objects :
                     r.child[e][a] = IF a = n THEN null
                                     ELSE IF y # null /\ a = y /\ e = SideFor(Key[n], y) THEN n
                                     ELSE t.child[e][a]
               /\ \A a \in Objects : r.parent[a] = IF a = n THEN y ELSE t.parent[a]
               /\ \A a \in Objects : r.color[a] = IF a = n THEN "red" ELSE t.color[a]
<1> DEFINE s   == SideFor(Key[n], y)
           rt  == IF y = null THEN n ELSE t.root
           ch1 == IF y = null THEN t.child ELSE [t.child EXCEPT ![s][y] = n]
           ch2 == [ch1 EXCEPT !["left"][n] = null]
           ch3 == [ch2 EXCEPT !["right"][n] = null]
           pa  == [t.parent EXCEPT ![n] = y]
           co  == [t.color EXCEPT ![n] = "red"]
           l   == IF y = null THEN [t EXCEPT !.root = n] ELSE [t EXCEPT !.child[s][y] = n]
           r   == Hang(t, n, y)
<1>0. /\ n \in Objects /\ null \in Objects /\ s \in Sides /\ "left" \in Sides /\ "right" \in Sides
      /\ t.child \in [Sides -> [Objects -> Objects \cup {NULL}]]
      /\ t.parent \in [Objects -> Objects \cup {NULL}]
      /\ t.color \in [Objects -> {"red", "black"}] /\ t.root \in Objects /\ t.size \in Int
      /\ t = [root |-> t.root, size |-> t.size, child |-> t.child, parent |-> t.parent, color |-> t.color]
  BY TwoSides DEF Trees, Objects, SideFor
<1>1. l = [root |-> rt, size |-> t.size, child |-> ch1, parent |-> t.parent, color |-> t.color]
  BY <1>0
<1>2. ch1 \in [Sides -> [Objects -> Objects \cup {NULL}]]
      /\ \A e \in Sides, a \in Objects :
            ch1[e][a] = IF y # null /\ a = y /\ e = s THEN n ELSE t.child[e][a]
  <2>1. CASE y = null
    BY <1>0, <2>1
  <2>2. CASE y # null
    <3> HIDE DEF s
    <3>1. ch1 = [t.child EXCEPT ![s][y] = n]
      BY <2>2
    <3> HIDE DEF ch1
    <3> QED BY <1>0, <2>2, <3>1, Relinked
  <2> QED BY <2>1, <2>2
<1>3. r = [l EXCEPT !.parent[n] = y, !.child["left"][n] = null, !.child["right"][n] = null,
                    !.color[n] = "red"]
  BY DEF Hang
<1> HIDE DEF ch1, l, rt, s
<1>4. ch2 \in [Sides -> [Objects -> Objects \cup {NULL}]]
      /\ \A e \in Sides, a \in Objects : ch2[e][a] = IF e = "left" /\ a = n THEN null ELSE ch1[e][a]
  BY <1>0, <1>2, Relinked
<1> HIDE DEF ch2
<1>5. ch3 \in [Sides -> [Objects -> Objects \cup {NULL}]]
      /\ \A e \in Sides, a \in Objects : ch3[e][a] = IF e = "right" /\ a = n THEN null ELSE ch2[e][a]
  BY <1>0, <1>4, Relinked
<1>6. r = [root |-> rt, size |-> t.size, child |-> ch3, parent |-> pa, color |-> co]
  <2> DEFINE u1 == [l EXCEPT !.parent[n] = y]
             u2 == [u1 EXCEPT !.child["left"][n] = null]
             u3 == [u2 EXCEPT !.child["right"][n] = null]
  <2>1. r = [u3 EXCEPT !.color[n] = "red"]
    BY <1>3
  <2> HIDE DEF r, ch3
  <2>2. u1 = [root |-> rt, size |-> t.size, child |-> ch1, parent |-> pa, color |-> t.color]
    BY <1>1
  <2> HIDE DEF u1, pa
  <2>3. u2 = [root |-> rt, size |-> t.size, child |-> ch2, parent |-> pa, color |-> t.color]
    BY <2>2 DEF ch2
  <2> HIDE DEF u2
  <2>4. u3 = [root |-> rt, size |-> t.size, child |-> ch3, parent |-> pa, color |-> t.color]
    BY <2>3 DEF ch3
  <2> HIDE DEF u3
  <2> QED BY <2>1, <2>4
<1>7. /\ pa \in [Objects -> Objects \cup {NULL}] /\ co \in [Objects -> {"red", "black"}]
      /\ \A a \in Objects : pa[a] = IF a = n THEN y ELSE t.parent[a]
      /\ \A a \in Objects : co[a] = IF a = n THEN "red" ELSE t.color[a]
  BY <1>0
<1>8. rt \in Objects
  BY <1>0 DEF rt
<1> HIDE DEF ch3, pa, co, r
<1>9. r \in Trees
  BY <1>0, <1>5, <1>6, <1>7, <1>8 DEF Trees
<1>10. r.root = rt /\ r.size = t.size /\ r.child = ch3 /\ r.parent = pa /\ r.color = co
  BY <1>6
<1>11. \A e \in Sides, a \in Objects :
          ch3[e][a] = IF a = n THEN null ELSE IF y # null /\ a = y /\ e = s THEN n ELSE t.child[e][a]
  <2>1. \A e \in Sides : e = "left" \/ e = "right"
    BY DEF Sides
  <2> QED BY <1>2, <1>4, <1>5, <2>1
<1> QED BY <1>7, <1>9, <1>10, <1>11 DEF r, rt, s

\* A node that is linked where its key belongs leaves a search tree.
LEMMA HangTree ==
    ASSUME NEW t, NEW S, NEW U, Linked(t, S), Under(t, S, U), NEW n \in Nodes \ S, NEW y \in S,
           t.child[SideFor(Key[n], y)][y] = null,
           \A z \in S, e \in Sides : y \in U[t.child[e][z]] => Before(e, n, z)
    PROVE  Tree(Hang(t, n, y), S \cup {n})
<1> DEFINE r == Hang(t, n, y)
           d == SideFor(Key[n], y)
           o == Other(d)
           c == t.child[o][y]
           Q == S \cup {n}
           V == [z \in Q \cup {null} |-> IF z = n THEN {n} ELSE IF y \in U[z] THEN U[z] \cup {n} ELSE U[z]]
<1>0. /\ t \in Trees /\ S \subseteq Nodes /\ n # null /\ y # null /\ y # n /\ null \notin S /\ n \notin S
      /\ n \in Objects /\ y \in Objects /\ null \in Objects /\ S \subseteq Objects /\ Q \subseteq Nodes
      /\ d \in Sides /\ o \in Sides /\ o # d /\ Other(o) = d /\ \A e \in Sides : e = d \/ e = o
  BY NodesAssumption, TwoSides DEF Linked, Objects, SideFor, Sides
<1>1. /\ r \in Trees /\ r.root = t.root
      /\ \A e \in Sides, a \in Objects :
            r.child[e][a] = IF a = n THEN null
                            ELSE IF a = y /\ e = d THEN n
                            ELSE t.child[e][a]
      /\ \A a \in Objects : r.parent[a] = IF a = n THEN y ELSE t.parent[a]
  BY <1>0, HangIs, SMTT(20)
<1>2. c \in S \cup {null} /\ t.child[d][y] = null /\ y \notin U[c] /\ U[y] = {y} \cup U[c]
  <2>1. c \in S \cup {null} /\ t.child[d][y] = null
    BY <1>0 DEF Linked
  <2>2. U[null] = {}
    BY DEF Under
  <2>3. U[y] = {y} \cup U[t.child[o][y]] \cup U[t.child[Other(o)][y]] /\ (\A v \in U[c] : v # y)
    BY <1>0, UnderFacts
  <2> QED BY <1>0, <2>1, <2>2, <2>3
<1>3. Before(d, n, y)
  <2>1. Key[n] \in Int /\ Key[y] \in Int
    BY <1>0, NodesAssumption
  <2> QED BY <2>1 DEF SideFor, Before
<1> HIDE DEF r, d, o
<1>4. Linked(r, Q)
  <2>1. t.root \in S
    BY DEF Under, Linked
  <2>2. \A z \in Q, e \in Sides : r.child[e][z] \in Q \cup {null}
    BY <1>0, <1>1 DEF Linked
  <2>3. ASSUME NEW z \in Q, NEW e \in Sides, r.child[e][z] # null
        PROVE  r.parent[r.child[e][z]] = z /\ r.child[e][z] # r.root
    <3>1. z # n
      BY <1>0, <1>1, <2>3
    <3>2. CASE z = y /\ e = d
      BY <1>0, <1>1, <2>1, <3>1, <3>2
    <3>3. CASE ~(z = y /\ e = d)
      <4>1. r.child[e][z] = t.child[e][z] /\ z \in S
        BY <1>0, <1>1, <3>1, <3>3
      <4>2. t.child[e][z] \in S /\ t.parent[t.child[e][z]] = z /\ t.child[e][z] # t.root
        BY <4>1, <2>3 DEF Linked
      <4> QED BY <1>0, <1>1, <4>1, <4>2
    <3> QED BY <3>2, <3>3
  <2>4. ASSUME NEW z \in Q, r.child["left"][z] = r.child["right"][z]
        PROVE  r.child["left"][z] = null
    <3>1. z = y => r.child[d][z] = n /\ r.child[o][z] = c /\ c # n
      BY <1>0, <1>1, <1>2
    <3>2. z # y
      BY <3>1, <2>4, <1>0 DEF Sides
    <3>3. CASE z = n
      BY <1>0, <1>1, <3>3, TwoSides
    <3>4. CASE z # n
      <4>1. r.child["left"][z] = t.child["left"][z] /\ r.child["right"][z] = t.child["right"][z] /\ z \in S
        BY <1>0, <1>1, <3>2, <3>4, TwoSides
      <4> QED BY <2>4, <4>1 DEF Linked
    <3> QED BY <3>3, <3>4
  <2>5. ASSUME NEW z \in Q, z # r.root
        PROVE  r.parent[z] \in Q /\ \E e \in Sides : r.child[e][r.parent[z]] = z
    <3>1. CASE z = n
      BY <1>0, <1>1, <3>1
    <3>2. CASE z # n
      <4>1. z \in S /\ r.parent[z] = t.parent[z] /\ t.parent[z] \in S
        BY <1>0, <1>1, <2>5, <3>2 DEF Linked
      <4>2. PICK e \in Sides : t.child[e][t.parent[z]] = z
        BY <1>1, <2>5, <4>1 DEF Linked
      <4>3. ~(t.parent[z] = y /\ e = d)
        BY <1>0, <1>2, <4>1, <4>2
      <4>4. r.child[e][t.parent[z]] = z
        BY <1>0, <1>1, <4>1, <4>2, <4>3
      <4> QED BY <4>1, <4>4
    <3> QED BY <3>1, <3>2
  <2> QED BY <1>0, <1>1, <2>1, <2>2, <2>3, <2>4, <2>5 DEF Linked
<1>5. V[null] = {} /\ V[n] = {n} /\ V[c] = U[c] /\ V[y] = U[y] \cup {n}
      /\ \A z \in S \cup {null} : V[z] = IF y \in U[z] THEN U[z] \cup {n} ELSE U[z]
  <2>1. U[null] = {}
    BY DEF Under
  <2>2. c \in Q \cup {null} /\ c # n
    BY <1>0, <1>2
  <2> QED BY <1>0, <1>2, <2>1, <2>2
<1>6. V \in [Q \cup {null} -> SUBSET Q]
  BY DEF Under
<1> HIDE DEF V
<1>7. V[r.root] = Q
  <2>1. t.root \in S \cup {null} /\ y \in U[t.root]
    BY DEF Linked, Under
  <2> QED BY <1>1, <1>5, <2>1 DEF Under
<1>8. ASSUME NEW z \in Q, NEW e \in Sides
      PROVE  /\ V[z] = {z} \cup V[r.child[e][z]] \cup V[r.child[Other(e)][z]]
             /\ \A v \in V[r.child[e][z]] :
                   v # z /\ Before(e, v, z) /\ v \notin V[r.child[Other(e)][z]]
  <2>0. Other(e) \in Sides
    BY TwoSides
  <2>1. CASE z = n
    BY <1>0, <1>1, <1>5, <2>0, <2>1
  <2>2. CASE z = y
    <3>1. r.child[d][y] = n /\ r.child[o][y] = c
      BY <1>0, <1>1
    <3>2. \A v \in U[c] : v # y /\ Before(o, v, y) /\ v \in S
      BY <1>0, UnderFacts
    <3>3. (e = d /\ Other(e) = o) \/ (e = o /\ Other(e) = d)
      BY <1>0 DEF o
    <3> QED BY <1>0, <1>2, <1>3, <1>5, <2>2, <3>1, <3>2, <3>3
  <2>3. CASE z # n /\ z # y
    <3> DEFINE a == t.child[e][z]
               b == t.child[Other(e)][z]
    <3>1. z \in S /\ r.child[e][z] = a /\ r.child[Other(e)][z] = b
      BY <1>0, <1>1, <2>0, <2>3
    <3>2. a \in S \cup {null} /\ b \in S \cup {null}
      BY <2>0, <3>1 DEF Linked
    <3>3. U[z] = {z} \cup U[a] \cup U[b] /\ \A v \in U[a] : v # z /\ Before(e, v, z) /\ v \notin U[b] /\ v \in S
      BY <3>1, UnderFacts
    <3>4. y \in U[a] => y \notin U[b] /\ Before(e, n, z)
      BY <3>1, <3>3
    <3>5. U[b] \subseteq S
      BY <3>2 DEF Under
    <3> HIDE DEF a, b
    <3>6. V[a] = (IF y \in U[a] THEN U[a] \cup {n} ELSE U[a]) /\ V[b] = (IF y \in U[b] THEN U[b] \cup {n} ELSE U[b])
          /\ V[z] = IF y \in U[z] THEN U[z] \cup {n} ELSE U[z]
      BY <1>5, <3>1, <3>2
    <3>7. V[z] = {z} \cup V[a] \cup V[b]
      BY <2>3, <3>3, <3>6
    <3>8. ASSUME NEW v \in V[a] PROVE v # z /\ Before(e, v, z) /\ v \notin V[b]
      <4>1. CASE v \in U[a]
        BY <1>0, <3>1, <3>3, <3>6, <4>1
      <4>2. CASE v \notin U[a]
        BY <1>0, <2>3, <3>4, <3>5, <3>6, <3>8, <4>2
      <4> QED BY <4>1, <4>2
    <3> QED BY <3>1, <3>7, <3>8
  <2> QED BY <2>1, <2>2, <2>3
<1>9. Under(r, Q, V)
  <2>1. \A z \in Q : V[z] = {z} \cup V[r.child["left"][z]] \cup V[r.child["right"][z]]
    BY <1>8, TwoSides DEF Other, Sides
  <2> QED BY <1>5, <1>6, <1>7, <1>8, <2>1 DEF Under
<1> QED BY <1>4, <1>9 DEF Tree, r

\* x is on the way to the place of n: n is on the right side of all above x.
PlaceFor(t, S, n, x) ==
    /\ x \in S \cup {null} /\ (x = null => S = {})
    /\ \A U : Under(t, S, U) =>
          \A z \in S, d \in Sides : x \in U[t.child[d][z]] => Before(d, n, z)

\* A red-black tree of S, which may be empty, of size sz.
Settled(t, S, sz) ==
    \/ S = {} /\ t \in Trees /\ t.root = null /\ t.color[null] = "black" /\ t.size = sz
    \/ RedBlackTree(t, S, sz)

\* What rbtree_insert_fixup is called with.
LEMMA HangKeeps ==
    ASSUME NEW t, NEW S, NEW sz, Settled(t, S, sz), NEW n \in Nodes \ S,
           NEW x, PlaceFor(t, S, n, x), x # null => t.child[SideFor(Key[n], x)][x] = null
    PROVE  InsertLoop(Hang(t, n, x), S \cup {n}, sz, n)
<1> DEFINE r == Hang(t, n, x)
           Q == S \cup {n}
<1>0. n \in Objects /\ null \in Objects /\ n # null
  BY NodesAssumption DEF Objects
<1>1. CASE S = {}
  <2>1. x = null /\ t \in Trees /\ t.root = null /\ t.color[null] = "black" /\ t.size = sz
    BY <1>1 DEF PlaceFor, Settled, RedBlackTree, Standing
  <2>2. /\ r \in Trees /\ r.root = n /\ r.size = sz
        /\ \A e \in Sides : r.child[e][n] = null
        /\ r.parent[n] = null /\ r.color[n] = "red" /\ r.color[null] = "black"
    BY <1>0, <2>1, HangIs
  <2> HIDE DEF r
  <2>3. Q = {n}
    BY <1>1
  <2>4. Linked(r, Q)
    BY <1>0, <2>2, <2>3, TwoSides DEF Linked
  <2>5. Under(r, Q, [z \in Q \cup {null} |-> IF z = n THEN {n} ELSE {}])
    BY <1>0, <2>2, <2>3, TwoSides DEF Under
  <2>6. Standing(r, Q, sz)
    BY <1>0, <2>2, <2>3, <2>4, <2>5 DEF Standing, Tree
  <2>7. Reds(r, Q, {n})
    BY <1>0, <2>2, <2>3 DEF Reds
  <2>8. Heights(r, Q, [z \in Q \cup {null} |-> 0], {})
    BY <1>0, <2>2, <2>3 DEF Heights, Black, Lack
  <2>9. InsertLoop(r, Q, sz, n)
    BY <2>2, <2>3, <2>6, <2>7, <2>8 DEF InsertLoop
  <2> QED BY <2>9 DEF r
<1>2. CASE S # {}
  <2>1. RedBlackTree(t, S, sz)
    BY <1>2 DEF Settled
  <2>2. PICK U : Linked(t, S) /\ Under(t, S, U)
    BY <2>1 DEF RedBlackTree, Standing, Tree
  <2>3. x \in S /\ x # null /\ x # n /\ x \in Objects /\ n \notin S /\ null \notin S /\ S \subseteq Objects
        /\ t.parent[t.root] \in Objects /\ t.root # n /\ t.color[null] = "black" /\ t.root \in S /\ t \in Trees
    BY <1>2, <2>1, <2>2, NodesAssumption DEF PlaceFor, Linked, Objects, RedBlackTree, Standing
  <2>4. Tree(r, Q)
    BY <2>2, <2>3, HangTree DEF PlaceFor
  <2> DEFINE d == SideFor(Key[n], x)
  <2>5. /\ r.root = t.root /\ r.size = t.size
        /\ \A e \in Sides, a \in Objects :
              r.child[e][a] = IF a = n THEN null ELSE IF a = x /\ e = d THEN n ELSE t.child[e][a]
        /\ \A a \in Objects : r.parent[a] = IF a = n THEN x ELSE t.parent[a]
        /\ \A a \in Objects : r.color[a] = IF a = n THEN "red" ELSE t.color[a]
    BY <2>3, HangIs
  <2>6. t.child[d][x] = null /\ d \in Sides
    BY <2>3 DEF SideFor, Sides
  <2> HIDE DEF r, d
  <2>7. Standing(r, Q, sz) /\ r.color[r.root] = "black"
    BY <1>0, <2>1, <2>3, <2>4, <2>5 DEF RedBlackTree, Standing
  <2>8. \A z \in S, e \in Sides : t.child[e][z] \in S \cup {null} /\ t.child[e][z] # n
    BY <1>0, <2>2, <2>3 DEF Linked
  <2>9. Reds(r, Q, {n})
    <3> SUFFICES ASSUME NEW z \in Q, NEW e \in Sides, r.color[z] = "red", r.color[r.child[e][z]] = "red",
                        r.child[e][z] # n
                 PROVE  FALSE
      BY DEF Reds
    <3>1. z # n
      BY <1>0, <2>3, <2>5
    <3>2. z \in S /\ r.child[e][z] = t.child[e][z]
      BY <2>3, <2>5, <3>1
    <3>3. t.color[z] = "red" /\ t.color[t.child[e][z]] = "red"
      BY <1>0, <2>3, <2>5, <2>8, <3>1, <3>2
    <3> QED BY <2>1, <3>2, <3>3 DEF RedBlackTree, Reds
  <2>10. PICK h : Heights(t, S, h, {})
    BY <2>1 DEF RedBlackTree
  <2> DEFINE k == [z \in Q \cup {null} |-> IF z = n THEN 0 ELSE h[z]]
  <2>11. k \in [Q \cup {null} -> Nat] /\ k[null] = 0 /\ k[n] = 0 /\ \A z \in S \cup {null} : k[z] = h[z]
    BY <1>0, <2>3, <2>10 DEF Heights
  <2> HIDE DEF k
  <2>12. ASSUME NEW z \in Q, NEW e \in Sides
         PROVE  k[z] = Black(r, z) + k[r.child[e][z]] + Lack({}, z, e)
    <3>0. Lack({}, z, e) = 0
      BY DEF Lack
    <3>1. CASE z = n
      BY <1>0, <2>5, <2>11, <3>0, <3>1 DEF Black
    <3>2. CASE z # n
      <4>1. z \in S /\ Black(r, z) = Black(t, z)
        BY <2>3, <2>5, <3>2 DEF Black
      <4>2. h[z] = Black(t, z) + h[t.child[e][z]] + 0
        BY <2>10, <3>0, <4>1 DEF Heights
      <4>3. k[r.child[e][z]] = h[t.child[e][z]]
        <5>1. CASE z = x /\ e = d
          BY <2>3, <2>5, <2>6, <2>10, <2>11, <5>1 DEF Heights
        <5>2. CASE ~(z = x /\ e = d)
          BY <2>3, <2>5, <2>8, <2>11, <3>2, <4>1, <5>2
        <5> QED BY <5>1, <5>2
      <4> QED BY <2>11, <3>0, <4>1, <4>2, <4>3
    <3> QED BY <3>1, <3>2
  <2>13. Heights(r, Q, k, {})
    BY <2>11, <2>12 DEF Heights
  <2>14. InsertLoop(r, Q, sz, n)
    BY <1>0, <2>5, <2>7, <2>9, <2>13 DEF InsertLoop
  <2> QED BY <2>14 DEF r
<1> QED BY <1>1, <1>2

\* The way to the place goes on below.
LEMMA PlaceOn ==
    ASSUME NEW t, NEW S, Linked(t, S), IsFiniteSet(S), NEW n \in Nodes, NEW x, PlaceFor(t, S, n, x),
           x # null, t.child[SideFor(Key[n], x)][x] # null
    PROVE  PlaceFor(t, S, n, t.child[SideFor(Key[n], x)][x])
<1> DEFINE d == SideFor(Key[n], x)
           y == t.child[d][x]
<1>1. x \in S /\ d \in Sides /\ x \in Nodes /\ null \notin S
  BY NodesAssumption DEF PlaceFor, SideFor, Sides, Linked
<1>2. y \in S /\ t.parent[y] = x
  BY <1>1 DEF Linked
<1>3. ASSUME NEW U, Under(t, S, U), NEW z \in S, NEW e \in Sides, y \in U[t.child[e][z]]
      PROVE  Before(e, n, z)
  <2> DEFINE c == t.child[e][z]
  <2>1. c \in S
    BY <1>1, <1>3 DEF Linked, Under
  <2>2. CASE c = y
    <3>1. z = x /\ e = d
      <4>1. z # null /\ x # null /\ t.child[e][z] = y /\ t.child[d][x] = y
        BY <1>1, <2>2
      <4> HIDE DEF y, d
      <4> QED BY <1>1, <1>2, <4>1, LinkedFacts
    <3>2. Key[n] \in Int /\ Key[x] \in Int
      BY <1>1, NodesAssumption
    <3> QED BY <3>1, <3>2 DEF SideFor, Before
  <2>3. CASE c # y
    <3>1. x \in U[c]
      BY <1>2, <1>3, <2>1, <2>3, UpOne
    <3> QED BY <1>3, <3>1 DEF PlaceFor
  <2> QED BY <2>2, <2>3
<1> QED BY <1>1, <1>2, <1>3 DEF PlaceFor

\* It begins at the root.
LEMMA PlaceBegins ==
    ASSUME NEW t, NEW S, Linked(t, S), IsFiniteSet(S), NEW n \in Nodes, (t.root = null) <=> (S = {})
    PROVE  PlaceFor(t, S, n, t.root)
<1>1. t.root \in S \cup {null}
  BY DEF Linked
<1>2. ASSUME NEW U, Under(t, S, U), NEW z \in S, NEW d \in Sides, t.root \in U[t.child[d][z]]
      PROVE  FALSE
  <2> DEFINE c == t.child[d][z]
  <2>1. c \in S /\ c # t.root /\ c # null
    BY <1>2, NodesAssumption DEF Linked, Under
  <2> QED BY <1>2, <2>1, UpOne
<1> QED BY <1>1, <1>2 DEF PlaceFor

-----------------------------------------------------------------------------
\* A link to a parent or to a child that is changed.
Bend(t, a, v)     == [t EXCEPT !.parent[a] = v]
Point(t, d, a, v) == [t EXCEPT !.child[d][a] = v]

\* What that leaves in each field.
LEMMA BendIs ==
    ASSUME NEW t \in Trees, NEW a \in Objects, NEW v \in Objects \cup {NULL}
    PROVE  LET u == Bend(t, a, v)
           IN  /\ u \in Trees /\ u.root = t.root /\ u.size = t.size
               /\ u.child = t.child /\ u.color = t.color
               /\ \A z \in Objects : u.parent[z] = IF z = a THEN v ELSE t.parent[z]
<1> DEFINE u == Bend(t, a, v)
           f == [t.parent EXCEPT ![a] = v]
<1>1. /\ t.child \in [Sides -> [Objects -> Objects \cup {NULL}]]
      /\ t.parent \in [Objects -> Objects \cup {NULL}]
      /\ t.color \in [Objects -> {"red", "black"}] /\ t.root \in Objects /\ t.size \in Int
      /\ t = [root |-> t.root, size |-> t.size, child |-> t.child, parent |-> t.parent, color |-> t.color]
  BY DEF Trees
<1>2. f \in [Objects -> Objects \cup {NULL}] /\ \A z \in Objects : f[z] = IF z = a THEN v ELSE t.parent[z]
  BY <1>1
<1>3. u = [t EXCEPT !.parent = f]
  BY DEF Bend
<1> HIDE DEF f, u
<1>4. u = [root |-> t.root, size |-> t.size, child |-> t.child, parent |-> f, color |-> t.color]
  BY <1>1, <1>3
<1> QED BY <1>1, <1>2, <1>4 DEF Trees, u

\* Likewise for a child.
LEMMA PointIs ==
    ASSUME NEW t \in Trees, NEW d \in Sides, NEW a \in Objects, NEW v \in Objects \cup {NULL}
    PROVE  LET u == Point(t, d, a, v)
           IN  /\ u \in Trees /\ u.root = t.root /\ u.size = t.size
               /\ u.parent = t.parent /\ u.color = t.color
               /\ \A e \in Sides, z \in Objects :
                     u.child[e][z] = IF e = d /\ z = a THEN v ELSE t.child[e][z]
<1> DEFINE u == Point(t, d, a, v)
           f == [t.child EXCEPT ![d][a] = v]
<1>1. /\ t.child \in [Sides -> [Objects -> Objects \cup {NULL}]]
      /\ t.parent \in [Objects -> Objects \cup {NULL}]
      /\ t.color \in [Objects -> {"red", "black"}] /\ t.root \in Objects /\ t.size \in Int
      /\ t = [root |-> t.root, size |-> t.size, child |-> t.child, parent |-> t.parent, color |-> t.color]
  BY DEF Trees
<1>2. f \in [Sides -> [Objects -> Objects \cup {NULL}]]
      /\ \A e \in Sides, z \in Objects : f[e][z] = IF e = d /\ z = a THEN v ELSE t.child[e][z]
  BY <1>1, Relinked
<1>3. u = [root |-> t.root, size |-> t.size, child |-> f, parent |-> t.parent, color |-> t.color]
  BY <1>1 DEF Point
<1> HIDE DEF f, u
<1> QED BY <1>1, <1>2, <1>3 DEF Trees, u

\* What rbt_clear_node leaves in each field.
LEMMA ClearIs ==
    ASSUME NEW t \in Trees, NEW n \in Nodes
    PROVE  LET u == Clear(t, n)
           IN  /\ u \in Trees /\ u.root = t.root /\ u.size = t.size /\ u.color = t.color
               /\ \A z \in Objects \ {n} :
                     u.parent[z] = t.parent[z] /\ \A e \in Sides : u.child[e][z] = t.child[e][z]
<1> DEFINE a == Point(t, "left", n, NULL)
           b == Point(a, "right", n, NULL)
           u == Bend(b, n, NULL)
<1>1. Clear(t, n) = u
  BY DEF Clear, Point, Bend
<1>2. n \in Objects /\ NULL \in Objects \cup {NULL}
  BY DEF Objects
<1>3. /\ a \in Trees /\ a.root = t.root /\ a.size = t.size /\ a.parent = t.parent /\ a.color = t.color
      /\ \A e \in Sides, z \in Objects : a.child[e][z] = IF e = "left" /\ z = n THEN NULL ELSE t.child[e][z]
  BY <1>2, TwoSides, PointIs
<1> HIDE DEF a
<1>4. /\ b \in Trees /\ b.root = a.root /\ b.size = a.size /\ b.parent = a.parent /\ b.color = a.color
      /\ \A e \in Sides, z \in Objects : b.child[e][z] = IF e = "right" /\ z = n THEN NULL ELSE a.child[e][z]
  BY <1>2, <1>3, TwoSides, PointIs
<1> HIDE DEF b
<1>5. /\ u \in Trees /\ u.root = b.root /\ u.size = b.size /\ u.child = b.child /\ u.color = b.color
      /\ \A z \in Objects : u.parent[z] = IF z = n THEN NULL ELSE b.parent[z]
  BY <1>2, <1>4, BendIs, SMTT(20)
<1> HIDE DEF u
<1> QED BY <1>1, <1>3, <1>4, <1>5

\* What remains in each field when temp is linked where n is.
LEMMA TakeOverIs ==
    ASSUME NEW t \in Trees, NEW n \in Nodes, NEW m \in Nodes, m # n,
           \A d \in Sides : t.child[d][n] \in Objects, n # t.root => t.parent[n] \in Nodes
    PROVE  LET r == TakeOver(t, n, m)
           IN  /\ r \in Trees /\ r.size = t.size
               /\ r.root = IF n = t.root THEN m ELSE t.root
               /\ \A e \in Sides, z \in Objects :
                     r.child[e][z] = IF z = m THEN t.child[e][n]
                                     ELSE IF n # t.root /\ z = t.parent[n] /\ e = SideOf(t, n) THEN m
                                     ELSE t.child[e][z]
               /\ \A z \in Objects :
                     r.parent[z] = IF z # null /\ \E e \in Sides : z = t.child[e][n] THEN m
                                   ELSE IF z = m THEN t.parent[n] ELSE t.parent[z]
               /\ \A z \in Objects : r.color[z] = IF z = m THEN t.color[n] ELSE t.color[z]
<1> DEFINE p  == t.parent[n]
           s  == SideOf(t, n)
           lf == t.child["left"][n]
           rt == t.child["right"][n]
           a  == Bend(t, m, p)
           b  == IF n = t.root THEN [a EXCEPT !.root = m] ELSE Point(a, s, p, m)
           c  == Point(b, "left", m, lf)
           e  == Point(c, "right", m, rt)
           f  == Paint(e, m, t.color[n])
           g  == [x \in Objects |-> IF x # null /\ x \in {lf, rt} THEN m ELSE f.parent[x]]
           r  == TakeOver(t, n, m)
<1>0. /\ n \in Objects /\ m \in Objects /\ p \in Objects \cup {NULL} /\ s \in Sides
      /\ lf \in Objects /\ rt \in Objects /\ "left" \in Sides /\ "right" \in Sides
      /\ (n # t.root => p \in Objects) /\ t.color[n] \in {"red", "black"}
  BY TwoSides DEF Trees, Objects, SideOf
<1>t. n \in Objects /\ m \in Objects /\ p \in Objects \cup {NULL}
  BY <1>0
<1> HIDE DEF p
<1>1. /\ a \in Trees /\ a.root = t.root /\ a.size = t.size /\ a.child = t.child /\ a.color = t.color
      /\ \A z \in Objects : a.parent[z] = IF z = m THEN p ELSE t.parent[z]
  BY <1>t, BendIs
<1>2. SideOf(a, n) = s /\ a.parent[n] = p
  BY <1>0, <1>1 DEF SideOf, p
<1>3. Replace(a, n, m) = b
  <2> HIDE DEF a
  <2> QED BY <1>1, <1>2 DEF Replace, Point
<1>4. r = [f EXCEPT !.parent = g]
  <2>0. r = LET q == Replace(a, n, m)
                v == [q EXCEPT !.child["left"][m] = lf, !.child["right"][m] = rt, !.color[m] = t.color[n]]
            IN  [v EXCEPT !.parent = [x \in Objects |-> IF x # null /\ x \in {lf, rt} THEN m ELSE v.parent[x]]]
    BY DEF TakeOver, Bend, p
  <2> HIDE DEF r, lf, rt
  <2>1. r = LET v == [b EXCEPT !.child["left"][m] = lf, !.child["right"][m] = rt, !.color[m] = t.color[n]]
            IN  [v EXCEPT !.parent = [x \in Objects |-> IF x # null /\ x \in {lf, rt} THEN m ELSE v.parent[x]]]
    <3> HIDE DEF a, b
    <3> QED BY <1>3, <2>0
  <2> HIDE DEF b
  <2>2. f = [b EXCEPT !.child["left"][m] = lf, !.child["right"][m] = rt, !.color[m] = t.color[n]]
    BY DEF Point, Paint
  <2> HIDE DEF f
  <2> QED BY <2>1, <2>2
<1> HIDE DEF a, p, s, lf, rt
<1>5. /\ b \in Trees /\ b.root = (IF n = t.root THEN m ELSE t.root) /\ b.size = t.size
      /\ b.parent = a.parent /\ b.color = t.color
      /\ \A d \in Sides, z \in Objects :
            b.child[d][z] = IF n # t.root /\ d = s /\ z = p THEN m ELSE t.child[d][z]
  <2>1. CASE n = t.root
    <3>1. a = [root |-> a.root, size |-> a.size, child |-> a.child, parent |-> a.parent, color |-> a.color]
      BY <1>1 DEF Trees
    <3>2. b = [root |-> m, size |-> a.size, child |-> a.child, parent |-> a.parent, color |-> a.color]
      BY <2>1, <3>1
    <3> HIDE DEF b
    <3> QED BY <1>0, <1>1, <2>1, <3>2 DEF Trees
  <2>2. CASE n # t.root
    <3>1. b = Point(a, s, p, m)
      BY <2>2
    <3> HIDE DEF b
    <3>2. a \in Trees /\ s \in Sides /\ p \in Objects /\ m \in Objects \cup {NULL}
      BY <1>0, <1>1, <2>2
    <3>3. /\ b \in Trees /\ b.root = a.root /\ b.size = a.size
          /\ b.parent = a.parent /\ b.color = a.color
          /\ \A d \in Sides, z \in Objects : b.child[d][z] = IF d = s /\ z = p THEN m ELSE a.child[d][z]
      <4> DEFINE v == Point(a, s, p, m)
      <4>1. /\ v \in Trees /\ v.root = a.root /\ v.size = a.size
            /\ v.parent = a.parent /\ v.color = a.color
            /\ \A d \in Sides, z \in Objects : v.child[d][z] = IF d = s /\ z = p THEN m ELSE a.child[d][z]
        BY <3>2, PointIs
      <4>2. b = v
        BY <3>1
      <4> HIDE DEF v
      <4> QED BY <4>1, <4>2
    <3> QED BY <1>1, <2>2, <3>3
  <2> QED BY <2>1, <2>2
<1> HIDE DEF b
<1>6. /\ c \in Trees /\ c.root = b.root /\ c.size = b.size /\ c.parent = b.parent /\ c.color = b.color
      /\ \A d \in Sides, z \in Objects : c.child[d][z] = IF d = "left" /\ z = m THEN lf ELSE b.child[d][z]
  BY <1>0, <1>5, PointIs
<1> HIDE DEF c
<1>7. /\ e \in Trees /\ e.root = c.root /\ e.size = c.size /\ e.parent = c.parent /\ e.color = c.color
      /\ \A d \in Sides, z \in Objects : e.child[d][z] = IF d = "right" /\ z = m THEN rt ELSE c.child[d][z]
  BY <1>0, <1>6, PointIs
<1> HIDE DEF e
<1>8. /\ f \in Trees /\ f.root = e.root /\ f.size = e.size /\ f.child = e.child /\ f.parent = e.parent
      /\ \A z \in Objects : f.color[z] = IF z = m THEN t.color[n] ELSE e.color[z]
  <2> DEFINE k == t.color[n]
  <2>0. e \in Trees /\ m \in Objects
    BY <1>0, <1>7
  <2>1. k = "red" \/ k = "black"
    BY <1>0
  <2> HIDE DEF k
  <2> SUFFICES LET v == Paint(e, m, k)
               IN  /\ v \in Trees /\ v.root = e.root /\ v.size = e.size /\ v.child = e.child
                   /\ v.parent = e.parent
                   /\ \A z \in Objects : v.color[z] = IF z = m THEN k ELSE e.color[z]
    BY DEF k
  <2>2. CASE k = "red"
    BY <2>0, <2>2, PaintIs
  <2>3. CASE k = "black"
    BY <2>0, <2>3, PaintIs
  <2> QED BY <2>1, <2>2, <2>3
<1> HIDE DEF f
<1>9. /\ g \in [Objects -> Objects \cup {NULL}]
      /\ \A z \in Objects : g[z] = IF z # null /\ z \in {lf, rt} THEN m ELSE f.parent[z]
  BY <1>0, <1>8 DEF Trees
<1>10. f = [root |-> f.root, size |-> f.size, child |-> f.child, parent |-> f.parent, color |-> f.color]
  BY <1>8 DEF Trees
<1> HIDE DEF g, r
<1>11. r = [root |-> f.root, size |-> f.size, child |-> f.child, parent |-> g, color |-> f.color]
  BY <1>4, <1>10
<1>12. r \in Trees /\ r.root = f.root /\ r.size = f.size /\ r.child = f.child /\ r.parent = g /\ r.color = f.color
  BY <1>8, <1>9, <1>11 DEF Trees
<1>13. \A d \in Sides, z \in Objects :
          r.child[d][z] = IF z = m THEN t.child[d][n]
                          ELSE IF n # t.root /\ z = p /\ d = s THEN m ELSE t.child[d][z]
  <2>1. \A d \in Sides : d = "left" \/ d = "right"
    BY DEF Sides
  <2> QED BY <1>5, <1>6, <1>7, <1>8, <1>12, <2>1 DEF lf, rt
<1>14. \A z \in Objects : z \in {lf, rt} <=> \E d \in Sides : z = t.child[d][n]
  BY DEF lf, rt, Sides
<1>15. \A z \in Objects :
          r.parent[z] = IF z # null /\ (\E d \in Sides : z = t.child[d][n]) THEN m
                        ELSE IF z = m THEN p ELSE t.parent[z]
  BY <1>1, <1>5, <1>6, <1>7, <1>8, <1>9, <1>12, <1>14
<1> QED BY <1>5, <1>6, <1>7, <1>8, <1>12, <1>13, <1>15 DEF r, p, s

-----------------------------------------------------------------------------
\* In r the place of w has gone to s.
Drops(t, r, S, w, s) ==
    /\ r \in Trees /\ r.root = t.root /\ r.size = t.size
    /\ \A z \in S \ {w}, d \in Sides :
          r.child[d][z] = IF z = t.parent[w] /\ d = SideOf(t, w) THEN s ELSE t.child[d][z]
    /\ \A z \in Objects \ {w} : r.parent[z] = IF z = s THEN t.parent[w] ELSE t.parent[z]
    /\ \A z \in Objects : r.color[z] = t.color[z]

Without(S, U, w) == [z \in (S \ {w}) \cup {null} |-> U[z] \ {w}]

\* Who is around a node with one child at most.
LEMMA AroundDropped ==
    ASSUME NEW t, NEW S, NEW U, Linked(t, S), Under(t, S, U), NEW w \in S, w # t.root,
           NEW f \in Sides, t.child[Other(f)][w] = null, NEW s, s = t.child[f][w]
    PROVE  LET p == t.parent[w]
               e == SideOf(t, w)
           IN  /\ p \in S /\ p # w /\ e \in Sides /\ t.child[e][p] = w
               /\ s \in S \cup {null} /\ s # w /\ s # t.root /\ s # p /\ (s # null => t.parent[s] = w)
               /\ U[w] = {w} \cup U[s] /\ w \notin U[s] /\ U[null] = {}
               /\ t \in Trees /\ S \subseteq Nodes /\ S \subseteq Objects /\ null \notin S /\ null \in Objects
               /\ t.root \in S
               /\ \A z \in S, d \in Sides : t.child[d][z] = w => z = p /\ d = e
               /\ \A z \in S, d \in Sides : t.child[d][z] = s /\ s # null => z = w
               /\ \A z \in S : z # t.root /\ t.parent[z] = w => z = s
<1> DEFINE p == t.parent[w]
           e == SideOf(t, w)
<1>1. /\ t \in Trees /\ S \subseteq Nodes /\ S \subseteq Objects /\ null \notin S /\ null \in Objects
      /\ U[null] = {} /\ Other(f) \in Sides /\ \A d \in Sides : d = f \/ d = Other(f)
  BY NodesAssumption, TwoSides DEF Linked, Objects, Under
<1>2. t.root \in S
  BY <1>1 DEF Linked, Under
<1>3. p \in S /\ e \in Sides /\ t.child[e][p] = w
  BY <1>1, TwoSides, LinkedFacts
<1>4. p # w
  <2>1. w \in U[w] /\ \A y \in U[t.child[e][p]] : y # p
    BY <1>3, UnderFacts
  <2> QED BY <1>3, <2>1
<1>5. U[w] = {w} \cup U[s] /\ (\A y \in U[s] : y # w) /\ s \in S \cup {null}
  BY <1>1, UnderFacts DEF Linked
<1>6. s \in S => s \in U[s]
  BY <1>1, <1>5, TwoSides, UnderFacts
<1>7. s # null => t.parent[s] = w /\ s # t.root
  BY <1>1 DEF Linked
<1>8. s # p
  <2>1. \A y \in U[w] : y # p
    BY <1>3, UnderFacts
  <2> QED BY <1>1, <1>3, <1>5, <1>6, <2>1
<1>9. ASSUME NEW z \in S, NEW d \in Sides, t.child[d][z] = w PROVE z = p /\ d = e
  BY <1>1, <1>9, LinkedFacts
<1>10. ASSUME NEW z \in S, NEW d \in Sides, t.child[d][z] = s, s # null PROVE z = w
  BY <1>1, <1>7, <1>10 DEF Linked
<1>11. ASSUME NEW z \in S, z # t.root, t.parent[z] = w PROVE z = s
  <2>1. PICK d \in Sides : t.child[d][w] = z
    BY <1>11 DEF Linked
  <2> QED BY <1>1, <2>1
<1> QED BY <1>1, <1>2, <1>3, <1>4, <1>5, <1>6, <1>7, <1>8, <1>9, <1>10, <1>11

\* A search tree without it.
LEMMA DropTree ==
    ASSUME NEW t, NEW S, NEW U, Linked(t, S), Under(t, S, U), NEW w \in S, w # t.root,
           NEW f \in Sides, t.child[Other(f)][w] = null, NEW s, s = t.child[f][w],
           NEW r, Drops(t, r, S, w, s)
    PROVE  Linked(r, S \ {w}) /\ Under(r, S \ {w}, Without(S, U, w))
<1> DEFINE p == t.parent[w]
           e == SideOf(t, w)
           Q == S \ {w}
           V == Without(S, U, w)
<1>1. /\ p \in S /\ p # w /\ e \in Sides /\ t.child[e][p] = w
      /\ s \in S \cup {null} /\ s # w /\ s # t.root /\ s # p /\ (s # null => t.parent[s] = w)
      /\ U[w] = {w} \cup U[s] /\ w \notin U[s] /\ U[null] = {}
      /\ t \in Trees /\ S \subseteq Nodes /\ S \subseteq Objects /\ null \notin S /\ null \in Objects
      /\ t.root \in S
  BY AroundDropped
<1>2. /\ \A z \in S, d \in Sides : t.child[d][z] = w => z = p /\ d = e
      /\ \A z \in S, d \in Sides : t.child[d][z] = s /\ s # null => z = w
      /\ \A z \in S : z # t.root /\ t.parent[z] = w => z = s
  BY AroundDropped
<1>3. /\ r \in Trees /\ r.root = t.root
      /\ \A z \in Q, d \in Sides : r.child[d][z] = IF z = p /\ d = e THEN s ELSE t.child[d][z]
      /\ \A z \in Objects \ {w} : r.parent[z] = IF z = s THEN p ELSE t.parent[z]
  BY DEF Drops
<1> HIDE DEF p, e
<1>4. \A z \in Q, d \in Sides : r.child[d][z] \in Q \cup {null}
  BY <1>1, <1>2, <1>3 DEF Linked
<1>5. ASSUME NEW z \in Q, NEW d \in Sides, r.child[d][z] # null
      PROVE  r.parent[r.child[d][z]] = z /\ r.child[d][z] # r.root
  <2>1. CASE z = p /\ d = e
    BY <1>1, <1>3, <1>5, <2>1
  <2>2. CASE ~(z = p /\ d = e)
    <3>1. r.child[d][z] = t.child[d][z] /\ t.child[d][z] # w /\ t.child[d][z] # s
      BY <1>2, <1>3, <1>5, <2>2
    <3>2. t.child[d][z] \in S /\ t.parent[t.child[d][z]] = z /\ t.child[d][z] # t.root
      BY <1>5, <3>1 DEF Linked
    <3> QED BY <1>1, <1>3, <3>1, <3>2
  <2> QED BY <2>1, <2>2
<1>6. ASSUME NEW z \in Q, r.child["left"][z] = r.child["right"][z]
      PROVE  r.child["left"][z] = null
  <2>1. CASE z = p
    <3>1. Other(e) \in Sides /\ Other(e) # e /\ (e = "left" \/ e = "right")
      BY <1>1, TwoSides DEF Sides
    <3>2. r.child[e][z] = s /\ r.child[Other(e)][z] = t.child[Other(e)][z]
      BY <1>1, <1>3, <2>1, <3>1
    <3>3. s = t.child[Other(e)][z]
      BY <1>6, <3>1, <3>2 DEF Other
    <3>4. s = null
      BY <1>1, <1>2, <2>1, <3>1, <3>3
    <3> QED BY <1>6, <3>1, <3>2, <3>4
  <2>2. CASE z # p
    <3>1. r.child["left"][z] = t.child["left"][z] /\ r.child["right"][z] = t.child["right"][z]
      BY <1>3, <2>2, TwoSides
    <3> QED BY <1>6, <3>1 DEF Linked
  <2> QED BY <2>1, <2>2
<1>7. ASSUME NEW z \in Q, z # r.root
      PROVE  r.parent[z] \in Q /\ \E d \in Sides : r.child[d][r.parent[z]] = z
  <2>1. CASE z = s
    BY <1>1, <1>3, <2>1
  <2>2. CASE z # s
    <3>1. r.parent[z] = t.parent[z] /\ t.parent[z] \in S /\ t.parent[z] # w
      BY <1>1, <1>2, <1>3, <1>7, <2>2 DEF Linked
    <3>2. PICK d \in Sides : t.child[d][t.parent[z]] = z
      BY <1>3, <1>7 DEF Linked
    <3>3. ~(t.parent[z] = p /\ d = e)
      BY <1>1, <3>2
    <3> QED BY <1>3, <3>1, <3>2, <3>3
  <2> QED BY <2>1, <2>2
<1>8. Linked(r, Q)
  BY <1>1, <1>3, <1>4, <1>5, <1>6, <1>7 DEF Linked
<1>9. /\ V \in [Q \cup {null} -> SUBSET Q] /\ V[null] = {} /\ V[r.root] = Q
      /\ \A z \in Q \cup {null} : V[z] = U[z] \ {w}
  BY <1>1, <1>3 DEF Under, Without
<1> HIDE DEF V
<1>10. ASSUME NEW z \in Q, NEW d \in Sides
       PROVE  V[r.child[d][z]] = U[t.child[d][z]] \ {w}
  <2>1. CASE z = p /\ d = e
    BY <1>1, <1>3, <1>4, <1>9, <2>1
  <2>2. CASE ~(z = p /\ d = e)
    BY <1>3, <1>4, <1>9, <2>2
  <2> QED BY <2>1, <2>2
<1>11. \A z \in Q : V[z] = {z} \cup V[r.child["left"][z]] \cup V[r.child["right"][z]]
  <2> TAKE z \in Q
  <2>1. U[z] = {z} \cup U[t.child["left"][z]] \cup U[t.child["right"][z]]
    BY DEF Under
  <2> QED BY <1>9, <1>10, <2>1, TwoSides
<1>12. ASSUME NEW z \in Q, NEW d \in Sides, NEW y \in V[r.child[d][z]]
       PROVE  y # z /\ Before(d, y, z) /\ y \notin V[r.child[Other(d)][z]]
  <2>1. Other(d) \in Sides
    BY TwoSides
  <2>2. y \in U[t.child[d][z]]
    BY <1>10, <1>12
  <2>3. y # z /\ Before(d, y, z) /\ y \notin U[t.child[Other(d)][z]]
    BY <2>2, UnderFacts
  <2> QED BY <1>10, <2>1, <2>3
<1>13. Under(r, Q, V)
  BY <1>9, <1>11, <1>12 DEF Under
<1> QED BY <1>8, <1>13 DEF V

\* A red-black tree without it is one if it was red; otherwise the ways through
\* what is in its place have one black node less.
LEMMA DropStands ==
    ASSUME NEW t, NEW S, NEW sz, RedBlackTree(t, S, sz), NEW w \in S, w # t.root,
           NEW f \in Sides, t.child[Other(f)][w] = null, NEW s, s = t.child[f][w],
           NEW r, Drops(t, r, S, w, s)
    PROVE  IF t.color[w] = "black" THEN DeleteLoop(r, S \ {w}, sz, s)
           ELSE RedBlackTree(r, S \ {w}, sz)
<1> DEFINE p == t.parent[w]
           e == SideOf(t, w)
           Q == S \ {w}
<1>1. PICK U : Linked(t, S) /\ Under(t, S, U)
  BY DEF RedBlackTree, Standing, Tree
<1>2. PICK h : Heights(t, S, h, {})
  BY DEF RedBlackTree
<1>3. /\ p \in S /\ p # w /\ e \in Sides /\ t.child[e][p] = w
      /\ s \in S \cup {null} /\ s # w /\ s # t.root /\ s # p /\ (s # null => t.parent[s] = w)
      /\ t \in Trees /\ S \subseteq Nodes /\ S \subseteq Objects /\ null \notin S /\ null \in Objects
      /\ t.root \in S
      /\ \A z \in S, d \in Sides : t.child[d][z] = s /\ s # null => z = w
  BY <1>1, AroundDropped
<1>4. Tree(r, Q)
  BY <1>1, DropTree DEF Tree
<1>5. /\ r \in Trees /\ r.root = t.root /\ r.size = t.size
      /\ \A z \in Q, d \in Sides : r.child[d][z] = IF z = p /\ d = e THEN s ELSE t.child[d][z]
      /\ \A z \in Objects \ {w} : r.parent[z] = IF z = s THEN p ELSE t.parent[z]
      /\ \A z \in Objects : r.color[z] = t.color[z]
  BY DEF Drops
<1>6. /\ t.parent[t.root] \in Objects /\ t.color[null] = "black"
      /\ t.color[t.root] = "black" /\ t.size = sz /\ Reds(t, S, {})
      /\ \A z \in Objects : t.color[z] \in {"red", "black"}
  BY <1>3 DEF RedBlackTree, Standing, Trees
<1>7. Standing(r, Q, sz) /\ r.color[r.root] = "black"
  BY <1>3, <1>4, <1>5, <1>6 DEF Standing
<1>8. h \in [S \cup {null} -> Nat] /\ h[null] = 0 /\ h[p] = Black(t, p) + h[w] /\ h[w] = Black(t, w) + h[s]
      /\ \A z \in S, d \in Sides : h[z] = Black(t, z) + h[t.child[d][z]]
  <2>1. \A z \in S, d \in Sides : Lack({}, z, d) = 0 /\ h[t.child[d][z]] \in Nat /\ Black(t, z) \in Nat
    BY <1>1, <1>2 DEF Lack, Heights, Linked, Black
  <2>2. \A z \in S, d \in Sides : h[z] = Black(t, z) + h[t.child[d][z]]
    BY <1>2, <2>1 DEF Heights
  <2> QED BY <1>2, <1>3, <2>2 DEF Heights
<1> HIDE DEF p, e
<1> DEFINE k == [z \in Q \cup {null} |-> h[z]]
<1>9. k \in [Q \cup {null} -> Nat] /\ k[null] = 0 /\ \A z \in Q \cup {null} : k[z] = h[z]
  BY <1>8
<1> HIDE DEF k
<1>10. \A z \in Q : Black(r, z) = Black(t, z)
  BY <1>3, <1>5 DEF Black
<1>11. \A z \in Q, d \in Sides : r.child[d][z] \in Q \cup {null}
  BY <1>4 DEF Tree, Linked
<1>12. \A z \in Q, d \in Sides :
          k[z] = Black(r, z) + k[r.child[d][z]] + IF z = p /\ d = e THEN Black(t, w) ELSE 0
  <2> TAKE z \in Q, d \in Sides
  <2>0. Black(t, w) \in Nat /\ Black(t, z) \in Nat /\ h[s] \in Nat
    BY <1>3, <1>8 DEF Black
  <2>1. CASE z = p /\ d = e
    BY <1>3, <1>5, <1>8, <1>9, <1>10, <1>11, <2>0, <2>1
  <2>2. CASE ~(z = p /\ d = e)
    <3>1. r.child[d][z] = t.child[d][z] /\ h[z] = Black(t, z) + h[t.child[d][z]] /\ h[t.child[d][z]] \in Nat
      BY <1>5, <1>8, <1>11, <2>2
    <3> QED BY <1>9, <1>10, <1>11, <2>0, <2>2, <3>1
  <2> QED BY <2>1, <2>2
<1>13. ASSUME NEW z \in Q, NEW d \in Sides, r.color[z] = "red", r.color[r.child[d][z]] = "red"
       PROVE  z = p /\ d = e /\ r.child[d][z] = s /\ t.color[p] = "red"
  <2>1. t.color[z] = "red"
    BY <1>3, <1>5, <1>13
  <2>2. r.child[d][z] = t.child[d][z] => t.color[t.child[d][z]] = "red"
    BY <1>3, <1>5, <1>11, <1>13
  <2> QED BY <1>5, <1>6, <2>1, <2>2 DEF Reds
<1>14. CASE t.color[w] = "black"
  <2>1. r.parent[s] = p /\ s # r.root
    BY <1>3, <1>5
  <2>2. SideOf(r, s) = e
    <3>1. CASE e = "left"
      BY <1>3, <1>5, <2>1, <3>1 DEF SideOf
    <3>2. CASE e = "right"
      <4>1. r.child["left"][p] = t.child["left"][p]
        BY <1>3, <1>5, <3>2, TwoSides
      <4>2. t.child["left"][p] # s
        <5>1. CASE s = null
          <6>1. Black(t, w) = 1 /\ h[p] = Black(t, p) + h[t.child["left"][p]] /\ Black(t, p) \in Nat
            BY <1>3, <1>8, <1>14, TwoSides DEF Black
          <6>2. h[w] = 1
            BY <1>8, <5>1, <6>1
          <6>3. t.child["left"][p] = null => h[p] = Black(t, p) + 0
            BY <1>8, <6>1
          <6> QED BY <1>8, <5>1, <6>1, <6>2, <6>3
        <5>2. CASE s # null
          BY <1>3, <5>2, TwoSides
        <5> QED BY <5>1, <5>2
      <4> QED BY <2>1, <3>2, <4>1, <4>2 DEF SideOf
    <3> QED BY <1>3, <3>1, <3>2 DEF Sides
  <2>3. ShortAt(r, s) = Place(p, e)
    BY <2>1, <2>2 DEF ShortAt
  <2>4. \A z, d : Lack(Place(p, e), z, d) = IF z = p /\ d = e THEN 1 ELSE 0
    BY DEF Lack, Place
  <2>5. Heights(r, Q, k, Place(p, e))
    <3>1. Black(t, w) = 1
      BY <1>14 DEF Black
    <3> QED BY <1>9, <1>12, <2>4, <3>1 DEF Heights
  <2>6. p \in Q /\ r.child[e][p] = s
    BY <1>3, <1>5
  <2>7. DeleteLoop(r, Q, sz, s)
    BY <1>3, <1>7, <1>13, <2>1, <2>2, <2>3, <2>5, <2>6 DEF DeleteLoop
  <2> QED BY <1>14, <2>7
<1>15. CASE t.color[w] = "red"
  <2>1. t.color[p] # "red"
    BY <1>3, <1>6, <1>15 DEF Reds
  <2>2. Reds(r, Q, {})
    BY <1>13, <2>1 DEF Reds
  <2>3. Heights(r, Q, k, {})
    <3>1. Black(t, w) = 0 /\ \A z, d : Lack({}, z, d) = 0
      BY <1>15 DEF Black, Lack
    <3> QED BY <1>9, <1>12, <3>1 DEF Heights
  <2> QED BY <1>7, <1>15, <2>2, <2>3 DEF RedBlackTree
<1> QED BY <1>3, <1>6, <1>14, <1>15

-----------------------------------------------------------------------------
\* In r the node m is where n was; s is the object the fixup is to start at.
Takes(t, r, S, n, m, s) ==
    /\ r \in Trees /\ r.size = t.size
    /\ r.root = IF t.root = n THEN m ELSE t.root
    /\ \A d \in Sides : r.child[d][m] = t.child[d][n]
    /\ \A z \in S \ {n}, d \in Sides :
          r.child[d][z] = IF t.child[d][z] = n THEN m ELSE t.child[d][z]
    /\ r.parent[m] = t.parent[n] /\ r.parent[r.root] \in Objects
    /\ \A z \in (S \cup {s}) \ {n} :
          z # t.root => r.parent[z] = IF t.parent[z] = n THEN m ELSE t.parent[z]
    /\ \A z \in Objects : r.color[z] = IF z = m THEN t.color[n] ELSE t.color[z]

\* The node of t whose place z has, and the node of r that has z's place.
Was(z, n, m)     == IF z = m THEN n ELSE z
Becomes(z, n, m) == IF z = n THEN m ELSE z

\* r node by node.
LEMMA TakenIs ==
    ASSUME NEW t, NEW S, Linked(t, S), NEW n \in S, NEW m \in Nodes \ S,
           \A d \in Sides : t.child[d][n] # n, NEW s \in S \cup {null}, s # n,
           NEW r, Takes(t, r, S, n, m, s)
    PROVE  LET Q == (S \ {n}) \cup {m}
           IN  /\ Q \subseteq Nodes /\ n # null /\ m # null /\ m # n /\ null \notin S /\ null \notin Q
               /\ \A z \in Q : Was(z, n, m) \in S /\ Becomes(Was(z, n, m), n, m) = z
               /\ \A z \in S \cup {null} : Becomes(z, n, m) \in Q \cup {null} /\ (Becomes(z, n, m) = null <=> z = null)
               /\ \A y, z \in S \cup {null} : Becomes(y, n, m) = Becomes(z, n, m) => y = z
               /\ \A z \in Q, d \in Sides : r.child[d][z] = Becomes(t.child[d][Was(z, n, m)], n, m)
               /\ \A z \in Q : Was(z, n, m) # t.root /\ (t.parent[Was(z, n, m)] # n \/ z # m) =>
                                  r.parent[z] = Becomes(t.parent[Was(z, n, m)], n, m)
               /\ r.root = Becomes(t.root, n, m)
<1> DEFINE Q == (S \ {n}) \cup {m}
<1>1. /\ Q \subseteq Nodes /\ n # null /\ m # null /\ m # n /\ null \notin S /\ null \notin Q
      /\ n \in S /\ m \notin S
  BY NodesAssumption DEF Linked
<1>2. \A z \in S, d \in Sides : t.child[d][z] \in S \cup {null}
  BY DEF Linked
<1>3. \A z \in Q : Was(z, n, m) \in S /\ Becomes(Was(z, n, m), n, m) = z
  BY <1>1 DEF Was, Becomes
<1>4. \A z \in S \cup {null} : Becomes(z, n, m) \in Q \cup {null} /\ (Becomes(z, n, m) = null <=> z = null)
  BY <1>1 DEF Becomes
<1>5. \A y, z \in S \cup {null} : Becomes(y, n, m) = Becomes(z, n, m) => y = z
  BY <1>1 DEF Becomes
<1>6. \A z \in Q, d \in Sides : r.child[d][z] = Becomes(t.child[d][Was(z, n, m)], n, m)
  BY <1>1, <1>2 DEF Takes, Was, Becomes
<1>7. \A z \in Q : Was(z, n, m) # t.root /\ (t.parent[Was(z, n, m)] # n \/ z # m) =>
                      r.parent[z] = Becomes(t.parent[Was(z, n, m)], n, m)
  BY <1>1 DEF Takes, Was, Becomes
<1>8. r.root = Becomes(t.root, n, m)
  BY DEF Takes, Becomes
<1> QED BY <1>1, <1>3, <1>4, <1>5, <1>6, <1>7, <1>8

\* A search tree with m in it for n.
LEMMA TakeTree ==
    ASSUME NEW t, NEW S, NEW U, Linked(t, S), Under(t, S, U), NEW n \in S, NEW m \in Nodes \ S,
           NEW s \in S \cup {null}, s # n, NEW r, Takes(t, r, S, n, m, s),
           \A d \in Sides : \A y \in U[t.child[d][n]] : Before(d, y, m),
           \A z \in S, d \in Sides : n \in U[t.child[d][z]] => Before(d, m, z)
    PROVE  Tree(r, (S \ {n}) \cup {m})
<1> DEFINE Q     == (S \ {n}) \cup {m}
           o(z)  == Was(z, n, m)
           a(z)  == Becomes(z, n, m)
           W(A)  == {v \in Q : o(v) \in A}
           V     == [z \in Q \cup {null} |-> IF z = null THEN {} ELSE W(U[o(z)])]
<1>0. \A z \in S, d \in Sides : t.child[d][z] # z /\ t.child[d][z] \in S \cup {null}
  <2> TAKE z \in S, d \in Sides
  <2>1. t.child[d][z] \in S \cup {null} /\ z \in Nodes
    BY DEF Linked
  <2>2. \A y \in U[t.child[d][z]] : y # z
    BY UnderFacts
  <2>3. t.child[d][z] \in S => t.child[d][z] \in U[t.child[d][z]]
    BY DEF Under
  <2> QED BY <2>1, <2>2, <2>3, NodesAssumption
<1>1. /\ Q \subseteq Nodes /\ n # null /\ m # null /\ m # n /\ null \notin S /\ null \notin Q
      /\ \A z \in Q : o(z) \in S /\ a(o(z)) = z
      /\ \A z \in S \cup {null} : a(z) \in Q \cup {null} /\ (a(z) = null <=> z = null)
      /\ \A y, z \in S \cup {null} : a(y) = a(z) => y = z
  BY <1>0, TakenIs
<1>2. /\ \A z \in Q, d \in Sides : r.child[d][z] = a(t.child[d][o(z)])
      /\ \A z \in Q : o(z) # t.root /\ (t.parent[o(z)] # n \/ z # m) => r.parent[z] = a(t.parent[o(z)])
      /\ r.root = a(t.root)
  BY <1>0, TakenIs
<1>3. /\ \A z \in S : a(z) # null /\ o(a(z)) = z
      /\ o(m) = n /\ a(n) = m /\ \A z \in Q : z # m => o(z) = z
  BY <1>1 DEF Was, Becomes
<1>4. \A z \in Q, d \in Sides : r.child[d][z] \in Q \cup {null}
  BY <1>0, <1>1, <1>2
<1> HIDE DEF o, a
<1>5. ASSUME NEW z \in Q, NEW d \in Sides, r.child[d][z] # null
      PROVE  r.parent[r.child[d][z]] = z /\ r.child[d][z] # r.root
  <2> DEFINE c == t.child[d][o(z)]
  <2>1. o(z) \in S /\ c \in S \cup {null} /\ r.child[d][z] = a(c) /\ a(c) # null /\ c # o(z)
    BY <1>0, <1>1, <1>2, <1>5
  <2>2. c \in S
    BY <1>1, <2>1
  <2>3. t.parent[c] = o(z) /\ c # t.root
    BY <1>1, <2>1, <2>2 DEF Linked
  <2> HIDE DEF c
  <2>4. a(c) \in Q /\ o(a(c)) = c
    BY <1>1, <1>3, <2>1, <2>2
  <2>5. t.parent[c] # n \/ a(c) # m
    BY <1>3, <2>1, <2>3, <2>4
  <2>6. r.parent[a(c)] = z
    BY <1>1, <1>2, <2>3, <2>4, <2>5
  <2>7. a(c) # r.root
    <3>1. t.root \in S \cup {null}
      BY DEF Linked
    <3> QED BY <1>1, <1>2, <2>2, <2>3, <3>1
  <2> QED BY <2>1, <2>6, <2>7
<1>6. ASSUME NEW z \in Q, r.child["left"][z] = r.child["right"][z]
      PROVE  r.child["left"][z] = null
  <2>1. t.child["left"][o(z)] = t.child["right"][o(z)] /\ o(z) \in S
    BY <1>0, <1>1, <1>2, <1>6, TwoSides
  <2>2. t.child["left"][o(z)] = null
    BY <2>1 DEF Linked
  <2> QED BY <1>1, <1>2, <2>2, TwoSides
<1>7. ASSUME NEW z \in Q, z # r.root
      PROVE  r.parent[z] \in Q /\ \E d \in Sides : r.child[d][r.parent[z]] = z
  <2>1. o(z) \in S /\ o(z) # t.root /\ a(o(z)) = z
    BY <1>1, <1>2, <1>7
  <2>2. t.parent[o(z)] \in S
    BY <2>1 DEF Linked
  <2>3. PICK d \in Sides : t.child[d][t.parent[o(z)]] = o(z)
    BY <2>1 DEF Linked
  <2>4. t.parent[o(z)] # n \/ z # m
    BY <1>0, <1>3, <2>2, <2>3
  <2>5. r.parent[z] = a(t.parent[o(z)]) /\ a(t.parent[o(z)]) \in Q /\ o(a(t.parent[o(z)])) = t.parent[o(z)]
    BY <1>1, <1>2, <1>3, <2>1, <2>2, <2>4
  <2>6. r.child[d][r.parent[z]] = z
    BY <1>2, <2>1, <2>3, <2>5
  <2> QED BY <2>5, <2>6
<1>8. Linked(r, Q)
  <2>1. r \in Trees /\ r.root \in Q \cup {null}
    BY <1>1, <1>2 DEF Takes, Linked
  <2> QED BY <1>1, <1>4, <1>5, <1>6, <1>7, <2>1 DEF Linked
<1>9. /\ V \in [Q \cup {null} -> SUBSET Q] /\ V[null] = {}
      /\ \A z \in Q : V[z] = W(U[o(z)])
  BY <1>1
<1>10. U[null] = {} /\ \A z \in S : U[z] \subseteq S
  BY DEF Under
<1> HIDE DEF V
<1>11. \A z \in S \cup {null} : V[a(z)] = W(U[z])
  BY <1>1, <1>3, <1>9, <1>10
<1>12. V[r.root] = Q
  <2>1. t.root \in S \cup {null} /\ U[t.root] = S
    BY DEF Linked, Under
  <2> QED BY <1>1, <1>2, <1>11, <2>1
<1>13. ASSUME NEW z \in Q, NEW d \in Sides
       PROVE  /\ V[z] = {z} \cup V[r.child[d][z]] \cup V[r.child[Other(d)][z]]
              /\ \A y \in V[r.child[d][z]] :
                    y # z /\ Before(d, y, z) /\ y \notin V[r.child[Other(d)][z]]
  <2> DEFINE c == t.child[d][o(z)]
             b == t.child[Other(d)][o(z)]
  <2>1. o(z) \in S /\ Other(d) \in Sides
    BY <1>1, TwoSides
  <2>2. V[r.child[d][z]] = W(U[c]) /\ V[r.child[Other(d)][z]] = W(U[b])
    BY <1>0, <1>2, <1>11, <2>1
  <2>3. U[o(z)] = {o(z)} \cup U[c] \cup U[b]
        /\ \A y \in U[c] : y # o(z) /\ Before(d, y, o(z)) /\ y \notin U[b]
    BY <2>1, UnderFacts
  <2>4. \A y \in Q : o(y) = o(z) => y = z
    BY <1>1
  <2>5. V[z] = {z} \cup W(U[c]) \cup W(U[b])
    BY <1>9, <2>3, <2>4
  <2>6. ASSUME NEW y \in Q, o(y) \in U[c]
        PROVE  y # z /\ Before(d, y, z) /\ o(y) \notin U[b]
    <3>1. y # z /\ o(y) \notin U[b] /\ Before(d, o(y), o(z))
      BY <2>3, <2>6
    <3>2. Before(d, y, z)
      <4>1. CASE y = m
        BY <1>3, <2>1, <2>6, <3>1, <4>1
      <4>2. CASE z = m
        BY <1>3, <2>1, <2>6, <3>1, <4>2
      <4>3. CASE y # m /\ z # m
        BY <1>3, <3>1, <4>3
      <4> QED BY <4>1, <4>2, <4>3
    <3> QED BY <3>1, <3>2
  <2> QED BY <2>2, <2>5, <2>6
<1>14. Under(r, Q, V)
  <2>1. \A z \in Q : V[z] = {z} \cup V[r.child["left"][z]] \cup V[r.child["right"][z]]
    BY <1>13, TwoSides DEF Other
  <2> QED BY <1>9, <1>12, <1>13, <2>1 DEF Under
<1> QED BY <1>8, <1>14 DEF Tree

\* It stays a red-black tree, or one with the fault the loop is to remove.
LEMMA TakeStands ==
    ASSUME NEW t, NEW S, NEW U, Linked(t, S), Under(t, S, U), NEW n \in S, NEW m \in Nodes \ S,
           NEW s \in S \cup {null}, s # n, NEW r, Takes(t, r, S, n, m, s),
           \A d \in Sides : \A y \in U[t.child[d][n]] : Before(d, y, m),
           \A z \in S, d \in Sides : n \in U[t.child[d][z]] => Before(d, m, z),
           NEW sz
    PROVE  LET Q == (S \ {n}) \cup {m}
           IN  /\ RedBlackTree(t, S, sz) => RedBlackTree(r, Q, sz)
               /\ DeleteLoop(t, S, sz, s) => DeleteLoop(r, Q, sz, s)
<1> DEFINE Q    == (S \ {n}) \cup {m}
           o(z) == Was(z, n, m)
           a(z) == Becomes(z, n, m)
<1>0. \A z \in S, d \in Sides : t.child[d][z] # z /\ t.child[d][z] \in S \cup {null}
  <2> TAKE z \in S, d \in Sides
  <2>1. t.child[d][z] \in S \cup {null} /\ z \in Nodes
    BY DEF Linked
  <2>2. \A y \in U[t.child[d][z]] : y # z
    BY UnderFacts
  <2>3. t.child[d][z] \in S => t.child[d][z] \in U[t.child[d][z]]
    BY DEF Under
  <2> QED BY <2>1, <2>2, <2>3, NodesAssumption
<1>1. /\ Q \subseteq Nodes /\ n # null /\ m # null /\ m # n /\ null \notin S /\ null \notin Q
      /\ \A z \in Q : o(z) \in S /\ a(o(z)) = z
      /\ \A z \in S \cup {null} : a(z) \in Q \cup {null} /\ (a(z) = null <=> z = null)
      /\ \A y, z \in S \cup {null} : a(y) = a(z) => y = z
  BY <1>0, TakenIs, SMTT(20)
<1>2. /\ \A z \in Q, d \in Sides : r.child[d][z] = a(t.child[d][o(z)])
      /\ r.root = a(t.root)
  BY <1>0, TakenIs
<1>3. /\ \A z \in S : a(z) # null /\ o(a(z)) = z
      /\ o(m) = n /\ a(n) = m /\ (\A z \in Q : z # m => o(z) = z) /\ a(s) = s /\ o(null) = null
      /\ \A z : z # n => a(z) = z
  BY <1>1 DEF Was, Becomes
<1>4. /\ S \subseteq Objects /\ null \in Objects /\ m \in Objects /\ n \in Objects
      /\ t \in Trees /\ m \notin S
      /\ t.color \in [Objects -> {"red", "black"}]
  BY <1>1 DEF Objects, Linked, Trees
<1>5. r.size = t.size /\ \A z \in Objects : r.color[z] = IF z = m THEN t.color[n] ELSE t.color[z]
  BY DEF Takes
<1>6. \A z \in S \cup {null} : r.color[a(z)] = t.color[z]
  BY <1>1, <1>3, <1>4, <1>5
<1>7. \A z \in Q : r.color[z] = t.color[o(z)] /\ Black(r, z) = Black(t, o(z))
  BY <1>1, <1>6 DEF Black
<1>8. Tree(r, Q)
  BY TakeTree
<1> HIDE DEF o, a, Q
<1>9. ASSUME Standing(t, S, sz) PROVE Standing(r, Q, sz) /\ r.color[r.root] = t.color[t.root]
  <2>1. /\ t.root \in S /\ t.color[null] = "black" /\ t.size = sz
    BY <1>9 DEF Standing
  <2>2. r.parent[r.root] \in Objects
    BY DEF Takes
  <2>3. r.root \in Q /\ r.color[r.root] = t.color[t.root]
    BY <1>1, <1>2, <1>6, <2>1
  <2>4. r.color[null] = "black"
    BY <1>1, <1>4, <1>5, <2>1 DEF Q
  <2> QED BY <1>5, <1>8, <2>1, <2>2, <2>3, <2>4 DEF Standing
<1>10. ASSUME NEW A, NEW B, NEW h, Heights(t, S, h, A),
              \A z \in Q, d \in Sides : Lack(B, z, d) = Lack(A, o(z), d)
       PROVE  \E k : Heights(r, Q, k, B)
  <2> DEFINE k == [z \in Q \cup {null} |-> h[o(z)]]
  <2>1. h \in [S \cup {null} -> Nat] /\ h[null] = 0
    BY <1>10 DEF Heights
  <2>2. k \in [Q \cup {null} -> Nat] /\ k[null] = 0 /\ \A z \in Q \cup {null} : k[z] = h[o(z)]
    BY <1>1, <1>3, <2>1
  <2> HIDE DEF k
  <2>3. \A z \in S \cup {null} : a(z) \in Q \cup {null} /\ k[a(z)] = h[z]
    BY <1>1, <1>3, <2>2
  <2>4. ASSUME NEW z \in Q, NEW d \in Sides
        PROVE  k[z] = Black(r, z) + k[r.child[d][z]] + Lack(B, z, d)
    <3>1. o(z) \in S /\ t.child[d][o(z)] \in S \cup {null}
      BY <1>0, <1>1
    <3>2. h[o(z)] = Black(t, o(z)) + h[t.child[d][o(z)]] + Lack(A, o(z), d)
      BY <1>10, <3>1 DEF Heights
    <3>3. k[r.child[d][z]] = h[t.child[d][o(z)]]
      BY <1>2, <2>3, <3>1
    <3>4. k[z] = h[o(z)] /\ Black(r, z) = Black(t, o(z)) /\ Lack(B, z, d) = Lack(A, o(z), d)
      BY <1>7, <1>10, <2>2
    <3> QED BY <3>2, <3>3, <3>4
  <2> QED BY <2>2, <2>4 DEF Heights
<1>11. ASSUME RedBlackTree(t, S, sz) PROVE RedBlackTree(r, Q, sz)
  <2>1. Standing(r, Q, sz) /\ r.color[r.root] = "black"
    BY <1>9, <1>11 DEF RedBlackTree
  <2>2. Reds(r, Q, {})
    <3> SUFFICES ASSUME NEW z \in Q, NEW d \in Sides, r.color[z] = "red", r.color[r.child[d][z]] = "red"
                 PROVE  FALSE
      BY DEF Reds
    <3>1. t.color[o(z)] = "red" /\ t.color[t.child[d][o(z)]] = "red" /\ o(z) \in S
      BY <1>0, <1>1, <1>2, <1>6, <1>7
    <3> QED BY <1>11, <3>1 DEF RedBlackTree, Reds
  <2>3. PICK h : Heights(t, S, h, {})
    BY <1>11 DEF RedBlackTree
  <2>4. \A z, y, d : Lack({}, z, d) = Lack({}, y, d)
    BY DEF Lack
  <2>5. \E k : Heights(r, Q, k, {})
    BY <1>10, <2>3, <2>4
  <2> QED BY <2>1, <2>2, <2>5 DEF RedBlackTree
<1>12. ASSUME DeleteLoop(t, S, sz, s) PROVE DeleteLoop(r, Q, sz, s)
  <2> DEFINE p == t.parent[s]
             e == SideOf(t, s)
  <2>1. Standing(r, Q, sz) /\ r.color[r.root] = "black"
    BY <1>9, <1>12 DEF DeleteLoop
  <2>2. t.root \in S /\ (s = r.root <=> s = t.root) /\ s \in Q \cup {null}
    BY <1>1, <1>2, <1>3, <1>12 DEF DeleteLoop, Standing
  <2>3. s # t.root => p \in S /\ t.child[e][p] = s /\ e \in Sides
    BY <1>12, TwoSides DEF DeleteLoop, SideOf
  <2>4. s # t.root => r.parent[s] = a(p) /\ a(p) \in Q
    <3>1. \A z \in (S \cup {s}) \ {n} :
             z # t.root => r.parent[z] = IF t.parent[z] = n THEN m ELSE t.parent[z]
      BY DEF Takes
    <3> QED BY <1>1, <1>3, <2>3, <3>1
  <2>5. s # t.root => SideOf(r, s) = e
    <3> SUFFICES ASSUME s # t.root PROVE SideOf(r, s) = e
      OBVIOUS
    <3>1. r.child["left"][a(p)] = a(t.child["left"][p]) /\ t.child["left"][p] \in S \cup {null}
      BY <1>0, <1>2, <1>3, <2>3, <2>4, TwoSides
    <3>2. r.child["left"][a(p)] = s <=> t.child["left"][p] = s
      BY <1>1, <1>3, <3>1
    <3> QED BY <2>4, <3>2 DEF SideOf
  <2>6. s # t.root => r.child[SideOf(r, s)][r.parent[s]] = s
    BY <1>2, <1>3, <2>3, <2>4, <2>5
  <2>7. ASSUME NEW z \in Q, NEW d \in Sides, r.color[z] = "red", r.color[r.child[d][z]] = "red"
        PROVE  s \in {z, r.child[d][z]}
    <3>1. t.color[o(z)] = "red" /\ t.color[t.child[d][o(z)]] = "red" /\ o(z) \in S
      BY <1>0, <1>1, <1>2, <1>6, <1>7, <2>7
    <3>2. s \in {o(z), t.child[d][o(z)]}
      BY <1>12, <3>1 DEF DeleteLoop
    <3> QED BY <1>1, <1>2, <1>3, <3>2
  <2>8. PICK h : Heights(t, S, h, ShortAt(t, s))
    BY <1>12 DEF DeleteLoop
  <2>9. \A z \in Q, d \in Sides : Lack(ShortAt(r, s), z, d) = Lack(ShortAt(t, s), o(z), d)
    <3>1. CASE s = t.root
      BY <2>2, <3>1, LackIs DEF ShortAt
    <3>2. CASE s # t.root
      <4>1. ShortAt(t, s) = Place(p, e) /\ ShortAt(r, s) = Place(a(p), e)
        BY <2>2, <2>4, <2>5, <3>2 DEF ShortAt
      <4>2. \A z \in Q : z = a(p) <=> o(z) = p
        BY <1>1, <1>3, <2>3, <3>2
      <4> QED BY <4>1, <4>2, LackIs
    <3> QED BY <3>1, <3>2
  <2>10. \E k : Heights(r, Q, k, ShortAt(r, s))
    BY <1>10, <2>8, <2>9
  <2> QED BY <2>1, <2>2, <2>4, <2>6, <2>7, <2>10 DEF DeleteLoop
<1> QED BY <1>11, <1>12 DEF Q

-----------------------------------------------------------------------------
\* What hangs at a node hangs at all above it.
LEMMA Within ==
    ASSUME NEW t, NEW S, NEW U, Linked(t, S), Under(t, S, U), IsFiniteSet(S),
           NEW z \in S \cup {null}, NEW y \in U[z]
    PROVE  U[y] \subseteq U[z]
<1> DEFINE Z == {v \in S : y \in U[v] /\ ~(U[y] \subseteq U[v])}
<1>1. U[null] = {}
  BY DEF Under
<1>2. SUFFICES ASSUME Z # {} PROVE FALSE
  BY <1>1
<1>3. PICK v \in Z : \A d \in Sides : t.child[d][v] \notin Z
  <2>1. Z \subseteq S
    OBVIOUS
  <2> HIDE DEF Z
  <2> QED BY <1>2, <2>1, Lowest
<1>4. PICK d \in Sides : y \in U[t.child[d][v]]
  BY <1>3, TwoSides DEF Under
<1>5. t.child[d][v] \in S
  BY <1>1, <1>3, <1>4, LinkedFacts
<1>6. U[t.child[d][v]] \subseteq U[v]
  BY <1>3, UnderFacts
<1> QED BY <1>3, <1>4, <1>5, <1>6

\* Subst is the child of a node that has one at most.
LEMMA SubstIs ==
    ASSUME NEW t, NEW w, \E d \in Sides : t.child[d][w] = null
    PROVE  \E f \in Sides : t.child[Other(f)][w] = null /\ Subst(t, w) = t.child[f][w]
<1>1. CASE t.child["left"][w] = null
  BY <1>1 DEF Subst, Sides, Other
<1>2. CASE t.child["left"][w] # null
  BY <1>2 DEF Subst, Sides, Other
<1> QED BY <1>1, <1>2

\* w's place goes to its child, if the child's parent is to be v.
Cut(t, w, v) == Point(Bend(t, Subst(t, w), v), SideOf(t, w), t.parent[w], Subst(t, w))

\* What that leaves in each field.
LEMMA CutIs ==
    ASSUME NEW t, NEW S, NEW U, Linked(t, S), Under(t, S, U), NEW w \in S, w # t.root,
           \E d \in Sides : t.child[d][w] = null, NEW v \in Nodes
    PROVE  LET q == Cut(t, w, v)
               s == Subst(t, w)
           IN  /\ q \in Trees /\ q.root = t.root /\ q.size = t.size /\ q.color = t.color
               /\ \A e \in Sides, z \in Objects :
                     q.child[e][z] = IF z = t.parent[w] /\ e = SideOf(t, w) THEN s ELSE t.child[e][z]
               /\ \A z \in Objects : q.parent[z] = IF z = s THEN v ELSE t.parent[z]
<1> DEFINE p == t.parent[w]
           e == SideOf(t, w)
           s == Subst(t, w)
           b == Bend(t, s, v)
           q == Point(b, e, p, s)
<1>1. PICK f \in Sides : t.child[Other(f)][w] = null /\ s = t.child[f][w]
  BY SubstIs
<1>2. /\ p \in S /\ e \in Sides /\ s \in S \cup {null} /\ t \in Trees
      /\ S \subseteq Objects /\ null \in Objects
  BY <1>1, AroundDropped
<1>3. s \in Objects /\ p \in Objects /\ v \in Objects \cup {NULL} /\ s \in Objects \cup {NULL}
  BY <1>2 DEF Objects
<1> HIDE DEF p, e, s
<1>4. /\ b \in Trees /\ b.root = t.root /\ b.size = t.size
      /\ b.child = t.child /\ b.color = t.color
      /\ \A z \in Objects : b.parent[z] = IF z = s THEN v ELSE t.parent[z]
  <2>1. t \in Trees /\ s \in Objects /\ v \in Objects \cup {NULL}
    BY <1>2, <1>3
  <2> QED BY <2>1, BendIs
<1> HIDE DEF b
<1>5. /\ q \in Trees /\ q.root = b.root /\ q.size = b.size
      /\ q.parent = b.parent /\ q.color = b.color
      /\ \A d \in Sides, z \in Objects :
            q.child[d][z] = IF d = e /\ z = p THEN s ELSE b.child[d][z]
  <2>1. b \in Trees /\ e \in Sides /\ p \in Objects /\ s \in Objects \cup {NULL}
    BY <1>2, <1>3, <1>4
  <2> QED BY <2>1, PointIs
<1> HIDE DEF q
<1> QED BY <1>4, <1>5 DEF q, b, p, e, s, Cut

\* So it is dropped.
LEMMA CutDrops ==
    ASSUME NEW t, NEW S, NEW U, Linked(t, S), Under(t, S, U), NEW w \in S, w # t.root,
           \E d \in Sides : t.child[d][w] = null
    PROVE  Drops(t, Cut(t, w, t.parent[w]), S, w, Subst(t, w))
<1>1. t.parent[w] \in Nodes /\ S \subseteq Objects
  BY DEF Linked, Objects
<1> DEFINE q == Cut(t, w, t.parent[w])
<1>2. /\ q \in Trees /\ q.root = t.root /\ q.size = t.size /\ q.color = t.color
      /\ \A e \in Sides, z \in Objects :
            q.child[e][z] = IF z = t.parent[w] /\ e = SideOf(t, w) THEN Subst(t, w) ELSE t.child[e][z]
      /\ \A z \in Objects : q.parent[z] = IF z = Subst(t, w) THEN t.parent[w] ELSE t.parent[z]
  BY <1>1, CutIs
<1> HIDE DEF q
<1> QED BY <1>1, <1>2 DEF Drops, q

\* What util_rbtree_delete leaves when the node that is deleted, not the root,
\* has one child at most: a red-black tree, or the fault the fixup is called with.
LEMMA UnlinkSelf ==
    ASSUME NEW t, NEW S, NEW sz, RedBlackTree(t, S, sz), NEW n \in S, n # t.root,
           \E d \in Sides : t.child[d][n] = null
    PROVE  LET r == Unlinked(t, n, n)
           IN  IF t.color[n] = "black" THEN DeleteLoop(r, S \ {n}, sz, Subst(t, n))
               ELSE RedBlackTree(r, S \ {n}, sz)
<1> DEFINE s == Subst(t, n)
           q == Cut(t, n, t.parent[n])
           r == Unlinked(t, n, n)
<1>1. PICK U : Linked(t, S) /\ Under(t, S, U)
  BY DEF RedBlackTree, Standing, Tree
<1>2. PICK f \in Sides : t.child[Other(f)][n] = null /\ s = t.child[f][n]
  BY SubstIs
<1>3. t.parent[n] \in S /\ t.parent[n] # n /\ n \in Nodes /\ S \subseteq Objects
  BY <1>1, <1>2, AroundDropped
<1>4. Drops(t, q, S, n, s)
  BY <1>1, CutDrops
<1>5. r = Clear(q, n)
  BY <1>3 DEF Unlinked, Cut, Bend, Point
<1> HIDE DEF q, r, s
<1>6. q \in Trees
  BY <1>4 DEF Drops
<1>7. /\ r \in Trees /\ r.root = q.root /\ r.size = q.size /\ r.color = q.color
      /\ \A z \in Objects \ {n} :
            r.parent[z] = q.parent[z] /\ \A e \in Sides : r.child[e][z] = q.child[e][z]
  BY <1>3, <1>5, <1>6, ClearIs
<1>8. Drops(t, r, S, n, s)
  BY <1>3, <1>4, <1>7 DEF Drops
<1>9. IF t.color[n] = "black" THEN DeleteLoop(r, S \ {n}, sz, s) ELSE RedBlackTree(r, S \ {n}, sz)
  BY <1>2, <1>8, DropStands
<1> QED BY <1>9 DEF r, s

\* Likewise when it has two, and m, the least node on its right, is unlinked in
\* its stead and takes its place.
LEMMA UnlinkOther ==
    ASSUME NEW t, NEW S, NEW sz, RedBlackTree(t, S, sz), IsFiniteSet(S),
           NEW n \in S, NEW m \in S, t.child["left"][m] = null,
           \A U : Under(t, S, U) =>
              /\ m \in U[t.child["right"][n]]
              /\ \A y \in U[t.child["right"][n]] : y = m \/ Key[m] <= Key[y]
    PROVE  LET r == Unlinked(t, n, m)
           IN  IF t.color[m] = "black" THEN DeleteLoop(r, S \ {n}, sz, Subst(t, m))
               ELSE RedBlackTree(r, S \ {n}, sz)
<1> DEFINE s == Subst(t, m)
           p == t.parent[m]
           q == Cut(t, m, p)
           v == IF p = n THEN m ELSE p
           u == Cut(t, m, v)
           w == TakeOver(u, n, m)
           r == Unlinked(t, n, m)
           Q == S \ {m}
<1>1. PICK U : Linked(t, S) /\ Under(t, S, U)
  BY DEF RedBlackTree, Standing, Tree
<1>2. /\ m \in U[t.child["right"][n]]
      /\ \A y \in U[t.child["right"][n]] : y = m \/ Key[m] <= Key[y]
  BY <1>1
<1>3. /\ m # n /\ Before("right", m, n) /\ m \in U[n] /\ t.child["right"][n] \in S
      /\ n \notin U[t.child["right"][n]]
  <2> DEFINE d == "right"
             c == t.child[d][n]
  <2> HIDE DEF s, p, q, v, u, w, r, Q
  <2>1. d \in Sides /\ m \in U[c]
    BY <1>2, TwoSides
  <2> HIDE DEF d
  <2>2. U[n] = {n} \cup U[c] \cup U[t.child[Other(d)][n]] /\ \A y \in U[c] : y # n /\ Before(d, y, n)
    BY <1>1, <2>1, UnderFacts
  <2>3. c \in S \cup {null} /\ U[null] = {}
    <3>1. U[null] = {}
      BY <1>1 DEF Under
    <3>2. t.child[d][n] \in S \cup {null}
      BY <1>1, <2>1, LinkedFacts
    <3> QED BY <3>1, <3>2
  <2> HIDE DEF c
  <2>4. m # n /\ Before(d, m, n) /\ m \in U[n] /\ c \in S /\ n \notin U[c]
    BY <2>1, <2>2, <2>3
  <2> QED BY <2>4 DEF d, c
<1>4. m # t.root /\ p \in U[n] /\ p \in S /\ t.root \in S
  <2>1. t.root \in S
    BY DEF RedBlackTree, Standing
  <2>2. m # t.root /\ t.parent[m] \in U[n]
    <3> HIDE DEF s, p, q, v, u, w, r, Q
    <3> QED BY <1>1, <1>3, UpOne
  <2>3. U[n] \subseteq S
    BY <1>1, TwoSides, UnderFacts
  <2> QED BY <2>1, <2>2, <2>3
<1>5. PICK f \in Sides : t.child[Other(f)][m] = null /\ s = t.child[f][m]
  BY TwoSides, SubstIs
<1>6. /\ p # m /\ s \in S \cup {null} /\ s # m /\ S \subseteq Nodes /\ S \subseteq Objects /\ null \in Objects
      /\ null \notin S /\ U[m] = {m} \cup U[s] /\ U[null] = {} /\ t \in Trees
  BY <1>1, <1>4, <1>5, AroundDropped
<1>7. s # n
  <2>1. U[m] \subseteq U[t.child["right"][n]]
    BY <1>1, <1>2, <1>3, Within
  <2>2. s = n => s \in U[s]
    BY <1>1, <1>5, TwoSides, UnderFacts
  <2> QED BY <1>3, <1>6, <2>1, <2>2
<1>8. t.parent[t.root] \in Objects
  BY DEF RedBlackTree, Standing
<1>9. Drops(t, q, S, m, s)
  BY <1>1, <1>4, TwoSides, CutDrops
<1>10. r = Clear(w, n)
  BY <1>3 DEF Unlinked, Cut, Bend, Point
<1>11. /\ u \in Trees /\ u.root = t.root /\ u.size = t.size /\ u.color = t.color
       /\ \A e \in Sides, z \in Objects :
             u.child[e][z] = IF z = p /\ e = SideOf(t, m) THEN s ELSE t.child[e][z]
       /\ \A z \in Objects : u.parent[z] = IF z = s THEN v ELSE t.parent[z]
  <2>1. v \in Nodes
    BY <1>4, <1>6
  <2> HIDE DEF v
  <2> QED BY <1>1, <1>4, <2>1, TwoSides, CutIs
<1>12. /\ q \in Trees /\ q.root = t.root /\ q.size = t.size
       /\ \A z \in Objects : q.color[z] = t.color[z]
       /\ \A z \in Q, e \in Sides :
             q.child[e][z] = IF z = p /\ e = SideOf(t, m) THEN s ELSE t.child[e][z]
       /\ \A z \in Objects \ {m} : q.parent[z] = IF z = s THEN p ELSE t.parent[z]
  BY <1>9 DEF Drops
<1> DEFINE V == Without(S, U, m)
<1>13. /\ Linked(q, Q) /\ Under(q, Q, V)
       /\ \A z \in Q, d \in Sides : V[q.child[d][z]] = U[t.child[d][z]] \ {m}
       /\ \A z \in Q : V[z] = U[z] \ {m}
  <2> HIDE DEF q, s, v, u, w, r
  <2>1. Linked(q, Q) /\ Under(q, Q, V)
    BY <1>1, <1>4, <1>5, <1>9, DropTree
  <2>2. \A z \in Q \cup {null} : V[z] = U[z] \ {m}
    BY DEF Without
  <2> HIDE DEF V
  <2>3. ASSUME NEW z \in Q, NEW d \in Sides PROVE V[q.child[d][z]] = U[t.child[d][z]] \ {m}
    <3>1. q.child[d][z] \in Q \cup {null}
      BY <2>1 DEF Linked
    <3>2. CASE z = p /\ d = SideOf(t, m)
      <4>1. m \notin U[s] /\ t.child[d][z] = m
        BY <1>1, <1>4, <1>5, <3>2, AroundDropped
      <4>2. q.child[d][z] = s
        BY <1>12, <3>2
      <4> QED BY <1>6, <2>2, <3>1, <4>1, <4>2
    <3>3. CASE ~(z = p /\ d = SideOf(t, m))
      BY <1>12, <2>2, <3>1, <3>3
    <3> QED BY <3>2, <3>3
  <2> QED BY <2>1, <2>2, <2>3
<1>14. IF t.color[m] = "black" THEN DeleteLoop(q, Q, sz, s) ELSE RedBlackTree(q, Q, sz)
  BY <1>4, <1>5, <1>9, DropStands
<1> HIDE DEF q, u, s, V
<1>15. n \in Q /\ s \in Q \cup {null} /\ m \in Nodes \ Q /\ n \in Objects /\ m \in Objects /\ Q \subseteq Objects
       /\ n # null /\ m # null
  BY <1>3, <1>6
<1>16. ASSUME NEW e \in Sides PROVE u.child[e][n] = q.child[e][n] /\ q.child[e][n] \in Q \cup {null}
  BY <1>11, <1>12, <1>13, <1>15 DEF Linked
<1>17. \A z \in Q, e \in Sides : u.child[e][z] = q.child[e][z]
  BY <1>11, <1>12, <1>15
<1>18. u.parent[n] = t.parent[n] /\ q.parent[n] = t.parent[n] /\ (n # t.root => q.parent[n] \in Q)
  BY <1>3, <1>7, <1>11, <1>12, <1>13, <1>15 DEF Linked
<1>19. /\ w \in Trees /\ w.size = u.size
       /\ w.root = IF n = u.root THEN m ELSE u.root
       /\ \A e \in Sides, z \in Objects :
             w.child[e][z] = IF z = m THEN u.child[e][n]
                             ELSE IF n # u.root /\ z = u.parent[n] /\ e = SideOf(u, n) THEN m
                             ELSE u.child[e][z]
       /\ \A z \in Objects :
             w.parent[z] = IF z # null /\ \E e \in Sides : z = u.child[e][n] THEN m
                           ELSE IF z = m THEN u.parent[n] ELSE u.parent[z]
       /\ \A z \in Objects : w.color[z] = IF z = m THEN u.color[n] ELSE u.color[z]
  <2>1. \A d \in Sides : u.child[d][n] \in Objects
    BY <1>6, <1>15, <1>16
  <2>2. n # u.root => u.parent[n] \in Nodes
    BY <1>6, <1>11, <1>18
  <2> QED BY <1>3, <1>6, <1>11, <2>1, <2>2, TakeOverIs
<1> HIDE DEF w
<1>20. /\ r \in Trees /\ r.root = w.root /\ r.size = w.size /\ r.color = w.color
       /\ \A z \in Objects \ {n} :
             r.parent[z] = w.parent[z] /\ \A e \in Sides : r.child[e][z] = w.child[e][z]
  BY <1>6, <1>10, <1>19, ClearIs
<1> HIDE DEF r
<1>21. Takes(q, r, Q, n, m, s)
  <2>1. r \in Trees /\ r.size = q.size /\ r.root = IF q.root = n THEN m ELSE q.root
    BY <1>11, <1>12, <1>19, <1>20
  <2>2. \A d \in Sides : r.child[d][m] = q.child[d][n]
    BY <1>3, <1>15, <1>16, <1>19, <1>20
  <2>3. ASSUME NEW z \in Q \ {n}, NEW d \in Sides
        PROVE  r.child[d][z] = IF q.child[d][z] = n THEN m ELSE q.child[d][z]
    <3>1. r.child[d][z] = IF n # t.root /\ z = q.parent[n] /\ d = SideOf(u, n) THEN m
                          ELSE q.child[d][z]
      BY <1>11, <1>15, <1>17, <1>18, <1>19, <1>20
    <3>2. n # t.root => SideOf(u, n) = SideOf(q, n)
      BY <1>17, <1>18, TwoSides DEF SideOf
    <3>3. q.child[d][z] = n <=> n # t.root /\ z = q.parent[n] /\ d = SideOf(q, n)
      <4>1. z # null
        BY <1>6
      <4> QED BY <1>12, <1>13, <1>15, <4>1, TwoSides, LinkedFacts
    <3> QED BY <3>1, <3>2, <3>3
  <2>4. r.parent[m] = q.parent[n]
    <3>1. \A e \in Sides : m # u.child[e][n]
      BY <1>15, <1>16
    <3> QED BY <1>3, <1>15, <1>18, <1>19, <1>20, <3>1
  <2>5. ASSUME NEW z \in (Q \cup {s}) \ {n}
        PROVE  z # q.root => r.parent[z] = IF q.parent[z] = n THEN m ELSE q.parent[z]
    <3>1. z \in Objects /\ z # m /\ z # n
      BY <1>6, <1>15
    <3>2. r.parent[z] = IF z # null /\ \E e \in Sides : z = q.child[e][n] THEN m ELSE u.parent[z]
      BY <1>16, <1>19, <1>20, <3>1
    <3>3. CASE z # null /\ \E e \in Sides : z = q.child[e][n]
      BY <1>13, <1>15, <3>2, <3>3, LinkedFacts
    <3>4. CASE ~(z # null /\ \E e \in Sides : z = q.child[e][n])
      <4>1. CASE z = s
        BY <1>11, <1>12, <3>1, <3>2, <3>4, <4>1
      <4>2. CASE z # s
        <5>1. z \in Q /\ z # null /\ u.parent[z] = q.parent[z] /\ q.parent[z] = t.parent[z]
          <6>1. z \in Q
            BY <4>2
          <6> QED BY <1>6, <1>11, <1>12, <3>1, <4>2, <6>1
        <5>2. z # q.root => q.parent[z] # n
          BY <1>13, <3>4, <5>1 DEF Linked
        <5> QED BY <3>2, <3>4, <5>1, <5>2
      <4> QED BY <4>1, <4>2
    <3> QED BY <3>3, <3>4
  <2>6. \A z \in Objects : r.color[z] = IF z = m THEN q.color[n] ELSE q.color[z]
    BY <1>11, <1>12, <1>15, <1>19, <1>20
  <2>7. r.parent[r.root] \in Objects
    <3>1. CASE q.root = n
      <4>1. r.root = m /\ r.parent[m] = t.parent[n] /\ n = t.root
        BY <1>12, <1>18, <2>1, <2>4, <3>1
      <4> QED BY <1>8, <4>1
    <3>2. CASE q.root # n
      <4> DEFINE z == q.root
      <4>1. r.root = z /\ z \in Objects /\ z # n /\ z = t.root /\ z # m /\ z \in S
        BY <1>4, <1>6, <1>12, <2>1, <3>2
      <4> HIDE DEF z
      <4>2. t.parent[z] \in Objects /\ u.parent[z] \in Objects
        <5>1. v \in Objects
          BY <1>4, <1>6, <1>15
        <5> HIDE DEF v
        <5> QED BY <1>8, <1>11, <4>1, <5>1
      <4>3. r.parent[z] \in {m, u.parent[z]}
        BY <1>19, <1>20, <4>1
      <4> QED BY <1>15, <4>1, <4>2, <4>3
    <3> QED BY <3>1, <3>2
  <2> QED BY <2>1, <2>2, <2>3, <2>4, <2>5, <2>6, <2>7 DEF Takes
<1>22. \A d \in Sides : \A y \in V[q.child[d][n]] : Before(d, y, m)
  <2> TAKE d \in Sides
  <2> TAKE y \in V[q.child[d][n]]
  <2>1. y \in U[t.child[d][n]] /\ y # m
    BY <1>13, <1>15
  <2>2. Before(d, y, n) /\ y \in S
    BY <1>1, <2>1, UnderFacts
  <2>3. Key[y] \in Int /\ Key[n] \in Int /\ Key[m] \in Int
    BY <1>6, <2>2, NodesAssumption
  <2>4. CASE d = "left"
    BY <1>3, <2>2, <2>3, <2>4 DEF Before
  <2>5. CASE d = "right"
    BY <1>2, <2>1, <2>5 DEF Before
  <2> QED BY <2>4, <2>5 DEF Sides
<1>23. \A z \in Q, d \in Sides : n \in V[q.child[d][z]] => Before(d, m, z)
  <2> SUFFICES ASSUME NEW z \in Q, NEW d \in Sides, n \in V[q.child[d][z]] PROVE Before(d, m, z)
    OBVIOUS
  <2>0. n \in V[q.child[d][z]]
    OBVIOUS
  <2>1. n \in U[t.child[d][z]]
    <3>1. V[q.child[d][z]] = U[t.child[d][z]] \ {m}
      BY <1>13
    <3> QED BY <2>0, <3>1
  <2>t. t.child[d][z] \in S \cup {null} /\ z \in S
    BY <1>1 DEF Linked
  <2>2. m \in U[t.child[d][z]]
    BY <1>1, <1>3, <2>1, <2>t, Within
  <2> QED BY <1>1, <2>2, <2>t, UnderFacts
<1>24. (Q \ {n}) \cup {m} = S \ {n}
  BY <1>3
<1>25. /\ RedBlackTree(q, Q, sz) => RedBlackTree(r, S \ {n}, sz)
       /\ DeleteLoop(q, Q, sz, s) => DeleteLoop(r, S \ {n}, sz, s)
  <2> HIDE DEF Q
  <2>1. /\ RedBlackTree(q, Q, sz) => RedBlackTree(r, (Q \ {n}) \cup {m}, sz)
        /\ DeleteLoop(q, Q, sz, s) => DeleteLoop(r, (Q \ {n}) \cup {m}, sz, s)
    <3>1. Linked(q, Q) /\ Under(q, Q, V) /\ n \in Q /\ m \in Nodes \ Q /\ s \in Q \cup {null}
          /\ s # n
      BY <1>7, <1>13, <1>15
    <3> QED BY <1>21, <1>22, <1>23, <3>1, TakeStands
  <2> QED BY <1>24, <2>1
<1> QED BY <1>14, <1>25 DEF r, s

\* Likewise when it is the root, whose child becomes the root and keeps n, now
\* deleted, as its parent.
LEMMA DeleteRootKeeps ==
    ASSUME NEW t, NEW S, NEW sz, RedBlackTree(t, S, sz), NEW n \in S, n = t.root,
           \E d \in Sides : t.child[d][n] = null
    PROVE  Settled(DeleteRoot(t, n, Subst(t, n)), S \ {n}, sz)
<1> DEFINE s == Subst(t, n)
           b == Paint(t, s, "black")
           c == [b EXCEPT !.root = s]
           r == DeleteRoot(t, n, s)
           Q == S \ {n}
<1>1. PICK U : Linked(t, S) /\ Under(t, S, U)
  BY DEF RedBlackTree, Standing, Tree
<1>2. PICK f \in Sides : t.child[Other(f)][n] = null /\ s = t.child[f][n]
  BY SubstIs
<1>3. /\ t \in Trees /\ S \subseteq Nodes /\ S \subseteq Objects /\ null \in Objects /\ null \notin S
      /\ s \in S \cup {null} /\ Other(f) \in Sides
      /\ t.color[null] = "black" /\ t.color[n] = "black" /\ t.size = sz /\ Reds(t, S, {})
      /\ t.color \in [Objects -> {"red", "black"}]
  BY <1>1, <1>2, TwoSides, NodesAssumption DEF Linked, RedBlackTree, Standing, Objects, Trees
<1>4. S = {n} \cup U[s] /\ U[null] = {}
  <2>1. U[null] = {} /\ U[t.root] = S
    BY <1>1 DEF Under
  <2>2. U[n] = {n} \cup U[t.child[f][n]] \cup U[t.child[Other(f)][n]]
    BY <1>1, UnderFacts
  <2> QED BY <1>2, <2>1, <2>2
<1>5. s # null => t.parent[s] = n /\ s # n
  BY <1>1, <1>2, LinkedFacts
<1> HIDE DEF s
<1>6. /\ b \in Trees /\ b.size = t.size /\ b.child = t.child /\ b.parent = t.parent
      /\ \A z \in Objects : b.color[z] = IF z = s THEN "black" ELSE t.color[z]
  <2>1. t \in Trees /\ s \in Objects /\ "black" \in {"red", "black"}
    BY <1>3
  <2> QED BY <2>1, PaintIs
<1>7. r = Clear(c, n)
  BY DEF DeleteRoot, Paint
<1> HIDE DEF b
<1>8. /\ c \in Trees /\ c.root = s /\ c.size = t.size /\ c.child = t.child /\ c.parent = t.parent
      /\ c.color = b.color
  <2>1. b = [root |-> b.root, size |-> b.size, child |-> b.child, parent |-> b.parent, color |-> b.color]
    BY <1>6 DEF Trees
  <2>2. c = [root |-> s, size |-> b.size, child |-> b.child, parent |-> b.parent, color |-> b.color]
    BY <2>1
  <2>3. s \in Objects
    BY <1>3
  <2> HIDE DEF c
  <2> QED BY <1>6, <2>2, <2>3 DEF Trees
<1> HIDE DEF c, r
<1>9. /\ r \in Trees /\ r.root = s /\ r.size = sz
      /\ \A z \in Objects \ {n} :
            r.parent[z] = t.parent[z] /\ \A e \in Sides : r.child[e][z] = t.child[e][z]
      /\ \A z \in Objects : r.color[z] = IF z = s THEN "black" ELSE t.color[z]
  <2>1. /\ r \in Trees /\ r.root = c.root /\ r.size = c.size /\ r.color = c.color
        /\ \A z \in Objects \ {n} :
              r.parent[z] = c.parent[z] /\ \A e \in Sides : r.child[e][z] = c.child[e][z]
    BY <1>3, <1>7, <1>8, ClearIs
  <2> QED BY <1>3, <1>6, <1>8, <2>1
<1>10. CASE s = null
  BY <1>3, <1>4, <1>9, <1>10 DEF Settled, r, s
<1>11. CASE s # null
  <2>1. PICK h : Heights(t, S, h, {})
    BY DEF RedBlackTree
  <2>2. /\ h \in [S \cup {null} -> Nat] /\ h[null] = 0
        /\ \A z \in S, d \in Sides : h[z] = Black(t, z) + h[t.child[d][z]]
    <3>1. \A z \in S, d \in Sides : Lack({}, z, d) = 0 /\ t.child[d][z] \in S \cup {null} /\ Black(t, z) \in Nat
      BY <1>1 DEF Lack, Linked, Black
    <3>2. h \in [S \cup {null} -> Nat] /\ h[null] = 0
      BY <2>1 DEF Heights
    <3>3. ASSUME NEW z \in S, NEW d \in Sides PROVE h[z] = Black(t, z) + h[t.child[d][z]]
      <4>1. h[z] = Black(t, z) + h[t.child[d][z]] + Lack({}, z, d)
        BY <2>1 DEF Heights
      <4>2. h[t.child[d][z]] \in Nat
        BY <3>1, <3>2
      <4> QED BY <3>1, <4>1, <4>2
    <3> QED BY <3>2, <3>3
  <2>3. h[s] = 0 /\ s \in S
    <3>1. h[n] = Black(t, n) + h[s] /\ h[n] = Black(t, n) + h[null] /\ Black(t, n) \in Nat /\ h[s] \in Nat
      BY <1>2, <1>3, <2>2 DEF Black
    <3> QED BY <1>3, <1>11, <2>2, <3>1
  <2>4. t.color[s] = "red" /\ \A d \in Sides : h[t.child[d][s]] = 0
    <3>1. ASSUME NEW d \in Sides PROVE t.color[s] = "red" /\ h[t.child[d][s]] = 0
      <4>1. h[s] = Black(t, s) + h[t.child[d][s]] /\ h[t.child[d][s]] \in Nat
        BY <1>1, <2>2, <2>3 DEF Linked
      <4>2. Black(t, s) = 0
        BY <2>3, <4>1 DEF Black
      <4> QED BY <1>3, <2>3, <4>1, <4>2 DEF Black
    <3> QED BY <3>1, TwoSides
  <2>5. ASSUME NEW d \in Sides PROVE t.child[d][s] = null
    <3> DEFINE y == t.child[d][s]
    <3>1. y \in S \cup {null} /\ t.color[y] = "black"
      BY <1>1, <1>3, <2>3, <2>4 DEF Linked, Reds
    <3>2. ASSUME y \in S PROVE FALSE
      <4>1. h[y] = Black(t, y) + h[t.child["left"][y]] /\ h[t.child["left"][y]] \in Nat
        BY <1>1, <2>2, <3>2, TwoSides DEF Linked
      <4>2. Black(t, y) = 1 /\ h[y] = 0
        BY <2>4, <3>1 DEF Black
      <4> QED BY <4>1, <4>2
    <3> QED BY <3>1, <3>2
  <2>6. Q = {s}
    <3>1. U[s] = {s}
      BY <1>1, <1>4, <2>3, <2>5, TwoSides DEF Under
    <3> QED BY <1>4, <1>5, <1>11, <3>1
  <2>7. /\ s # null /\ s # n /\ n # null /\ s \in Nodes /\ s \in Objects /\ n \in Objects
        /\ r.parent[s] = n /\ (\A e \in Sides : r.child[e][s] = null) /\ r.color[s] = "black"
        /\ r.color[n] = "black" /\ r.color[null] = "black"
    BY <1>3, <1>5, <1>9, <1>11, <2>3, <2>5
  <2>8. Linked(r, Q)
    BY <1>9, <2>6, <2>7, TwoSides DEF Linked
  <2>9. Under(r, Q, [z \in Q \cup {null} |-> IF z = s THEN {s} ELSE {}])
    BY <1>9, <2>6, <2>7, TwoSides DEF Under
  <2>10. Standing(r, Q, sz)
    BY <1>9, <2>6, <2>7, <2>8, <2>9 DEF Standing, Tree
  <2>11. Reds(r, Q, {})
    BY <2>6, <2>7 DEF Reds
  <2>12. Heights(r, Q, [z \in Q \cup {null} |-> IF z = s THEN 1 ELSE 0], {})
    BY <2>6, <2>7 DEF Heights, Black, Lack
  <2> QED BY <1>9, <2>7, <2>10, <2>11, <2>12 DEF Settled, RedBlackTree, r, s
<1> QED BY <1>10, <1>11

-----------------------------------------------------------------------------
\* What all these trees have in common.
LEMMA SettledFacts ==
    ASSUME NEW t, NEW S, NEW sz, Settled(t, S, sz)
    PROVE  /\ Tree(t, S) /\ t \in Trees /\ t.size = sz /\ t.root \in S \cup {null}
           /\ t.color[null] = "black" /\ t.color[t.root] = "black" /\ (t.root = null <=> S = {})
           /\ Reds(t, S, {}) /\ \E h : Heights(t, S, h, {})
<1>1. CASE S = {}
  <2>1. t \in Trees /\ t.root = null /\ t.color[null] = "black" /\ t.size = sz
    BY <1>1 DEF Settled, RedBlackTree, Standing
  <2>2. Linked(t, S)
    BY <1>1, <2>1 DEF Linked
  <2>3. Under(t, S, [z \in S \cup {null} |-> {}])
    BY <1>1, <2>1 DEF Under
  <2>4. Reds(t, S, {})
    BY <1>1 DEF Reds
  <2>5. Heights(t, S, [z \in S \cup {null} |-> 0], {})
    BY <1>1 DEF Heights
  <2> QED BY <1>1, <2>1, <2>2, <2>3, <2>4, <2>5 DEF Tree
<1>2. CASE S # {}
  <2>1. RedBlackTree(t, S, sz)
    BY <1>2 DEF Settled
  <2>2. t.root \in S /\ null \notin S /\ t \in Trees
    BY <2>1, StandingFacts DEF RedBlackTree
  <2> QED BY <1>2, <2>1, <2>2 DEF RedBlackTree, Standing
<1> QED BY <1>1, <1>2

\* size may be counted up and down.
LEMMA Resized ==
    ASSUME NEW t \in Trees, NEW sz \in Int
    PROVE  LET r == [t EXCEPT !.size = sz]
           IN  /\ \A S, v : RedBlackTree(t, S, v) => RedBlackTree(r, S, sz)
               /\ \A S, v : Settled(t, S, v) => Settled(r, S, sz)
<1> DEFINE r == [t EXCEPT !.size = sz]
<1>1. /\ r \in Trees /\ r.size = sz /\ r.root = t.root /\ r.child = t.child
      /\ r.parent = t.parent /\ r.color = t.color
  BY DEF Trees
<1> HIDE DEF r
<1>2. ASSUME NEW S, NEW v, RedBlackTree(t, S, v) PROVE RedBlackTree(r, S, sz)
  <2>1. Tree(r, S)
    BY <1>1, <1>2, TreeOfLinks DEF RedBlackTree, Standing
  <2>2. Standing(r, S, sz)
    BY <1>1, <1>2, <2>1 DEF RedBlackTree, Standing
  <2>3. Reds(r, S, {}) /\ r.color[r.root] = "black"
    BY <1>1, <1>2 DEF RedBlackTree, Reds
  <2>4. PICK h : Heights(t, S, h, {})
    BY <1>2 DEF RedBlackTree
  <2>5. Heights(r, S, h, {})
    BY <1>1, <2>4 DEF Heights, Black
  <2> QED BY <2>2, <2>3, <2>5 DEF RedBlackTree
<1>3. ASSUME NEW S, NEW v, Settled(t, S, v) PROVE Settled(r, S, sz)
  BY <1>1, <1>2, <1>3 DEF Settled
<1> QED BY <1>2, <1>3 DEF r

\* A red-black tree is what the loop of rbtree_delete_fixup ends with, at its root.
LEMMA RootLoop ==
    ASSUME NEW t, NEW S, NEW sz, RedBlackTree(t, S, sz)
    PROVE  DeleteLoop(t, S, sz, t.root)
<1>1. Standing(t, S, sz) /\ t.color[t.root] = "black" /\ t.root \in S
  BY DEF RedBlackTree, Standing
<1>2. ShortAt(t, t.root) = {}
  BY DEF ShortAt
<1>3. \A z \in S, d \in Sides : ~(t.color[z] = "red" /\ t.color[t.child[d][z]] = "red")
  BY DEF RedBlackTree, Reds
<1>4. \E h : Heights(t, S, h, ShortAt(t, t.root))
  BY <1>2 DEF RedBlackTree
<1> QED BY <1>1, <1>3, <1>4 DEF DeleteLoop

-----------------------------------------------------------------------------
\* util_rbsubtree_min goes down to x from a: what hangs at a and not at x is not
\* less than x.
LeastOf(t, S, a, x) ==
    /\ a \in S /\ x \in S
    /\ \A U : Under(t, S, U) => x \in U[a] /\ \A y \in U[a] : y \in U[x] \/ Key[x] <= Key[y]

\* It begins at a.
LEMMA LeastBegins ==
    ASSUME NEW t, NEW S, Linked(t, S), NEW a \in S
    PROVE  LeastOf(t, S, a, a)
BY TwoSides, UnderFacts DEF LeastOf

\* It goes on to the left,
LEMMA LeastOn ==
    ASSUME NEW t, NEW S, Linked(t, S), IsFiniteSet(S), NEW a, NEW x, LeastOf(t, S, a, x),
           t.child["left"][x] # null
    PROVE  LeastOf(t, S, a, t.child["left"][x])
<1> DEFINE l == t.child["left"][x]
<1>1. a \in S /\ x \in S /\ S \subseteq Nodes /\ l \in S
  BY TwoSides DEF LeastOf, Linked
<1>2. ASSUME NEW U, Under(t, S, U)
      PROVE  l \in U[a] /\ \A y \in U[a] : y \in U[l] \/ Key[l] <= Key[y]
  <2>1. x \in U[a] /\ \A y \in U[a] : y \in U[x] \/ Key[x] <= Key[y]
    BY <1>2 DEF LeastOf
  <2>2. U[x] = {x} \cup U[l] \cup U[t.child["right"][x]] /\ l \in U[l] /\ Before("left", l, x)
        /\ \A y \in U[t.child["right"][x]] : Before("right", y, x)
    <3>1. U[x] = {x} \cup U[l] \cup U[t.child["right"][x]]
      BY <1>1, <1>2 DEF Under
    <3>2. l \in U[l]
      BY <1>1, <1>2, TwoSides, UnderFacts
    <3> QED BY <1>1, <1>2, <3>1, <3>2, TwoSides, UnderFacts
  <2>3. U[x] \subseteq U[a] /\ U[a] \subseteq S
    BY <1>1, <1>2, <2>1, Within, TwoSides, UnderFacts
  <2>4. \A y \in S : Key[y] \in Int
    BY <1>1, NodesAssumption
  <2> QED BY <1>1, <2>1, <2>2, <2>3, <2>4 DEF Before
<1> QED BY <1>1, <1>2 DEF LeastOf

\* and ends at the least node.
LEMMA LeastEnds ==
    ASSUME NEW t, NEW S, Linked(t, S), NEW a, NEW x, LeastOf(t, S, a, x), t.child["left"][x] = null,
           NEW U, Under(t, S, U)
    PROVE  x \in U[a] /\ \A y \in U[a] : y = x \/ Key[x] <= Key[y]
<1>1. a \in S /\ x \in S /\ S \subseteq Nodes /\ U[null] = {}
  BY DEF LeastOf, Linked, Under
<1>2. x \in U[a] /\ \A y \in U[a] : y \in U[x] \/ Key[x] <= Key[y]
  BY DEF LeastOf
<1>3. U[x] = {x} \cup U[t.child["right"][x]]
  BY <1>1 DEF Under
<1>4. \A y \in U[t.child["right"][x]] : Before("right", y, x)
  BY <1>1, TwoSides, UnderFacts
<1> QED BY <1>2, <1>3, <1>4 DEF Before

\* util_rbtree_search goes down: whoever has the key hangs at x.
SearchAt(t, S, k, x) ==
    /\ x \in S \cup {null}
    /\ \A U : Under(t, S, U) => \A m \in S : Key[m] = k => m \in U[x]

\* It goes on to the side that the key is on.
LEMMA SearchOn ==
    ASSUME NEW t, NEW S, Linked(t, S), NEW k \in Int, NEW x, SearchAt(t, S, k, x), x # null, Key[x] # k
    PROVE  SearchAt(t, S, k, t.child[SideFor(k, x)][x])
<1> DEFINE d == SideFor(k, x)
           c == t.child[d][x]
<1>1. x \in S /\ d \in Sides /\ Other(d) \in Sides /\ c \in S \cup {null} /\ S \subseteq Nodes
  BY TwoSides DEF SearchAt, SideFor, Linked
<1>2. ASSUME NEW U, Under(t, S, U), NEW m \in S, Key[m] = k PROVE m \in U[c]
  <2>1. m \in U[x] /\ m # x
    BY <1>2 DEF SearchAt
  <2>2. U[x] = {x} \cup U[c] \cup U[t.child[Other(d)][x]]
    BY <1>1, <1>2, UnderFacts
  <2>3. \A y \in U[t.child[Other(d)][x]] : Before(Other(d), y, x)
    BY <1>1, <1>2, UnderFacts
  <2>4. ~Before(Other(d), m, x)
    <3>1. Key[x] \in Int
      BY <1>1, NodesAssumption
    <3> QED BY <1>2, <3>1 DEF SideFor, Other, Before
  <2> QED BY <2>1, <2>2, <2>3, <2>4
<1> QED BY <1>1, <1>2 DEF SearchAt

\* util_rbtree_lookup goes down: whoever has the key or a greater one hangs at x
\* or is not less than b, the best one so far, and who hangs at x is not greater.
LookupAt(t, S, k, b, x) ==
    /\ x \in S \cup {null}
    /\ b # NULL => b \in S /\ k <= Key[b]
    /\ \A U : Under(t, S, U) =>
          /\ \A m \in S : k <= Key[m] => m \in U[x] \/ (b # NULL /\ Key[b] <= Key[m])
          /\ b # NULL => \A m \in U[x] : Key[m] <= Key[b]

\* x is a better one, or too small.
LEMMA LookupOn ==
    ASSUME NEW t, NEW S, Linked(t, S), NEW k \in Int, NEW b, NEW x, LookupAt(t, S, k, b, x), x # null
    PROVE  IF k <= Key[x] THEN LookupAt(t, S, k, x, t.child["left"][x])
           ELSE LookupAt(t, S, k, b, t.child["right"][x])
<1> DEFINE l == t.child["left"][x]
           r == t.child["right"][x]
<1>1. /\ x \in S /\ l \in S \cup {null} /\ r \in S \cup {null} /\ S \subseteq Nodes /\ x # NULL
      /\ \A m \in S : Key[m] \in Int
  BY TwoSides, NodesAssumption DEF LookupAt, Linked
<1>2. ASSUME NEW U, Under(t, S, U)
      PROVE  /\ U[x] = {x} \cup U[l] \cup U[r] /\ U[x] \subseteq S
             /\ \A m \in U[l] : Key[m] <= Key[x]
             /\ \A m \in U[r] : Key[x] <= Key[m]
  <2>1. U[x] = {x} \cup U[l] \cup U[r]
    BY <1>1, <1>2 DEF Under
  <2>2. U[x] \subseteq S /\ (\A m \in U[l] : Before("left", m, x))
        /\ (\A m \in U[r] : Before("right", m, x))
    BY <1>1, <1>2, TwoSides, UnderFacts
  <2> QED BY <2>1, <2>2 DEF Before
<1>3. /\ b # NULL => b \in S /\ k <= Key[b]
      /\ \A U : Under(t, S, U) =>
            /\ \A m \in S : k <= Key[m] => m \in U[x] \/ (b # NULL /\ Key[b] <= Key[m])
            /\ b # NULL => \A m \in U[x] : Key[m] <= Key[b]
  BY DEF LookupAt
<1>4. CASE k <= Key[x]
  <2>1. ASSUME NEW U, Under(t, S, U)
        PROVE  /\ \A m \in S : k <= Key[m] => m \in U[l] \/ Key[x] <= Key[m]
               /\ \A m \in U[l] : Key[m] <= Key[x]
    <3> SUFFICES ASSUME NEW m \in S, k <= Key[m], m \notin U[l] PROVE Key[x] <= Key[m]
      BY <1>2, <2>1
    <3>1. CASE m \in U[x]
      BY <1>1, <1>2, <2>1, <3>1
    <3>2. CASE m \notin U[x]
      <4>1. b # NULL /\ Key[b] <= Key[m] /\ b \in S
        BY <1>3, <2>1, <3>2
      <4>2. Key[x] <= Key[b]
        BY <1>2, <1>3, <2>1, <4>1
      <4> QED BY <1>1, <4>1, <4>2
    <3> QED BY <3>1, <3>2
  <2> QED BY <1>1, <1>4, <2>1 DEF LookupAt
<1>5. CASE ~(k <= Key[x])
  <2>1. ASSUME NEW U, Under(t, S, U)
        PROVE  /\ \A m \in S : k <= Key[m] => m \in U[r] \/ (b # NULL /\ Key[b] <= Key[m])
               /\ b # NULL => \A m \in U[r] : Key[m] <= Key[b]
    <3>1. ASSUME NEW m \in S, k <= Key[m], m \in U[x] PROVE m \in U[r]
      <4>1. m # x /\ ~(Key[m] <= Key[x])
        BY <1>1, <1>5, <3>1
      <4> QED BY <1>2, <2>1, <3>1, <4>1
    <3> QED BY <1>2, <1>3, <2>1, <3>1
  <2> QED BY <1>1, <1>3, <1>5, <2>1 DEF LookupAt
<1> QED BY <1>4, <1>5

-----------------------------------------------------------------------------
\* What every step keeps while no insertion has climbed past the root. The nodes
\* inside:
Members(S, n, k) ==
    /\ IsFiniteSet(S) /\ S \subseteq Nodes
    /\ n \in Nodes \cup {NULL} /\ k \in Keys \cup {NULL}

\* At the head of the loop of rbtree_insert_fixup, or when it is about to end
InsertFixupAt(t, S, sz, x) ==
    /\ x \in S
    /\ InsertLoop(t, S, sz, x) \/ (RedBlackTree(t, S, sz) /\ t.color[t.parent[x]] = "black")

\* the tree, of nodes inside, which outside of the fixups is a red-black tree:
Calm == {"idle", "place", "search", "searched", "lookup", "least", "looked_up"}

Shape(t, S, p, x) ==
    LET N == Cardinality(S)
    IN  /\ p \in Calm \cup {"min", "unlink", "insert_fixup", "delete_fixup"}
        /\ p \in Calm => Settled(t, S, N)
        /\ p \in {"min", "unlink"} => Settled(t, S, N - 1)
        /\ p = "insert_fixup" => InsertFixupAt(t, S, N - 1, x)
        /\ p = "delete_fixup" => DeleteLoop(t, S, N, x)

\* the way down that a call has come, or what it has found.
Progress(t, S, p, n, x, k) ==
    /\ p = "place" => n \in Nodes \ S /\ PlaceFor(t, S, n, x)
    /\ p = "min" => n \in S /\ LeastOf(t, S, t.child["right"][n], x)
    /\ p = "unlink" =>
          /\ n \in S
          /\ IF x = n THEN \E d \in Sides : t.child[d][n] = null
             ELSE LeastOf(t, S, t.child["right"][n], x) /\ t.child["left"][x] = null
    /\ p \in {"search", "searched", "lookup", "least", "looked_up"} => k \in Keys
    /\ p = "search" => SearchAt(t, S, k, x)
    /\ p = "searched" => IF n = NULL THEN \A m \in S : Key[m] # k ELSE n \in S /\ Key[n] = k
    /\ p = "lookup" => LookupAt(t, S, k, n, x)
    /\ p = "least" => LeastOf(t, S, t.root, x) /\ \A m \in S : Key[m] < k
    /\ p = "looked_up" =>
          IF n = NULL THEN S = {}
          ELSE /\ n \in S
               /\ \/ k <= Key[n] /\ \A m \in S : k <= Key[m] => Key[n] <= Key[m]
                  \/ \A m \in S : Key[m] < k /\ Key[n] <= Key[m]

IInv ==
    /\ Members(inside, node, key)
    /\ Shape(rbtree, inside, pc, cur)
    /\ Progress(rbtree, inside, pc, node, cur, key)

\* Between the passes of the fixups, too, the tree hangs together.
LEMMA IInvFacts ==
    ASSUME IInv
    PROVE  /\ rbtree \in Trees /\ Linked(rbtree, inside) /\ \E U : Under(rbtree, inside, U)
           /\ rbtree.color[null] = "black" /\ rbtree.root \in inside \cup {null}
           /\ IsFiniteSet(inside) /\ Cardinality(inside) \in Nat
           /\ inside \subseteq Nodes /\ null \notin inside /\ NULL \notin inside
           /\ \A n \in Nodes : Key[n] \in Int /\ Key[n] \in Keys
           /\ Keys \subseteq Int
<1>1. /\ IsFiniteSet(inside) /\ inside \subseteq Nodes
  BY DEF IInv, Members
<1>2. Cardinality(inside) \in Nat
  BY <1>1, FS_CardinalityType
<1>3. Tree(rbtree, inside) /\ rbtree.color[null] = "black" /\ rbtree.root \in inside \cup {null}
  <2>1. CASE pc \in Calm \cup {"min", "unlink"}
    <3>1. \E sz : Settled(rbtree, inside, sz)
      BY <2>1 DEF IInv, Shape
    <3> QED BY <3>1, SettledFacts
  <2>2. CASE pc \notin Calm \cup {"min", "unlink"}
    <3>1. \E sz : Standing(rbtree, inside, sz)
      BY <2>2 DEF IInv, Shape, InsertFixupAt, InsertLoop, RedBlackTree, DeleteLoop
    <3> QED BY <3>1 DEF Standing
  <2> QED BY <2>1, <2>2
<1>4. Linked(rbtree, inside) /\ (\E U : Under(rbtree, inside, U)) /\ rbtree \in Trees
  BY <1>3 DEF Tree, Linked
<1> QED BY <1>1, <1>2, <1>3, <1>4, NodesAssumption DEF Keys

\* util_rbtree_init
LEMMA InitIInv == ASSUME Init PROVE IInv
<1>1. rbtree \in Trees /\ rbtree.root = null /\ rbtree.color[null] = "black" /\ rbtree.size = 0
  BY DEF Init, Trees, Objects
<1>2. IsFiniteSet({}) /\ Cardinality({}) = 0
  BY FS_EmptySet
<1>3. Settled(rbtree, {}, 0)
  BY <1>1 DEF Settled
<1> QED BY <1>2, <1>3 DEF Init, IInv, Members, Shape, Progress, Calm

\* The steps of util_rbtree_insert.
LEMMA StepInsert == ASSUME IInv, NEW n \in Nodes, util_rbtree_insert(n) PROVE IInv'
<1>1. pc = "idle" /\ n \notin inside /\ pc' = "place" /\ node' = n /\ cur' = rbtree.root
      /\ UNCHANGED <<rbtree, inside, key>>
  BY DEF util_rbtree_insert, GoTo
<1>2. Settled(rbtree, inside, Cardinality(inside))
  BY <1>1 DEF IInv, Shape, Calm
<1>3. rbtree.root = null <=> inside = {}
  BY <1>2, SettledFacts
<1>4. PlaceFor(rbtree, inside, n, rbtree.root)
  BY <1>3, IInvFacts, PlaceBegins
<1> QED BY <1>1, <1>2, <1>4 DEF IInv, Members, Shape, Progress, Calm

\* The way to the place goes one node down.
LEMMA StepPlaceBelow == ASSUME IInv, PlaceBelow PROVE IInv'
<1> DEFINE y == rbtree.child[SideFor(Key[node], cur)][cur]
<1>1. pc = "place" /\ cur # null /\ y # null /\ pc' = "place" /\ node' = node /\ cur' = y
      /\ UNCHANGED <<rbtree, inside, key>>
  BY DEF PlaceBelow, GoTo
<1>2. node \in Nodes \ inside /\ PlaceFor(rbtree, inside, node, cur)
  BY <1>1 DEF IInv, Progress
<1>3. PlaceFor(rbtree, inside, node, y)
  BY <1>1, <1>2, IInvFacts, PlaceOn
<1> HIDE DEF y
<1> QED BY <1>1, <1>2, <1>3 DEF IInv, Members, Shape, Progress, Calm

\* The node is linked, and the fixup begins.
LEMMA StepPlaceHere == ASSUME IInv, PlaceHere PROVE IInv'
<1> DEFINE r == Hang(rbtree, node, cur)
           S == inside \cup {node}
           N == Cardinality(inside)
<1>1. /\ rbtree' = r /\ inside' = S
      /\ pc' = "insert_fixup" /\ node' = NULL /\ cur' = node /\ key' = key
  BY DEF PlaceHere, GoTo
<1>2. pc = "place" /\ (cur # null => rbtree.child[SideFor(Key[node], cur)][cur] = null)
  BY DEF PlaceHere
<1>3. node \in Nodes \ inside /\ PlaceFor(rbtree, inside, node, cur)
      /\ Settled(rbtree, inside, N)
  BY <1>2 DEF IInv, Progress, Shape, Calm
<1>4. node \notin inside /\ node \in Nodes
  BY <1>3
<1>5. InsertLoop(r, S, N, node)
  BY <1>2, <1>3, <1>4, HangKeeps
<1>6. IsFiniteSet(S) /\ Cardinality(S) = N + 1 /\ N \in Nat
  BY <1>4, IInvFacts, FS_AddElement
<1> HIDE DEF r, N
<1>7. Members(inside', node', key')
  BY <1>1, <1>4, <1>6 DEF IInv, Members
<1>8. Shape(rbtree', inside', pc', cur')
  <2>1. N = Cardinality(S) - 1
    BY <1>6
  <2>2. InsertFixupAt(r, S, Cardinality(S) - 1, node)
    BY <1>5, <2>1 DEF InsertFixupAt
  <2> QED BY <1>1, <1>4, <2>2 DEF Shape, Calm
<1> QED BY <1>1, <1>7, <1>8 DEF IInv, Progress

\* The loop of rbtree_insert_fixup has one node more than it has counted.
LEMMA FixupFacts ==
    ASSUME IInv, pc = "insert_fixup"
    PROVE  /\ cur \in inside
           /\ \/ InsertLoop(rbtree, inside, Cardinality(inside) - 1, cur)
              \/ /\ RedBlackTree(rbtree, inside, Cardinality(inside) - 1)
                 /\ rbtree.color[rbtree.parent[cur]] = "black"
BY DEF IInv, Shape, InsertFixupAt, InsertLoop, RedBlackTree, Standing

\* The fault of two red nodes goes up two levels.
LEMMA StepInsertFixupRecolours == ASSUME IInv, ~strayed', InsertFixupRecolours PROVE IInv'
<1> DEFINE N == Cardinality(inside) - 1
           r == Recoloured(rbtree, cur)
           y == Grand(rbtree, cur)
<1>1. /\ pc = "insert_fixup" /\ cur # rbtree.root /\ rbtree.color[rbtree.parent[cur]] = "red"
      /\ rbtree.color[Uncle(rbtree, cur)] = "red"
      /\ rbtree' = r /\ pc' = "insert_fixup" /\ node' = NULL /\ cur' = y
      /\ UNCHANGED <<inside, key>>
  BY DEF InsertFixupRecolours, ParentRed, GoTo
<1>2. InsertLoop(rbtree, inside, N, cur)
  BY <1>1, FixupFacts
<1>3. InsertLoop(r, inside, N, y)
  BY <1>1, <1>2, InsertFixupPass
<1> HIDE DEF r, y
<1>4. InsertFixupAt(r, inside, N, y)
  BY <1>3 DEF InsertFixupAt, InsertLoop
<1> QED BY <1>1, <1>4 DEF IInv, Members, Shape, Progress, Calm

\* It is mended, and the loop will end.
LEMMA StepInsertFixupTurns == ASSUME IInv, ~strayed', InsertFixupTurns PROVE IInv'
<1> DEFINE N == Cardinality(inside) - 1
           y == Outermost(rbtree, cur)
           r == Turned(Straight(rbtree, cur), y)
<1>1. /\ pc = "insert_fixup" /\ cur # rbtree.root /\ rbtree.color[rbtree.parent[cur]] = "red"
      /\ rbtree.color[Uncle(rbtree, cur)] = "black"
      /\ rbtree' = r /\ pc' = "insert_fixup" /\ node' = NULL /\ cur' = y
      /\ UNCHANGED <<inside, key>>
  BY DEF InsertFixupTurns, ParentRed, GoTo
<1>2. cur \in inside /\ cur # rbtree.root /\ InsertLoop(rbtree, inside, N, cur)
  BY <1>1, FixupFacts
<1>3. RedBlackTree(r, inside, N) /\ r.color[r.parent[y]] = "black"
  BY <1>1, <1>2, InsertFixupPass
<1>4. y \in inside
  BY <1>2, StandingFacts DEF Outermost, InsertLoop
<1> HIDE DEF r, y
<1>5. InsertFixupAt(r, inside, N, y)
  BY <1>3, <1>4 DEF InsertFixupAt
<1> QED BY <1>1, <1>5 DEF IInv, Members, Shape, Progress, Calm

\* The root is painted black, and the node counts.
LEMMA StepInsertFixupEnds == ASSUME IInv, InsertFixupEnds PROVE IInv'
<1> DEFINE N == Cardinality(inside)
           b == [rbtree EXCEPT !.color[rbtree.root] = "black"]
           r == [b EXCEPT !.size = N]
<1>1. /\ pc = "insert_fixup" /\ (cur = rbtree.root \/ rbtree.color[rbtree.parent[cur]] = "black")
      /\ rbtree' = [rbtree EXCEPT !.color[rbtree.root] = "black", !.size = @ + 1]
      /\ pc' = "idle" /\ node' = NULL /\ cur' = NULL /\ key' = NULL
      /\ UNCHANGED inside
  BY DEF InsertFixupEnds, Stale, Return, GoTo
<1>2. InsertLoop(rbtree, inside, N - 1, cur) \/ RedBlackTree(rbtree, inside, N - 1)
  BY <1>1, FixupFacts
<1>3. rbtree.size = N - 1 /\ N \in Int /\ rbtree \in Trees
  BY <1>2, IInvFacts DEF InsertLoop, RedBlackTree, Standing
<1>4. RedBlackTree(b, inside, N - 1)
  <2>1. CASE InsertLoop(rbtree, inside, N - 1, cur)
    BY <1>1, <2>1, InsertFixupPass
  <2>2. CASE RedBlackTree(rbtree, inside, N - 1)
    <3>1. b = rbtree
      BY <1>3, <2>2 DEF RedBlackTree, Trees
    <3> QED BY <2>2, <3>1
  <2> QED BY <1>2, <2>1, <2>2
<1>5. rbtree' = r
  <2>1. rbtree.size + 1 = N
    BY <1>3
  <2>2. rbtree' = [rbtree EXCEPT !.color[rbtree.root] = "black", !.size = rbtree.size + 1]
    BY <1>1
  <2> QED BY <2>1, <2>2
<1>6. RedBlackTree(r, inside, N)
  <2>1. b \in Trees
    BY <1>4, StandingFacts DEF RedBlackTree
  <2> HIDE DEF b, N
  <2> QED BY <1>3, <1>4, <2>1, Resized
<1>7. Settled(r, inside, N)
  BY <1>6 DEF Settled
<1> HIDE DEF r
<1> QED BY <1>1, <1>5, <1>7 DEF IInv, Members, Shape, Progress, Calm

\* Those of util_rbtree_delete.
LEMMA StepDelete == ASSUME IInv, NEW n \in Nodes, util_rbtree_delete(n) PROVE IInv'
<1> DEFINE N == Cardinality(inside)
           r == [rbtree EXCEPT !.size = N - 1]
           c == rbtree.child["right"][n]
           one == \E d \in Sides : rbtree.child[d][n] = null
<1>1. /\ pc = "idle" /\ n \in inside /\ rbtree' = [rbtree EXCEPT !.size = @ - 1]
      /\ IF one THEN pc' = "unlink" /\ node' = n /\ cur' = n
         ELSE pc' = "min" /\ node' = n /\ cur' = c
      /\ UNCHANGED <<inside, key>>
  BY DEF util_rbtree_delete, GoTo, Sides
<1>2. Settled(rbtree, inside, N)
  BY <1>1 DEF IInv, Shape, Calm
<1>3. rbtree.size = N /\ rbtree \in Trees /\ N \in Int
  BY <1>2, SettledFacts, IInvFacts
<1>4. rbtree' = r
  BY <1>1, <1>3
<1>5. Settled(r, inside, N - 1)
  <2> HIDE DEF N
  <2> QED BY <1>2, <1>3, Resized
<1>6. Linked(r, inside) /\ r.child = rbtree.child
  <2>1. Linked(r, inside)
    BY <1>5, SettledFacts DEF Tree
  <2>2. r.child = rbtree.child
    BY <1>3 DEF Trees
  <2> QED BY <2>1, <2>2
<1>7. ~one => LeastOf(r, inside, c, c)
  <2>1. ~one => c \in inside
    BY <1>1, IInvFacts, TwoSides DEF Linked
  <2> HIDE DEF one, c, r
  <2> QED BY <1>6, <2>1, LeastBegins
<1>8. r.child["right"][n] = c /\ (one <=> \E d \in Sides : r.child[d][n] = null)
  BY <1>6
<1>9. Members(inside', node', key')
  BY <1>1 DEF IInv, Members
<1>10. Shape(rbtree', inside', pc', cur')
  <2> HIDE DEF r, one
  <2> QED BY <1>1, <1>4, <1>5 DEF Shape, Calm
<1>11. Progress(rbtree', inside', pc', node', cur', key')
  <2> HIDE DEF r, one, c
  <2> QED BY <1>1, <1>4, <1>7, <1>8 DEF Progress
<1> QED BY <1>9, <1>10, <1>11 DEF IInv

\* util_rbsubtree_min, in util_rbtree_delete and in util_rbtree_lookup
LEMMA StepMinBelow == ASSUME IInv, MinBelow PROVE IInv'
<1> DEFINE y == rbtree.child["left"][cur]
<1>1. /\ pc \in {"min", "least"} /\ y # null /\ pc' = pc /\ node' = node /\ cur' = y
      /\ UNCHANGED <<rbtree, inside, key>>
  BY DEF MinBelow, GoTo
<1>2. \A a : LeastOf(rbtree, inside, a, cur) => LeastOf(rbtree, inside, a, y)
  BY <1>1, IInvFacts, LeastOn
<1> HIDE DEF y
<1> QED BY <1>1, <1>2 DEF IInv, Members, Shape, Progress, Calm

\* The least node on the right is the one to unlink.
LEMMA StepMinFound == ASSUME IInv, MinFound PROVE IInv'
<1>1. /\ pc = "min" /\ rbtree.child["left"][cur] = null /\ pc' = "unlink" /\ node' = node /\ cur' = cur
      /\ UNCHANGED <<rbtree, inside, key>>
  BY DEF MinFound, GoTo
<1>2. node \in inside /\ LeastOf(rbtree, inside, rbtree.child["right"][node], cur)
  BY <1>1 DEF IInv, Progress
<1>3. cur # node
  <2>1. PICK U : Under(rbtree, inside, U)
    BY IInvFacts
  <2>2. cur \in U[rbtree.child["right"][node]]
    BY <1>2, <2>1 DEF LeastOf
  <2> QED BY <1>2, <2>1, <2>2, IInvFacts, TwoSides, UnderFacts
<1> QED BY <1>1, <1>2, <1>3 DEF IInv, Members, Shape, Progress, Calm

\* The node is gone, and one black node is missing, if at all, where it was.
LEMMA StepUnlink == ASSUME IInv, Unlink PROVE IInv'
<1> DEFINE N == Cardinality(inside)
           S == inside \ {node}
           s == Subst(rbtree, cur)
           r == DeleteRoot(rbtree, cur, s)
           u == Unlinked(rbtree, node, cur)
<1>1. /\ pc = "unlink" /\ inside' = S
      /\ IF cur = rbtree.root
         THEN rbtree' = r /\ pc' = "idle" /\ node' = NULL /\ cur' = NULL /\ key' = NULL
         ELSE /\ rbtree' = u
              /\ IF rbtree.color[cur] = "black"
                 THEN pc' = "delete_fixup" /\ node' = NULL /\ cur' = s /\ key' = key
                 ELSE pc' = "idle" /\ node' = NULL /\ cur' = NULL /\ key' = NULL
  BY DEF Unlink, Return, GoTo, MustFix
<1>2. /\ node \in inside
      /\ IF cur = node THEN \E d \in Sides : rbtree.child[d][node] = null
         ELSE LeastOf(rbtree, inside, rbtree.child["right"][node], cur) /\ rbtree.child["left"][cur] = null
      /\ Settled(rbtree, inside, N - 1)
  BY <1>1 DEF IInv, Progress, Shape, Calm
<1>3. RedBlackTree(rbtree, inside, N - 1)
  BY <1>2 DEF Settled
<1>4. IsFiniteSet(S) /\ Cardinality(S) = N - 1
  BY <1>2, IInvFacts, FS_RemoveElement
<1>5. Members(inside', node', key')
  <2>1. key' \in Keys \cup {NULL} /\ node' \in Nodes \cup {NULL}
    BY <1>1 DEF IInv, Members
  <2> QED BY <1>1, <1>2, <1>4, <2>1 DEF IInv, Members
<1>6. cur # node => cur # rbtree.root /\ cur \in inside /\
         \A U : Under(rbtree, inside, U) =>
            /\ cur \in U[rbtree.child["right"][node]]
            /\ \A y \in U[rbtree.child["right"][node]] : y = cur \/ Key[cur] <= Key[y]
  <2> SUFFICES ASSUME cur # node
               PROVE  cur # rbtree.root /\ cur \in inside /\
                      \A U : Under(rbtree, inside, U) =>
                         /\ cur \in U[rbtree.child["right"][node]]
                         /\ \A y \in U[rbtree.child["right"][node]] : y = cur \/ Key[cur] <= Key[y]
    OBVIOUS
  <2> DEFINE a == rbtree.child["right"][node]
  <2>1. LeastOf(rbtree, inside, a, cur) /\ rbtree.child["left"][cur] = null
    BY <1>2
  <2> HIDE DEF a
  <2>2. \A U : Under(rbtree, inside, U) => cur \in U[a] /\ \A y \in U[a] : y = cur \/ Key[cur] <= Key[y]
    BY <2>1, IInvFacts, LeastEnds
  <2>3. cur # rbtree.root
    <3>1. PICK U : Under(rbtree, inside, U)
      BY IInvFacts
    <3>2. cur \in U[node]
      BY <1>2, <2>2, <3>1, IInvFacts, TwoSides, UnderFacts DEF a
    <3> QED BY <1>2, <3>1, <3>2, IInvFacts, UpOne
  <2> QED BY <2>1, <2>2, <2>3 DEF LeastOf, a
<1>7. CASE cur = rbtree.root
  <2>1. cur = node
    BY <1>6, <1>7
  <2>2. Settled(r, S, N - 1)
    BY <1>2, <1>3, <1>7, <2>1, DeleteRootKeeps
  <2> HIDE DEF r, N, S
  <2>3. Settled(r, S, Cardinality(S))
    BY <1>4, <2>2
  <2>4. Shape(rbtree', inside', pc', cur')
    BY <1>1, <1>7, <2>3 DEF Shape, Calm
  <2> QED BY <1>1, <1>5, <1>7, <2>4 DEF IInv, Progress
<1>8. CASE cur # rbtree.root
  <2>1. IF rbtree.color[cur] = "black" THEN DeleteLoop(u, S, N - 1, s)
        ELSE RedBlackTree(u, S, N - 1)
    <3>1. CASE cur = node
      BY <1>2, <1>3, <1>8, <3>1, UnlinkSelf
    <3>2. CASE cur # node
      <4>1. rbtree.child["left"][cur] = null /\ cur \in inside /\ node \in inside
        BY <1>2, <1>6, <3>2
      <4> QED BY <1>3, <1>6, <3>2, <4>1, IInvFacts, UnlinkOther
    <3> QED BY <3>1, <3>2
  <2> HIDE DEF u, N, S, s
  <2>2. CASE rbtree.color[cur] = "black"
    <3>1. Shape(rbtree', inside', pc', cur')
      BY <1>1, <1>4, <1>8, <2>1, <2>2 DEF Shape, Calm
    <3> QED BY <1>1, <1>5, <1>8, <2>2, <3>1 DEF IInv, Progress
  <2>3. CASE rbtree.color[cur] # "black"
    <3>1. Settled(u, S, Cardinality(S))
      BY <1>4, <2>1, <2>3 DEF Settled
    <3>2. Shape(rbtree', inside', pc', cur')
      BY <1>1, <1>8, <2>3, <3>1 DEF Shape, Calm
    <3> QED BY <1>1, <1>5, <1>8, <2>3, <3>2 DEF IInv, Progress
  <2> QED BY <2>2, <2>3
<1> QED BY <1>7, <1>8

\* The black node that is missing goes up one level.
LEMMA StepDeleteFixupLowers == ASSUME IInv, DeleteFixupLowers PROVE IInv'
<1> DEFINE N == Cardinality(inside)
           v == SiblingUp(rbtree, cur)
           r == Lowered(v, cur)
           p == rbtree.parent[cur]
<1>1. /\ pc = "delete_fixup" /\ cur # rbtree.root /\ rbtree.color[cur] = "black"
      /\ v.color[Near(v, cur)] = "black" /\ v.color[Far(v, cur)] = "black"
      /\ rbtree' = r /\ pc' = "delete_fixup" /\ node' = NULL /\ cur' = p
      /\ UNCHANGED <<inside, key>>
  BY DEF DeleteFixupLowers, Short, SiblingBare, GoTo
<1>2. DeleteLoop(rbtree, inside, N, cur)
  BY <1>1 DEF IInv, Shape
<1>3. DeleteLoop(r, inside, N, p)
  BY <1>1, <1>2, DeleteFixupPass
<1> HIDE DEF r, p
<1> QED BY <1>1, <1>3 DEF IInv, Members, Shape, Progress, Calm

\* It is made up for, and the loop will end.
LEMMA StepDeleteFixupRefills == ASSUME IInv, DeleteFixupRefills PROVE IInv'
<1> DEFINE N == Cardinality(inside)
           v == SiblingUp(rbtree, cur)
           r == Refilled(FarRed(v, cur), cur)
<1>1. /\ pc = "delete_fixup" /\ cur # rbtree.root /\ rbtree.color[cur] = "black"
      /\ ~(v.color[Near(v, cur)] = "black" /\ v.color[Far(v, cur)] = "black")
      /\ rbtree' = r /\ pc' = "delete_fixup" /\ node' = NULL /\ cur' = r.root
      /\ UNCHANGED <<inside, key>>
  BY DEF DeleteFixupRefills, Short, SiblingBare, GoTo
<1>2. DeleteLoop(rbtree, inside, N, cur)
  BY <1>1 DEF IInv, Shape
<1>3. RedBlackTree(r, inside, N)
  BY <1>1, <1>2, DeleteFixupPass
<1> HIDE DEF r
<1>4. DeleteLoop(r, inside, N, r.root)
  BY <1>3, RootLoop
<1> QED BY <1>1, <1>4 DEF IInv, Members, Shape, Progress, Calm

\* A red node is painted black in its stead, or it is missing on all ways down.
LEMMA StepDeleteFixupEnds == ASSUME IInv, DeleteFixupEnds PROVE IInv'
<1> DEFINE N == Cardinality(inside)
           r == [rbtree EXCEPT !.color[cur] = "black"]
<1>1. /\ pc = "delete_fixup" /\ ~(cur # rbtree.root /\ rbtree.color[cur] = "black")
      /\ rbtree' = r /\ pc' = "idle" /\ node' = NULL /\ cur' = NULL /\ key' = NULL
      /\ UNCHANGED inside
  BY DEF DeleteFixupEnds, Short, Return, GoTo
<1>2. DeleteLoop(rbtree, inside, N, cur)
  BY <1>1 DEF IInv, Shape
<1>3. cur = rbtree.root \/ rbtree.color[cur] = "red"
  BY <1>1, <1>2, StandingFacts DEF DeleteLoop
<1>4. RedBlackTree(r, inside, N)
  BY <1>2, <1>3, DeleteFixupPass
<1>5. Settled(r, inside, N)
  BY <1>4 DEF Settled
<1> HIDE DEF r
<1> QED BY <1>1, <1>5 DEF IInv, Members, Shape, Progress, Calm

\* Those of util_rbtree_search.
LEMMA StepSearch == ASSUME IInv, NEW k \in Keys, util_rbtree_search(k) PROVE IInv'
<1>1. /\ pc = "idle" /\ pc' = "search" /\ node' = NULL /\ cur' = rbtree.root /\ key' = k
      /\ UNCHANGED <<rbtree, inside>>
  BY DEF util_rbtree_search, GoTo
<1>2. SearchAt(rbtree, inside, k, rbtree.root)
  BY IInvFacts DEF SearchAt, Under
<1> QED BY <1>1, <1>2 DEF IInv, Members, Shape, Progress, Calm

\* The search goes one node down, on the only side that may have the key,
LEMMA StepSearchBelow == ASSUME IInv, SearchBelow PROVE IInv'
<1> DEFINE y == rbtree.child[SideFor(key, cur)][cur]
<1>1. /\ pc = "search" /\ cur # null /\ key # Key[cur] /\ pc' = "search" /\ node' = NULL /\ cur' = y
      /\ UNCHANGED <<rbtree, inside, key>>
  BY DEF SearchBelow, GoTo
<1>2. key \in Keys /\ SearchAt(rbtree, inside, key, cur)
  BY <1>1 DEF IInv, Progress
<1>3. SearchAt(rbtree, inside, key, y)
  BY <1>1, <1>2, IInvFacts, SearchOn
<1> HIDE DEF y
<1> QED BY <1>1, <1>2, <1>3 DEF IInv, Members, Shape, Progress, Calm

\* and ends at a node with the key, or below a leaf.
LEMMA StepSearchEnds == ASSUME IInv, SearchEnds PROVE IInv'
<1> DEFINE f == IF cur = null THEN NULL ELSE cur
<1>1. /\ pc = "search" /\ (cur # null => key = Key[cur])
      /\ pc' = "searched" /\ node' = f /\ cur' = NULL
      /\ UNCHANGED <<rbtree, inside, key>>
  BY DEF SearchEnds, GoTo
<1>2. key \in Keys /\ SearchAt(rbtree, inside, key, cur)
  BY <1>1 DEF IInv, Progress
<1>3. IF f = NULL THEN \A m \in inside : Key[m] # key ELSE f \in inside /\ Key[f] = key
  <2>1. PICK U : Under(rbtree, inside, U)
    BY IInvFacts
  <2>2. U[null] = {}
    BY <2>1 DEF Under
  <2> QED BY <1>1, <1>2, <2>1, <2>2, IInvFacts DEF SearchAt
<1>4. f \in Nodes \cup {NULL}
  BY <1>2, IInvFacts DEF SearchAt
<1> HIDE DEF f
<1> QED BY <1>1, <1>2, <1>3, <1>4 DEF IInv, Members, Shape, Progress, Calm

\* Those of util_rbtree_lookup.
LEMMA StepLookup == ASSUME IInv, NEW k \in Keys, util_rbtree_lookup(k) PROVE IInv'
<1>1. /\ pc = "idle" /\ pc' = "lookup" /\ node' = NULL /\ cur' = rbtree.root /\ key' = k
      /\ UNCHANGED <<rbtree, inside>>
  BY DEF util_rbtree_lookup, GoTo
<1>2. LookupAt(rbtree, inside, k, NULL, rbtree.root)
  BY IInvFacts DEF LookupAt, Under
<1> QED BY <1>1, <1>2 DEF IInv, Members, Shape, Progress, Calm

\* The lookup goes one node down, the best one so far in hand.
LEMMA StepLookupBelow == ASSUME IInv, LookupBelow PROVE IInv'
<1> DEFINE l == rbtree.child["left"][cur]
           r == rbtree.child["right"][cur]
<1>1. /\ pc = "lookup" /\ cur # null /\ pc' = "lookup"
      /\ IF key <= Key[cur] THEN node' = cur /\ cur' = l ELSE node' = node /\ cur' = r
      /\ UNCHANGED <<rbtree, inside, key>>
  BY DEF LookupBelow, GoTo
<1>2. key \in Keys /\ LookupAt(rbtree, inside, key, node, cur)
  BY <1>1 DEF IInv, Progress
<1>3. IF key <= Key[cur] THEN LookupAt(rbtree, inside, key, cur, l)
      ELSE LookupAt(rbtree, inside, key, node, r)
  BY <1>1, <1>2, IInvFacts, LookupOn
<1>4. cur \in Nodes
  BY <1>1, <1>2, IInvFacts DEF LookupAt
<1> HIDE DEF l, r
<1> QED BY <1>1, <1>2, <1>3, <1>4 DEF IInv, Members, Shape, Progress, Calm

\* It ends with the best one, or goes on to the least of all,
LEMMA StepLookupEnds == ASSUME IInv, LookupEnds PROVE IInv'
<1>1. /\ pc = "lookup" /\ cur = null
      /\ IF node = NULL /\ rbtree.root # null
         THEN pc' = "least" /\ node' = NULL /\ cur' = rbtree.root
         ELSE pc' = "looked_up" /\ node' = node /\ cur' = NULL
      /\ UNCHANGED <<rbtree, inside, key>>
  BY DEF LookupEnds, GoTo
<1>2. key \in Keys /\ LookupAt(rbtree, inside, key, node, null)
  BY <1>1 DEF IInv, Progress
<1>3. PICK U : Under(rbtree, inside, U)
  BY IInvFacts
<1>4. /\ node # NULL => node \in inside /\ key <= Key[node]
      /\ \A m \in inside : key <= Key[m] => node # NULL /\ Key[node] <= Key[m]
  <2>1. U[null] = {}
    BY <1>3 DEF Under
  <2> QED BY <1>2, <1>3, <2>1 DEF LookupAt
<1>5. CASE node = NULL /\ rbtree.root # null
  <2>1. LeastOf(rbtree, inside, rbtree.root, rbtree.root)
    BY <1>5, IInvFacts, LeastBegins
  <2>2. \A m \in inside : Key[m] < key
    BY <1>2, <1>4, <1>5, IInvFacts
  <2> QED BY <1>1, <1>2, <1>5, <2>1, <2>2 DEF IInv, Members, Shape, Progress, Calm
<1>6. CASE ~(node = NULL /\ rbtree.root # null)
  <2>1. node = NULL => inside = {}
    BY <1>3, <1>6 DEF Under
  <2> QED BY <1>1, <1>2, <1>4, <1>6, <2>1 DEF IInv, Members, Shape, Progress, Calm
<1> QED BY <1>5, <1>6

\* where nothing is left of it.
LEMMA StepLookupLeast == ASSUME IInv, LookupLeast PROVE IInv'
<1>1. /\ pc = "least" /\ rbtree.child["left"][cur] = null
      /\ pc' = "looked_up" /\ node' = cur /\ cur' = NULL
      /\ UNCHANGED <<rbtree, inside, key>>
  BY DEF LookupLeast, GoTo
<1>2. key \in Keys /\ LeastOf(rbtree, inside, rbtree.root, cur) /\ \A m \in inside : Key[m] < key
  BY <1>1 DEF IInv, Progress
<1>3. PICK U : Under(rbtree, inside, U)
  BY IInvFacts
<1>4. \A y \in U[rbtree.root] : y = cur \/ Key[cur] <= Key[y]
  BY <1>1, <1>2, <1>3, IInvFacts, LeastEnds
<1>5. cur \in inside /\ cur \in Nodes /\ cur # NULL /\ \A m \in inside : Key[m] < key /\ Key[cur] <= Key[m]
  BY <1>2, <1>3, <1>4, IInvFacts DEF Under, LeastOf
<1> QED BY <1>1, <1>2, <1>5 DEF IInv, Members, Shape, Progress, Calm

\* The caller has the result.
LEMMA StepReturned == ASSUME IInv, Returned PROVE IInv'
<1>1. /\ pc \in {"searched", "looked_up"}
      /\ pc' = "idle" /\ node' = NULL /\ cur' = NULL /\ key' = NULL
      /\ UNCHANGED <<rbtree, inside>>
  BY DEF Returned, Return, GoTo
<1> QED BY <1>1 DEF IInv, Members, Shape, Progress, Calm

-----------------------------------------------------------------------------
\* Nothing makes up for an insertion that has strayed.
LEMMA StrayedStays == ASSUME [Next]_vars, ~strayed' PROVE ~strayed
BY DEF Next, vars, util_rbtree_insert, util_rbtree_delete, util_rbtree_search, util_rbtree_lookup,
       PlaceBelow, PlaceHere, InsertFixupRecolours, InsertFixupTurns, InsertFixupEnds, InsertFixupLost,
       MinBelow, MinFound, Unlink, DeleteFixupLowers, DeleteFixupRefills, DeleteFixupEnds,
       SearchBelow, SearchEnds, LookupBelow, LookupEnds, LookupLeast, Returned

\* Every other step keeps it,
LEMMA StepIInv == ASSUME IInv, ~strayed', [Next]_vars PROVE IInv'
<1>1. CASE Next
  BY <1>1, StepInsert, StepPlaceBelow, StepPlaceHere, StepInsertFixupRecolours, StepInsertFixupTurns,
     StepInsertFixupEnds, StepDelete, StepMinBelow, StepMinFound, StepUnlink, StepDeleteFixupLowers,
     StepDeleteFixupRefills, StepDeleteFixupEnds, StepSearch, StepSearchBelow, StepSearchEnds,
     StepLookup, StepLookupBelow, StepLookupEnds, StepLookupLeast, StepReturned DEF Next, InsertFixupLost
<1>2. CASE UNCHANGED vars
  BY <1>2 DEF vars, IInv, Members, Shape, Progress
<1> QED BY <1>1, <1>2

\* and so it holds until one has.
Kept == ~strayed => IInv

LEMMA AlwaysKept == Spec => []Kept
<1>1. Init => Kept
  BY InitIInv DEF Kept
<1>2. Kept /\ [Next]_vars => Kept'
  BY StrayedStays, StepIInv DEF Kept
<1> QED BY <1>1, <1>2, PTL DEF Spec

\* It gives the types,
LEMMA TypeOfIInv == ASSUME IInv PROVE TypeOK
<1> DEFINE N == Cardinality(inside)
<1>1. /\ rbtree \in Trees /\ rbtree.color[null] = "black" /\ rbtree.root \in inside \cup {null}
      /\ inside \subseteq Nodes /\ N \in Nat /\ IsFiniteSet(inside) /\ NULL \notin inside
  BY IInvFacts
<1>2. \A x \in inside : N - 1 \in Nat
  <2>1. \A x \in inside : N # 0
    BY <1>1, FS_EmptySet
  <2> QED BY <1>1, <2>1
<1>3. rbtree.size \in Nat
  <2>1. CASE pc \in Calm
    BY <1>1, <2>1, SettledFacts DEF IInv, Shape
  <2>2. CASE pc \in {"min", "unlink"}
    <3>1. node \in inside /\ Settled(rbtree, inside, N - 1)
      BY <2>2 DEF IInv, Shape, Progress
    <3> QED BY <1>2, <3>1, SettledFacts
  <2>3. CASE pc = "insert_fixup"
    <3>1. cur \in inside /\ rbtree.size = N - 1
      BY <2>3 DEF IInv, Shape, InsertFixupAt, InsertLoop, RedBlackTree, Standing
    <3> QED BY <1>2, <3>1
  <2>4. CASE pc = "delete_fixup"
    BY <1>1, <2>4 DEF IInv, Shape, DeleteLoop, Standing
  <2> QED BY <2>1, <2>2, <2>3, <2>4 DEF IInv, Shape
<1>4. pc \notin {"idle", "searched", "looked_up", "lost"} => cur \in inside \cup {null}
  <2>1. pc = "unlink" /\ cur = node => cur \in inside
    BY DEF IInv, Progress
  <2>2. pc \in {"insert_fixup", "delete_fixup"} => cur \in inside \cup {null}
    BY DEF IInv, Shape, InsertFixupAt, DeleteLoop
  <2>3. pc \in {"place", "min", "search", "lookup", "least"} => cur \in inside \cup {null}
    BY DEF IInv, Progress, PlaceFor, LeastOf, SearchAt, LookupAt
  <2>4. pc = "unlink" /\ cur # node => cur \in inside
    BY DEF IInv, Progress, LeastOf
  <2>5. pc \in Calm \cup {"min", "unlink", "insert_fixup", "delete_fixup"}
    BY DEF IInv, Shape
  <2> QED BY <2>1, <2>2, <2>3, <2>4, <2>5 DEF Calm
<1>5. pc \in {"idle", "place", "insert_fixup", "min", "unlink", "delete_fixup",
              "search", "searched", "lookup", "least", "looked_up", "lost"}
  BY DEF IInv, Shape, Calm
<1>6. node \in Nodes \cup {NULL} /\ key \in Keys \cup {NULL}
  BY DEF IInv, Members
<1> QED BY <1>1, <1>3, <1>4, <1>5, <1>6 DEF TypeOK, Trees, Objects

\* what hangs in the tree,
LEMMA HoldsOfIInv == ASSUME IInv PROVE HoldsInside
<1>1. Linked(rbtree, inside) /\ IsFiniteSet(inside) /\ Cardinality(inside) \in Nat
  BY IInvFacts
<1>2. PICK U : Under(rbtree, inside, U)
  BY IInvFacts
<1>3. Below = U
  BY <1>1, <1>2, BelowIs
<1>4. ParentsRight
  BY <1>1 DEF ParentsRight, Linked
<1>5. U[rbtree.root] = inside
  BY <1>2 DEF Under
<1>6. ASSUME NEW x \in inside
      PROVE  /\ \A y \in U[rbtree.child["left"][x]] : y # x /\ Key[y] <= Key[x]
             /\ \A y \in U[rbtree.child["right"][x]] : y # x /\ Key[x] <= Key[y]
             /\ U[rbtree.child["left"][x]] \cap U[rbtree.child["right"][x]] = {}
  <2>1. \A y \in U[rbtree.child["left"][x]] :
           y # x /\ Before("left", y, x) /\ y \notin U[rbtree.child["right"][x]]
    BY <1>1, <1>2, TwoSides, UnderFacts DEF Other
  <2>2. \A y \in U[rbtree.child["right"][x]] : y # x /\ Before("right", y, x)
    BY <1>1, <1>2, TwoSides, UnderFacts
  <2> QED BY <2>1, <2>2 DEF Before
<1>7. pc = "idle" => rbtree.size = Cardinality(inside)
  BY SettledFacts DEF IInv, Shape, Calm
<1> QED BY <1>3, <1>4, <1>5, <1>6, <1>7 DEF HoldsInside

\* and the colours.
LEMMA RedBlackOfIInv == ASSUME IInv PROVE RedBlack
<1> SUFFICES ASSUME pc = "idle"
             PROVE  /\ rbtree.color[rbtree.root] = "black"
                    /\ \A x \in inside, d \in Sides :
                          rbtree.color[x] = "red" => rbtree.color[rbtree.child[d][x]] = "black"
                    /\ \A x \in inside :
                          BlackHeight[rbtree.child["left"][x]] = BlackHeight[rbtree.child["right"][x]]
  BY DEF RedBlack
<1>1. Settled(rbtree, inside, Cardinality(inside))
  BY DEF IInv, Shape, Calm
<1>2. rbtree.color[rbtree.root] = "black" /\ Reds(rbtree, inside, {})
  BY <1>1, SettledFacts
<1>3. PICK h : Heights(rbtree, inside, h, {})
  BY <1>1, SettledFacts
<1>4. BlackHeight = h
  BY <1>3, IInvFacts, BlackHeightIs
<1>5. \A x \in inside, d \in Sides :
         rbtree.color[x] = "red" => rbtree.color[rbtree.child[d][x]] = "black"
  <2> TAKE x \in inside, d \in Sides
  <2>1. rbtree.child[d][x] \in Objects
    BY IInvFacts DEF Linked, Objects
  <2> QED BY <1>2, <2>1, IInvFacts DEF Reds, Trees
<1>6. ASSUME NEW x \in inside PROVE h[rbtree.child["left"][x]] = h[rbtree.child["right"][x]]
  <2> DEFINE l == rbtree.child["left"][x]
             r == rbtree.child["right"][x]
  <2>1. l \in inside \cup {null} /\ r \in inside \cup {null}
    BY IInvFacts, TwoSides DEF Linked
  <2>2. h[x] = Black(rbtree, x) + h[l] + 0 /\ h[x] = Black(rbtree, x) + h[r] + 0
    <3>1. Lack({}, x, "left") = 0 /\ Lack({}, x, "right") = 0
      BY DEF Lack
    <3> QED BY <1>3, <3>1, TwoSides DEF Heights
  <2>3. h[l] \in Nat /\ h[r] \in Nat /\ Black(rbtree, x) \in Nat
    BY <1>3, <2>1 DEF Heights, Black
  <2> QED BY <2>2, <2>3
<1> QED BY <1>2, <1>4, <1>5, <1>6

-----------------------------------------------------------------------------
\* q visits each node of A once, in the order of the keys.
Visits(A, q) ==
    /\ q \in Seq(Nodes) /\ {q[i] : i \in DOMAIN q} = A /\ Len(q) = Cardinality(A)
    /\ \A i, j \in DOMAIN q : i < j => Key[q[i]] <= Key[q[j]]

\* The walk through what is left of z, z and what is right of it.
LEMMA WalkJoins ==
    ASSUME NEW A, NEW B, IsFiniteSet(A), IsFiniteSet(B), A \subseteq Nodes, B \subseteq Nodes, NEW z \in Nodes,
           \A y \in A : y # z /\ Key[y] <= Key[z] /\ y \notin B,
           \A y \in B : y # z /\ Key[z] <= Key[y],
           NEW p, Visits(A, p), NEW q, Visits(B, q)
    PROVE  Visits({z} \cup A \cup B, p \o <<z>> \o q)
<1> DEFINE m == Len(p)
           n == Len(q)
           s == p \o <<z>>
           w == s \o q
           S == {z} \cup A \cup B
<1>1. p \in Seq(Nodes) /\ q \in Seq(Nodes) /\ <<z>> \in Seq(Nodes) /\ m \in Nat /\ n \in Nat
      /\ DOMAIN p = 1..m /\ DOMAIN q = 1..n
  BY DEF Visits
<1>2. s \in Seq(Nodes) /\ Len(s) = m + 1 /\ \A i \in 1..m + 1 : s[i] = IF i <= m THEN p[i] ELSE z
  <2>1. s \in Seq(Nodes) /\ Len(s) = m + Len(<<z>>)
        /\ \A i \in 1..m + Len(<<z>>) : s[i] = IF i <= m THEN p[i] ELSE <<z>>[i - m]
    BY <1>1, ConcatProperties
  <2>2. Len(<<z>>) = 1 /\ <<z>>[1] = z
    OBVIOUS
  <2>3. ASSUME NEW i \in 1..m + 1 PROVE s[i] = IF i <= m THEN p[i] ELSE z
    <3>1. i > m => i - m = 1
      BY <1>1
    <3> HIDE DEF s, m
    <3> QED BY <1>1, <2>1, <2>2, <3>1
  <2> QED BY <2>1, <2>2, <2>3
<1> HIDE DEF s
<1>3. w \in Seq(Nodes) /\ Len(w) = m + 1 + n /\ DOMAIN w = 1..m + 1 + n
      /\ \A i \in 1..m + 1 + n : w[i] = IF i <= m + 1 THEN s[i] ELSE q[i - (m + 1)]
  <2>1. w \in Seq(Nodes) /\ Len(w) = Len(s) + Len(q)
        /\ \A i \in 1..Len(s) + Len(q) : w[i] = IF i <= Len(s) THEN s[i] ELSE q[i - Len(s)]
    <3>1. s \in Seq(Nodes) /\ q \in Seq(Nodes)
      BY <1>1, <1>2
    <3> QED BY <3>1, ConcatProperties
  <2> HIDE DEF w
  <2>2. DOMAIN w = 1..Len(w)
    BY <2>1
  <2> QED BY <1>2, <2>1, <2>2
<1> HIDE DEF w, m, n
<1>4. \A i \in 1..m + 1 + n : w[i] = IF i <= m THEN p[i] ELSE IF i = m + 1 THEN z ELSE q[i - (m + 1)]
  BY <1>1, <1>2, <1>3
<1>5. /\ \A i \in 1..m : p[i] \in A
      /\ \A i \in 1..n : q[i] \in B
      /\ \A y \in A : \E i \in 1..m : p[i] = y
      /\ \A y \in B : \E i \in 1..n : q[i] = y
  BY <1>1 DEF Visits
<1>6. {w[i] : i \in DOMAIN w} = S
  <2>1. ASSUME NEW i \in 1..m + 1 + n PROVE w[i] \in S
    <3>1. i <= m \/ i = m + 1 \/ i - (m + 1) \in 1..n
      BY <1>1
    <3> QED BY <1>1, <1>4, <1>5, <3>1
  <2>2. ASSUME NEW y \in S PROVE \E i \in 1..m + 1 + n : w[i] = y
    <3>1. CASE y = z
      <4>1. m + 1 \in 1..m + 1 + n /\ w[m + 1] = z
        BY <1>1, <1>4
      <4> QED BY <3>1, <4>1
    <3>2. CASE y \in A
      <4>1. PICK i \in 1..m : p[i] = y
        BY <1>5, <3>2
      <4>2. i \in 1..m + 1 + n /\ i <= m
        BY <1>1
      <4> QED BY <1>4, <4>1, <4>2
    <3>3. CASE y \in B
      <4>1. PICK i \in 1..n : q[i] = y
        BY <1>5, <3>3
      <4> DEFINE j == i + (m + 1)
      <4>2. j \in 1..m + 1 + n /\ ~(j <= m) /\ j # m + 1 /\ j - (m + 1) = i
        BY <1>1
      <4>3. w[j] = q[i]
        BY <1>4, <4>2
      <4> QED BY <4>1, <4>2, <4>3
    <3> QED BY <3>1, <3>2, <3>3
  <2> QED BY <1>3, <2>1, <2>2
<1>7. Len(w) = Cardinality(S)
  <2>1. A \cap B = {} /\ Cardinality({}) = 0 /\ Cardinality(A) \in Nat /\ Cardinality(B) \in Nat
    BY FS_EmptySet, FS_CardinalityType
  <2>2. IsFiniteSet(A \cup B) /\ Cardinality(A \cup B) = Cardinality(A) + Cardinality(B) - Cardinality({})
    BY <2>1, FS_Union
  <2>3. z \notin A \cup B /\ S = (A \cup B) \cup {z}
    OBVIOUS
  <2>4. Cardinality(S) = Cardinality(A \cup B) + 1
    BY <2>2, <2>3, FS_AddElement
  <2>5. m = Cardinality(A) /\ n = Cardinality(B)
    BY DEF Visits, m, n
  <2> QED BY <1>3, <2>1, <2>2, <2>4, <2>5
<1>8. ASSUME NEW i \in 1..m + 1 + n, NEW j \in 1..m + 1 + n, i < j PROVE Key[w[i]] <= Key[w[j]]
  <2>1. /\ \A a, b \in 1..m : a < b => Key[p[a]] <= Key[p[b]]
        /\ \A a, b \in 1..n : a < b => Key[q[a]] <= Key[q[b]]
    BY <1>1 DEF Visits
  <2>2. Key[z] \in Int /\ \A y \in A \cup B : Key[y] \in Int
    BY NodesAssumption
  <2>3. CASE j <= m
    <3>1. i \in 1..m /\ j \in 1..m /\ w[i] = p[i] /\ w[j] = p[j]
      BY <1>1, <1>4, <1>8, <2>3
    <3> QED BY <1>8, <2>1, <3>1
  <2>4. CASE i > m + 1
    <3>1. i - (m + 1) \in 1..n /\ j - (m + 1) \in 1..n /\ i - (m + 1) < j - (m + 1)
      BY <1>1, <1>8, <2>4
    <3>2. w[i] = q[i - (m + 1)] /\ w[j] = q[j - (m + 1)]
      BY <1>1, <1>4, <1>8, <2>4
    <3> QED BY <2>1, <3>1, <3>2
  <2>5. CASE i <= m + 1 /\ j > m
    <3>1. w[i] \in A \cup {z} /\ w[j] \in B \cup {z}
      <4>1. w[i] \in A \cup {z}
        <5>1. i \in 1..m \/ i = m + 1
          BY <1>1, <2>5
        <5> QED BY <1>1, <1>4, <1>5, <5>1
      <4>2. w[j] \in B \cup {z}
        <5>1. j = m + 1 \/ (j - (m + 1) \in 1..n /\ ~(j <= m) /\ j # m + 1)
          BY <1>1, <2>5
        <5> QED BY <1>1, <1>4, <1>5, <5>1
      <4> QED BY <4>1, <4>2
    <3>2. Key[w[i]] <= Key[z] /\ Key[z] <= Key[w[j]]
      BY <2>2, <3>1
    <3>3. Key[w[i]] \in Int /\ Key[w[j]] \in Int
      BY <2>2, <3>1
    <3> QED BY <2>2, <3>2, <3>3
  <2> QED BY <1>1, <2>3, <2>4, <2>5
<1> QED BY <1>3, <1>6, <1>7, <1>8 DEF Visits, w, s

\* What hangs below a node below another hangs below that.
LEMMA BelowBelow ==
    ASSUME NEW t, NEW S, NEW U, Linked(t, S), Under(t, S, U), IsFiniteSet(S), NEW a \in S
    PROVE  \A y \in U[a] : U[y] \subseteq U[a]
<1> DEFINE Z == {v \in S : \E y \in U[v] : ~(U[y] \subseteq U[v])}
<1>1. SUFFICES ASSUME Z # {} PROVE FALSE
  OBVIOUS
<1>2. PICK v \in Z : \A d \in Sides : t.child[d][v] \notin Z
  <2>1. Z \subseteq S
    OBVIOUS
  <2> HIDE DEF Z
  <2> QED BY <1>1, <2>1, Lowest
<1>3. PICK y \in U[v] : ~(U[y] \subseteq U[v])
  BY <1>2
<1>4. PICK d \in Sides : y \in U[t.child[d][v]]
  BY <1>2, <1>3, TwoSides DEF Under
<1>5. t.child[d][v] \in S
  BY <1>2, <1>4 DEF Under, Linked
<1>6. U[y] \subseteq U[t.child[d][v]] /\ U[t.child[d][v]] \subseteq U[v]
  BY <1>2, <1>4, <1>5, UnderFacts
<1> QED BY <1>3, <1>6

\* s gives the walk from each node at z and below.
WalksFrom(t, U, z, s) ==
    /\ DOMAIN s = U[z] \cup {null} /\ s[null] = << >>
    /\ \A y \in U[z] : s[y] = s[t.child["left"][y]] \o <<y>> \o s[t.child["right"][y]]

\* There is one for all nodes.
LEMMA WalkExists ==
    ASSUME NEW t, NEW S, NEW U, Linked(t, S), Under(t, S, U), IsFiniteSet(S)
    PROVE  \E s : WalksFrom(t, U, t.root, s)
<1>0. null \notin S /\ U[null] = {} /\ t.root \in S \cup {null}
  BY NodesAssumption DEF Linked, Under
<1>1. \E s : WalksFrom(t, U, null, s)
  <2>1. WalksFrom(t, U, null, [y \in {null} |-> << >>])
    BY <1>0 DEF WalksFrom
  <2> QED BY <2>1
<1> DEFINE Z == {z \in S : ~\E s : WalksFrom(t, U, z, s)}
<1>2. SUFFICES ASSUME Z # {} PROVE FALSE
  BY <1>0, <1>1
<1>3. PICK z \in Z : \A d \in Sides : t.child[d][z] \notin Z
  <2>1. Z \subseteq S
    OBVIOUS
  <2> HIDE DEF Z
  <2> QED BY <1>2, <2>1, Lowest
<1> DEFINE l == t.child["left"][z]
           r == t.child["right"][z]
<1>4. l \in S \cup {null} /\ r \in S \cup {null} /\ z \in S /\ z # null
  BY <1>0, <1>3, TwoSides DEF Linked
<1>5. (\E s : WalksFrom(t, U, l, s)) /\ (\E s : WalksFrom(t, U, r, s))
  BY <1>1, <1>3, <1>4, TwoSides
<1>6. PICK p : WalksFrom(t, U, l, p)
  BY <1>5
<1>7. PICK q : WalksFrom(t, U, r, q)
  BY <1>5
<1>8. /\ U[z] = {z} \cup U[l] \cup U[r] /\ z \notin U[l] /\ z \notin U[r]
      /\ U[l] \cap U[r] = {} /\ U[l] \subseteq S /\ U[r] \subseteq S
      /\ (l # null => l \in U[l]) /\ (r # null => r \in U[r])
  <2>1. U[z] = {z} \cup U[l] \cup U[r]
    BY <1>4 DEF Under
  <2>2. \A y \in U[l] : y # z /\ y \notin U[r] /\ y \in S
    BY <1>4, TwoSides, UnderFacts DEF Other
  <2>3. \A y \in U[r] : y # z /\ y \in S
    BY <1>4, TwoSides, UnderFacts
  <2>4. (l # null => l \in U[l]) /\ (r # null => r \in U[r])
    BY <1>4, TwoSides, UnderFacts
  <2> QED BY <2>1, <2>2, <2>3, <2>4
<1>9. ASSUME NEW a \in {l, r}, NEW y \in U[a], NEW d \in Sides
      PROVE  t.child[d][y] \in U[a] \cup {null}
  <2>1. a \in S /\ y \in S
    BY <1>0, <1>4, <1>8
  <2>2. CASE t.child[d][y] # null
    <3> DEFINE c == t.child[d][y]
    <3>1. c \in S /\ t.parent[c] = y /\ c # t.root
      BY <2>1, <2>2, LinkedFacts
    <3>2. c \in U[y] /\ U[y] \subseteq S
      BY <2>1, <3>1, UnderFacts
    <3>3. c \in U[a]
      BY <2>1, <3>2, BelowBelow
    <3> QED BY <3>3
  <2> QED BY <2>2
<1> HIDE DEF l, r
<1> DEFINE s == [y \in U[z] \cup {null} |-> IF y = z THEN p[l] \o <<z>> \o q[r]
                                            ELSE IF y \in U[l] \cup {null} THEN p[y] ELSE q[y]]
<1>10. /\ DOMAIN s = U[z] \cup {null} /\ s[null] = << >> /\ s[z] = p[l] \o <<z>> \o q[r]
       /\ \A y \in U[l] \cup {null} : s[y] = p[y]
       /\ \A y \in U[r] \cup {null} : s[y] = q[y]
  <2>1. p[null] = << >> /\ q[null] = << >>
    BY <1>6, <1>7 DEF WalksFrom
  <2> QED BY <1>0, <1>4, <1>8, <2>1
<1> HIDE DEF s
<1>11. ASSUME NEW y \in U[z] PROVE s[y] = s[t.child["left"][y]] \o <<y>> \o s[t.child["right"][y]]
  <2>1. CASE y = z
    <3>1. s[l] = p[l] /\ s[r] = q[r]
      BY <1>4, <1>8, <1>10
    <3> QED BY <1>10, <2>1, <3>1 DEF l, r
  <2>2. CASE y \in U[l]
    <3>1. t.child["left"][y] \in U[l] \cup {null} /\ t.child["right"][y] \in U[l] \cup {null}
      BY <1>9, <2>2, TwoSides
    <3>2. p[y] = p[t.child["left"][y]] \o <<y>> \o p[t.child["right"][y]]
      BY <1>6, <2>2 DEF WalksFrom
    <3> QED BY <1>10, <2>2, <3>1, <3>2
  <2>3. CASE y \in U[r]
    <3>1. t.child["left"][y] \in U[r] \cup {null} /\ t.child["right"][y] \in U[r] \cup {null}
      BY <1>9, <2>3, TwoSides
    <3>2. q[y] = q[t.child["left"][y]] \o <<y>> \o q[t.child["right"][y]]
      BY <1>7, <2>3 DEF WalksFrom
    <3> QED BY <1>10, <2>3, <3>1, <3>2
  <2> QED BY <1>8, <2>1, <2>2, <2>3
<1>12. WalksFrom(t, U, z, s)
  BY <1>10, <1>11 DEF WalksFrom
<1> QED BY <1>3, <1>12

\* So the walk from a node visits what hangs there.
LEMMA TravelIs ==
    ASSUME NEW U, Linked(rbtree, inside), Under(rbtree, inside, U), IsFiniteSet(inside)
    PROVE  \A x \in inside \cup {null} : Visits(U[x], MidTravel[x])
<1> DEFINE l(x) == rbtree.child["left"][x]
           r(x) == rbtree.child["right"][x]
           D    == inside \cup {null}
           F(s) == [x \in D |-> IF x = null THEN << >> ELSE s[l(x)] \o <<x>> \o s[r(x)]]
           B    == MidTravel
<1>0. null \notin inside /\ inside \subseteq Nodes /\ U[null] = {} /\ U[rbtree.root] = inside
  BY NodesAssumption DEF Linked, Under
<1>1. \E s : s = F(s)
  <2>1. PICK s : WalksFrom(rbtree, U, rbtree.root, s)
    BY WalkExists
  <2>2. DOMAIN s = D /\ s[null] = << >> /\ \A x \in inside : s[x] = s[l(x)] \o <<x>> \o s[r(x)]
    BY <1>0, <2>1 DEF WalksFrom
  <2> DEFINE w == [x \in D |-> s[x]]
  <2>3. \A x \in D : w[x] = s[x]
    OBVIOUS
  <2>4. \A x \in inside : l(x) \in D /\ r(x) \in D
    BY TwoSides DEF Linked
  <2>5. w = [x \in D |-> IF x = null THEN << >> ELSE w[l(x)] \o <<x>> \o w[r(x)]]
    <3>1. ASSUME NEW x \in D PROVE s[x] = IF x = null THEN << >> ELSE w[l(x)] \o <<x>> \o w[r(x)]
      BY <2>2, <2>3, <2>4
    <3> QED BY <3>1
  <2> QED BY <2>5
<1>2. B = CHOOSE s : s = F(s)
  BY DEF MidTravel
<1> HIDE DEF F, B
<1>3. B = F(B)
  BY <1>1, <1>2
<1>4. B[null] = << >> /\ \A x \in inside : B[x] = B[l(x)] \o <<x>> \o B[r(x)]
  BY <1>0, <1>3 DEF F
<1> HIDE <1>3
<1>5. Visits(U[null], B[null])
  <2>1. Len(<< >>) = 0 /\ << >> \in Seq(Nodes) /\ DOMAIN << >> = {} /\ Cardinality({}) = 0
    BY FS_EmptySet
  <2> QED BY <1>0, <1>4, <2>1 DEF Visits
<1> DEFINE Z == {x \in inside : ~Visits(U[x], B[x])}
<1>6. Z = {}
  <2> SUFFICES ASSUME Z # {} PROVE FALSE
    OBVIOUS
  <2>1. PICK z \in Z : \A d \in Sides : rbtree.child[d][z] \notin Z
    <3>1. Z \subseteq inside
      OBVIOUS
    <3> HIDE DEF Z
    <3> QED BY <3>1, Lowest
  <2>2. z \in inside /\ z \in Nodes /\ l(z) \in D /\ r(z) \in D
    BY <1>0, <2>1, TwoSides DEF Linked
  <2>3. Visits(U[l(z)], B[l(z)]) /\ Visits(U[r(z)], B[r(z)])
    BY <1>5, <2>1, <2>2, TwoSides
  <2>4. U[z] = {z} \cup U[l(z)] \cup U[r(z)]
    BY <2>2 DEF Under
  <2>5. \A y \in U[l(z)] : y # z /\ Key[y] <= Key[z] /\ y \notin U[r(z)] /\ y \in inside
    BY <2>2, TwoSides, UnderFacts DEF Other, Before
  <2>6. \A y \in U[r(z)] : y # z /\ Key[z] <= Key[y] /\ y \in inside
    <3>1. \A y \in U[r(z)] : y # z /\ Before("right", y, z) /\ y \in inside
      BY <2>2, TwoSides, UnderFacts
    <3> QED BY <3>1 DEF Before
  <2>7. IsFiniteSet(U[l(z)]) /\ IsFiniteSet(U[r(z)]) /\ U[l(z)] \subseteq Nodes /\ U[r(z)] \subseteq Nodes
    BY <1>0, <2>5, <2>6, FS_Subset
  <2>8. Visits(U[z], B[l(z)] \o <<z>> \o B[r(z)])
    <3> DEFINE A == U[l(z)]
               C == U[r(z)]
               p == B[l(z)]
               q == B[r(z)]
    <3> HIDE DEF A, C, p, q
    <3>1. IsFiniteSet(A) /\ IsFiniteSet(C) /\ A \subseteq Nodes /\ C \subseteq Nodes /\ z \in Nodes
          /\ (\A y \in A : y # z /\ Key[y] <= Key[z] /\ y \notin C) /\ (\A y \in C : y # z /\ Key[z] <= Key[y])
          /\ Visits(A, p) /\ Visits(C, q)
      BY <2>2, <2>3, <2>5, <2>6, <2>7 DEF A, C, p, q
    <3>2. Visits({z} \cup A \cup C, p \o <<z>> \o q)
      BY <3>1, WalkJoins
    <3> QED BY <2>4, <3>2 DEF A, C, p, q
  <2> QED BY <1>4, <2>1, <2>2, <2>8
<1>7. \A x \in D : Visits(U[x], B[x])
  BY <1>5, <1>6
<1> QED BY <1>7 DEF B

\* The walk from the root visits all.
LEMMA TravelOfIInv == ASSUME IInv PROVE TravelsInOrder
<1> SUFFICES ASSUME pc = "idle"
             PROVE  LET s == util_rbtree_mid_travel
                    IN  /\ {s[i] : i \in DOMAIN s} = inside /\ Len(s) = rbtree.size
                        /\ \A i, j \in DOMAIN s : i < j => Key[s[i]] <= Key[s[j]]
  BY DEF TravelsInOrder
<1>1. PICK U : Under(rbtree, inside, U)
  BY IInvFacts
<1>2. Visits(U[rbtree.root], MidTravel[rbtree.root])
  BY <1>1, IInvFacts, TravelIs
<1>3. U[rbtree.root] = inside
  BY <1>1 DEF Under
<1>4. rbtree.size = Cardinality(inside)
  BY SettledFacts DEF IInv, Shape, Calm
<1> QED BY <1>2, <1>3, <1>4 DEF Visits, util_rbtree_mid_travel

-----------------------------------------------------------------------------
\* What the check answers for a subtree of a red-black tree: it takes the number
\* of black nodes on the way down that it is given, or the first it finds.
CheckAnswer(g, a) ==
    LET black == a.above + g[a.x]
        b     == IF a.rbh = 0 THEN black ELSE a.rbh
    IN  IF a.fini # 0 THEN [rbh |-> a.rbh, fini |-> a.fini]
        ELSE [rbh |-> b, fini |-> IF b # black THEN 3 ELSE 0]

\* It does if it does so for the children.
LEMMA CheckAtIs ==
    ASSUME IInv, pc = "idle", NEW g, Heights(rbtree, inside, g, {}),
           NEW check, NEW a \in CheckCalls,
           \A c \in CheckCalls : (\E d \in Sides : c.x = rbtree.child[d][a.x]) => check[c] = CheckAnswer(g, c)
    PROVE  CheckAt(check, a) = CheckAnswer(g, a)
<1> DEFINE x == a.x
           l == rbtree.child["left"][x]
           r == rbtree.child["right"][x]
           w == IF rbtree.color[x] = "black" THEN a.above + 1 ELSE a.above
           Call(y, c) == check[[x |-> y, rbh |-> c.rbh, fini |-> c.fini, above |-> w]]
           Fail(c, code) == [rbh |-> c.rbh, fini |-> code]
           Ends(c) == LET b == IF c.rbh = 0 THEN w ELSE c.rbh
                      IN  [rbh |-> b, fini |-> IF b # w THEN 3 ELSE c.fini]
           RedRed(y) == rbtree.color[x] = "red" /\ rbtree.color[y] = "red"
           c1 == Call(l, a)
           T == a.above + g[x]
           b1 == IF a.rbh = 0 THEN T ELSE a.rbh
<1>1. CheckAt(check, a) =
          IF a.fini # 0 THEN Fail(a, a.fini)
          ELSE IF l = null THEN Ends(a)
          ELSE IF RedRed(l) THEN Fail(a, 4)
          ELSE IF Key[x] < Key[l] THEN Fail(a, 5)
          ELSE IF r = null THEN Ends(c1)
          ELSE IF RedRed(r) THEN Fail(c1, 4)
          ELSE IF Key[x] > Key[r] THEN Fail(c1, 5)
          ELSE Call(r, c1)
  BY DEF CheckAt
<1>2. x \in inside /\ a.rbh \in Nat /\ a.fini \in 0..5 /\ a.above \in Nat
  BY DEF CheckCalls
<1>3. /\ l \in inside \cup {null} /\ r \in inside \cup {null}
      /\ null \notin inside /\ inside \subseteq Nodes
  BY <1>2, IInvFacts, TwoSides DEF Linked
<1>4. /\ g[x] \in Nat /\ g[l] \in Nat /\ g[r] \in Nat /\ w \in Nat /\ g[null] = 0
      /\ T = w + g[l] /\ T = w + g[r] /\ T \in Nat
  <2>1. g \in [inside \cup {null} -> Nat] /\ g[null] = 0
    BY DEF Heights
  <2>2. g[x] \in Nat /\ g[l] \in Nat /\ g[r] \in Nat
    BY <1>2, <1>3, <2>1
  <2>3. g[x] = Black(rbtree, x) + g[l] + 0 /\ g[x] = Black(rbtree, x) + g[r] + 0
    <3>1. Lack({}, x, "left") = 0 /\ Lack({}, x, "right") = 0
      BY DEF Lack
    <3> QED BY <1>2, <3>1, TwoSides DEF Heights
  <2> QED BY <1>2, <2>1, <2>2, <2>3 DEF Black
<1>5. ~RedRed(l) /\ ~RedRed(r)
  <2>1. Reds(rbtree, inside, {})
    BY SettledFacts DEF IInv, Shape, Calm
  <2> QED BY <1>2, <2>1, TwoSides DEF Reds
<1>6. (l # null => ~(Key[x] < Key[l])) /\ (r # null => ~(Key[x] > Key[r]))
  <2>1. PICK U : Under(rbtree, inside, U)
    BY IInvFacts
  <2>2. (l # null => l \in U[l]) /\ (r # null => r \in U[r])
    BY <1>3, <2>1, TwoSides, IInvFacts, UnderFacts
  <2>3. (l # null => Before("left", l, x)) /\ (r # null => Before("right", r, x))
    BY <1>2, <2>1, <2>2, TwoSides DEF Under
  <2>4. Key[x] \in Int /\ (l # null => Key[l] \in Int) /\ (r # null => Key[r] \in Int)
    BY <1>2, <1>3, NodesAssumption
  <2> QED BY <2>3, <2>4 DEF Before
<1>7. CheckAnswer(g, a) = IF a.fini # 0 THEN [rbh |-> a.rbh, fini |-> a.fini]
                          ELSE [rbh |-> b1, fini |-> IF b1 # T THEN 3 ELSE 0]
  BY DEF CheckAnswer
<1>8. ASSUME l # null, a.fini = 0 PROVE c1 = [rbh |-> b1, fini |-> IF b1 # T THEN 3 ELSE 0]
  <2> DEFINE c == [x |-> l, rbh |-> a.rbh, fini |-> a.fini, above |-> w]
  <2>1. c \in CheckCalls /\ c.x = l
    BY <1>2, <1>3, <1>4, <1>8 DEF CheckCalls
  <2>2. check[c] = CheckAnswer(g, c)
    BY <2>1, TwoSides
  <2>3. CheckAnswer(g, c) = [rbh |-> b1, fini |-> IF b1 # T THEN 3 ELSE 0]
    BY <1>4, <1>8 DEF CheckAnswer
  <2> QED BY <2>2, <2>3
<1>9. ASSUME l # null, r # null, a.fini = 0 PROVE Call(r, c1) = c1
  <2> DEFINE c == [x |-> r, rbh |-> c1.rbh, fini |-> c1.fini, above |-> w]
  <2>0. /\ c1.rbh = b1 /\ c1.fini = (IF b1 # T THEN 3 ELSE 0) /\ b1 \in Nat
        /\ c1 = [rbh |-> c1.rbh, fini |-> c1.fini]
    BY <1>2, <1>4, <1>8, <1>9
  <2> HIDE DEF c1, b1, T, w, r
  <2>1. c \in CheckCalls /\ c.x = r /\ c.rbh = c1.rbh /\ c.fini = c1.fini /\ c.above = w
    BY <1>3, <1>4, <1>9, <2>0 DEF CheckCalls
  <2>2. check[c] = CheckAnswer(g, c)
    <3>1. r = rbtree.child["right"][a.x]
      BY DEF r
    <3> QED BY <2>1, <3>1, TwoSides
  <2> HIDE DEF c
  <2>3. CheckAnswer(g, c) = c1
    <3>1. c1.rbh = 0 => T = 0
      BY <1>2, <1>4, <2>0 DEF b1
    <3>2. CASE c1.fini # 0
      BY <2>0, <2>1, <3>2 DEF CheckAnswer
    <3>3. CASE c1.fini = 0
      <4>1. c1.rbh = T
        BY <2>0, <3>3
      <4>2. c.above + g[c.x] = T
        BY <1>4, <2>1
      <4> QED BY <2>0, <2>1, <3>3, <4>1, <4>2 DEF CheckAnswer
    <3> QED BY <3>2, <3>3
  <2> QED BY <2>2, <2>3 DEF c
<1> HIDE DEF c1, w, l, r, x, T
<1>10. CASE a.fini # 0
  BY <1>1, <1>7, <1>10
<1>11. CASE a.fini = 0 /\ l = null
  <2>1. T = w
    BY <1>4, <1>11
  <2> QED BY <1>1, <1>7, <1>11, <2>1
<1>12. CASE a.fini = 0 /\ l # null /\ r = null
  <2>1. T = w
    BY <1>4, <1>12
  <2>2. CheckAt(check, a) = Ends(c1)
    BY <1>1, <1>5, <1>6, <1>12
  <2>3. c1.rbh = b1 /\ c1.fini = IF b1 # T THEN 3 ELSE 0
    BY <1>8, <1>12
  <2>4. b1 = 0 => T = 0
    BY <1>2, <1>4
  <2> HIDE DEF b1
  <2>5. Ends(c1) = [rbh |-> b1, fini |-> IF b1 # T THEN 3 ELSE 0]
    BY <2>1, <2>3, <2>4
  <2> QED BY <1>7, <1>12, <2>2, <2>5
<1>13. CASE a.fini = 0 /\ l # null /\ r # null
  <2>1. CheckAt(check, a) = Call(r, c1)
    BY <1>1, <1>5, <1>6, <1>13
  <2> QED BY <1>7, <1>8, <1>9, <1>13, <2>1
<1> QED BY <1>10, <1>11, <1>12, <1>13

\* The recursion of the check has one solution, which is that.
LEMMA CheckIs ==
    ASSUME IInv, pc = "idle", NEW g, Heights(rbtree, inside, g, {})
    PROVE  \A a \in CheckCalls : rbtree_check_subtree[a] = CheckAnswer(g, a)
<1> DEFINE F(f) == [a \in CheckCalls |-> CheckAt(f, a)]
           C == [a \in CheckCalls |-> CheckAnswer(g, a)]
           B == rbtree_check_subtree
<1>1. C = F(C)
  <2>1. \A c \in CheckCalls : C[c] = CheckAnswer(g, c)
    OBVIOUS
  <2> HIDE DEF C
  <2>2. \A a \in CheckCalls : CheckAt(C, a) = CheckAnswer(g, a)
    BY <2>1, CheckAtIs
  <2> QED BY <2>2 DEF C
<1>2. B = CHOOSE f : f = F(f)
  BY DEF rbtree_check_subtree
<1> HIDE DEF F, C, B
<1>3. B = F(B)
  BY <1>1, <1>2
<1>4. \A a \in CheckCalls : B[a] = CheckAt(B, a)
  BY <1>3 DEF F
<1> HIDE <1>3
<1> DEFINE Z == {z \in inside : \E a \in CheckCalls : a.x = z /\ B[a] # CheckAnswer(g, a)}
<1>5. Z = {}
  <2> SUFFICES ASSUME Z # {} PROVE FALSE
    OBVIOUS
  <2>1. PICK z \in Z : \A d \in Sides : rbtree.child[d][z] \notin Z
    <3>1. Z \subseteq inside
      OBVIOUS
    <3>2. PICK U : Under(rbtree, inside, U)
      BY IInvFacts
    <3>3. Linked(rbtree, inside) /\ IsFiniteSet(inside)
      BY IInvFacts
    <3> HIDE DEF Z
    <3> QED BY <3>1, <3>2, <3>3, Lowest
  <2>2. PICK a \in CheckCalls : a.x = z /\ B[a] # CheckAnswer(g, a)
    BY <2>1
  <2>3. ASSUME NEW c \in CheckCalls, NEW d \in Sides, c.x = rbtree.child[d][a.x]
        PROVE  B[c] = CheckAnswer(g, c)
    <3>1. c.x \in inside /\ c.x \notin Z
      BY <2>1, <2>2, <2>3 DEF CheckCalls
    <3> QED BY <3>1
  <2>4. CheckAt(B, a) = CheckAnswer(g, a)
    BY <2>3, CheckAtIs
  <2> QED BY <1>4, <2>2, <2>4
<1>6. ASSUME NEW a \in CheckCalls PROVE B[a] = CheckAnswer(g, a)
  <2>1. a.x \in inside
    BY DEF CheckCalls
  <2> QED BY <1>5, <2>1
<1> QED BY <1>6 DEF B

\* So the root is accepted.
LEMMA CheckOfIInv == ASSUME IInv PROVE CheckAccepts
<1> SUFFICES ASSUME pc = "idle", rbtree.root # null PROVE util_rbtree_check = 0
  BY DEF CheckAccepts, util_rbtree_check
<1>1. Settled(rbtree, inside, Cardinality(inside))
  BY DEF IInv, Shape, Calm
<1>2. rbtree.color[rbtree.root] = "black"
  BY <1>1, SettledFacts
<1>3. PICK g : Heights(rbtree, inside, g, {})
  BY <1>1, SettledFacts
<1> DEFINE a == [x |-> rbtree.root, rbh |-> 0, fini |-> 0, above |-> 0]
<1>4. rbtree.root \in inside /\ g[rbtree.root] \in Nat
  BY <1>3, IInvFacts DEF Heights
<1>5. a \in CheckCalls
  BY <1>4 DEF CheckCalls
<1>6. CheckAnswer(g, a).fini = 0
  BY <1>4 DEF CheckAnswer
<1>7. rbtree_check_subtree[a].fini = 0
  BY <1>3, <1>5, <1>6, CheckIs
<1> QED BY <1>2, <1>7 DEF util_rbtree_check

-----------------------------------------------------------------------------
\* Links lead to nodes, the sentinel or nowhere; until an insertion has climbed
\* past the root no loop of an insert, a delete, a search or a lookup follows a
\* NULL pointer out of the tree.
THEOREM TypeCorrect == Spec => [](~strayed => TypeOK)
<1>1. Kept => (~strayed => TypeOK)
  BY TypeOfIInv DEF Kept
<1> QED BY <1>1, AlwaysKept, PTL

\* Until then, also between two passes of a fixup, the tree holds each node
\* that was inserted and not deleted once, in the order of the keys, with its
\* parent's link; between calls size is their number.
THEOREM TreeHoldsInside == Spec => [](~strayed => HoldsInside)
<1>1. Kept => (~strayed => HoldsInside)
  BY HoldsOfIInv DEF Kept
<1> QED BY <1>1, AlwaysKept, PTL

\* After any calls of which none climbed past the root the tree is a red-black
\* tree: the root's link to a deleted node, by itself, does no harm.
THEOREM StaysRedBlack == Spec => []RedBlack
<1>1. Kept => RedBlack
  BY RedBlackOfIInv DEF Kept, RedBlack
<1> QED BY <1>1, AlwaysKept, PTL

\* util_rbtree_search then finds a node with the key whenever there is one.
THEOREM SearchIsRight == Spec => [](~strayed => SearchFinds)
<1>1. Kept => (~strayed => SearchFinds)
  BY DEF IInv, Progress, SearchFinds, Kept
<1> QED BY <1>1, AlwaysKept, PTL

\* util_rbtree_lookup finds the least key that is not below the one asked for,
\* or goes round to the least of all.
THEOREM LookupIsRight == Spec => [](~strayed => LookupWraps)
<1>1. ASSUME IInv PROVE LookupWraps
  <2> SUFFICES ASSUME pc = "looked_up", node # NULL
               PROVE  LET above == {x \in inside : Key[x] >= key}
                          from  == IF above = {} THEN inside ELSE above
                      IN  node \in from /\ \A x \in from : Key[node] <= Key[x]
    BY <1>1 DEF LookupWraps, IInv, Progress
  <2>1. /\ node \in inside
        /\ \/ key <= Key[node] /\ \A m \in inside : key <= Key[m] => Key[node] <= Key[m]
           \/ \A m \in inside : Key[m] < key /\ Key[node] <= Key[m]
    BY <1>1 DEF IInv, Progress
  <2>2. key \in Int /\ \A m \in inside : Key[m] \in Int
    <3>1. key \in Keys
      BY <1>1 DEF IInv, Progress
    <3> QED BY <1>1, <3>1, IInvFacts
  <2>3. CASE key <= Key[node] /\ \A m \in inside : key <= Key[m] => Key[node] <= Key[m]
    BY <2>1, <2>2, <2>3
  <2>4. CASE \A m \in inside : Key[m] < key /\ Key[node] <= Key[m]
    <3>1. {x \in inside : Key[x] >= key} = {}
      BY <2>2, <2>4
    <3> QED BY <2>1, <2>4, <3>1
  <2> QED BY <2>1, <2>3, <2>4
<1>2. Kept => (~strayed => LookupWraps)
  BY <1>1 DEF Kept
<1> QED BY <1>2, AlwaysKept, PTL

\* util_rbtree_check, with its shortcuts, accepts every tree that such calls make.
THEOREM CheckIsContent == Spec => []CheckAccepts
<1>1. Kept => CheckAccepts
  BY CheckOfIInv DEF Kept, CheckAccepts
<1> QED BY <1>1, AlwaysKept, PTL

\* util_rbtree_mid_travel visits every node once, in the order of the keys.
THEOREM WalkIsRight == Spec => [](~strayed => TravelsInOrder)
<1>1. Kept => (~strayed => TravelsInOrder)
  BY TravelOfIInv DEF Kept
<1> QED BY <1>1, AlwaysKept, PTL

=============================================================================
