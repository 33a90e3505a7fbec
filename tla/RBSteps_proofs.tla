--------------------------- MODULE RBSteps_proofs ---------------------------
(***************************************************************************)
(* That rotations and the cases of both fixups keep a red-black tree of    *)
(* any size what it is, but for the one fault the loop is there to remove, *)
(* which moves up or goes.                                                 *)
(***************************************************************************)
EXTENDS RBSteps, TLAPS

Trees == [root   : Objects, size : Int,
          child  : [Sides -> [Objects -> Objects \cup {NULL}]],
          parent : [Objects -> Objects \cup {NULL}],
          color  : [Objects -> {"red", "black"}]]

\* The nodes S hang together: every child knows its parent and every node but
\* the root is a child.
Linked(t, S) ==
    /\ t \in Trees /\ S \subseteq Nodes /\ t.root \in S \cup {null}
    /\ \A x \in S, d \in Sides : t.child[d][x] \in S \cup {null}
    /\ \A x \in S, d \in Sides :
          t.child[d][x] # null => t.parent[t.child[d][x]] = x /\ t.child[d][x] # t.root
    /\ \A x \in S : t.child["left"][x] = t.child["right"][x] => t.child["left"][x] = null
    /\ \A x \in S : x # t.root => t.parent[x] \in S /\ \E d \in Sides : t.child[d][t.parent[x]] = x

\* y is on side d of x in the order of the keys.
Before(d, y, x) == IF d = "left" THEN Key[y] <= Key[x] ELSE Key[x] <= Key[y]

\* U[x] is what hangs at x: each node once, in order, and all of S at the root.
Under(t, S, U) ==
    /\ U \in [S \cup {null} -> SUBSET S] /\ U[null] = {} /\ U[t.root] = S
    /\ \A x \in S : U[x] = {x} \cup U[t.child["left"][x]] \cup U[t.child["right"][x]]
    /\ \A x \in S, d \in Sides : \A y \in U[t.child[d][x]] :
          y # x /\ Before(d, y, x) /\ y \notin U[t.child[Other(d)][x]]

\* A search tree of the nodes S.
Tree(t, S) == Linked(t, S) /\ \E U : Under(t, S, U)

-----------------------------------------------------------------------------
\* There are two sides.
LEMMA TwoSides ==
    /\ "left" \in Sides /\ "right" \in Sides
    /\ \A d \in Sides : Other(d) \in Sides /\ Other(d) # d /\ Other(Other(d)) = d
    /\ \A d, e \in Sides : e # d => e = Other(d)
BY DEF Sides, Other

\* A child link that is changed.
LEMMA Relinked ==
    ASSUME NEW f \in [Sides -> [Objects -> Objects \cup {NULL}]], NEW d \in Sides, NEW a \in Objects,
           NEW y \in Objects \cup {NULL}
    PROVE  LET g == [f EXCEPT ![d][a] = y]
           IN  /\ g \in [Sides -> [Objects -> Objects \cup {NULL}]]
               /\ \A e \in Sides, b \in Objects : g[e][b] = IF e = d /\ b = a THEN y ELSE f[e][b]
<1> DEFINE g == [f EXCEPT ![d][a] = y]
<1>1. g = [e \in Sides |-> IF e = d THEN [f[d] EXCEPT ![a] = y] ELSE f[e]]
  OBVIOUS
<1> HIDE DEF g
<1>2. ASSUME NEW e \in Sides
      PROVE  /\ g[e] \in [Objects -> Objects \cup {NULL}]
             /\ \A b \in Objects : g[e][b] = IF e = d /\ b = a THEN y ELSE f[e][b]
  <2>1. f[e] \in [Objects -> Objects \cup {NULL}] /\ f[d] \in [Objects -> Objects \cup {NULL}]
    OBVIOUS
  <2>2. g[e] = IF e = d THEN [f[d] EXCEPT ![a] = y] ELSE f[e]
    BY <1>1
  <2> QED BY <2>1, <2>2
<1>3. g \in [Sides -> [Objects -> Objects \cup {NULL}]]
  BY <1>1, <1>2
<1> QED BY <1>2, <1>3 DEF g

\* What a rotation leaves in each field.
LEMMA RotateIs ==
    ASSUME NEW t \in Trees, NEW x \in Nodes, NEW d \in Sides, NEW c \in Nodes, NEW i \in Objects,
           c = t.child[Other(d)][x], i = t.child[d][c], c # x,
           x # t.root => t.parent[x] \in Nodes
    PROVE  LET r == Rotate(t, x, d)
           IN  /\ r \in Trees /\ r.color = t.color /\ r.size = t.size
               /\ r.root = IF x = t.root THEN c ELSE t.root
               /\ \A e \in Sides, a \in Objects :
                     r.child[e][a] =
                        IF a = x /\ e = Other(d) THEN i
                        ELSE IF a = c /\ e = d THEN x
                        ELSE IF x # t.root /\ a = t.parent[x] /\ e = SideOf(t, x) THEN c
                        ELSE t.child[e][a]
               /\ \A a \in Objects :
                     r.parent[a] = IF a = i /\ i # null THEN x
                                   ELSE IF a = x THEN c
                                   ELSE IF a = c THEN t.parent[x] ELSE t.parent[a]
<1> DEFINE p   == t.parent[x]
           s   == SideOf(t, x)
           o   == Other(d)
           pa1 == [t.parent EXCEPT ![c] = p]
           t1  == [t EXCEPT !.parent[c] = p]
           ch2 == IF x = t.root THEN t.child ELSE [t.child EXCEPT ![s][p] = c]
           rt2 == IF x = t.root THEN c ELSE t.root
           t2  == Replace(t1, x, c)
           pa3 == [pa1 EXCEPT ![x] = c]
           ch3 == [[ch2 EXCEPT ![d][c] = x] EXCEPT ![o][x] = i]
           t3  == [t2 EXCEPT !.parent[x] = c, !.child[d][c] = x, !.child[o][x] = i]
           pa4 == IF i = null THEN pa3 ELSE [pa3 EXCEPT ![i] = x]
           r   == Rotate(t, x, d)
<1>0. /\ c \in Objects /\ x \in Objects /\ p \in Objects \cup {NULL} /\ o \in Sides /\ s \in Sides
      /\ t.child \in [Sides -> [Objects -> Objects \cup {NULL}]]
      /\ t.parent \in [Objects -> Objects \cup {NULL}]
      /\ t.color \in [Objects -> {"red", "black"}] /\ t.root \in Objects /\ t.size \in Int
      /\ t = [root |-> t.root, size |-> t.size, child |-> t.child, parent |-> t.parent, color |-> t.color]
  BY TwoSides DEF Trees, Objects, SideOf
<1>1. t1 = [root |-> t.root, size |-> t.size, child |-> t.child, parent |-> pa1, color |-> t.color]
  BY <1>0
<1>2. pa1 \in [Objects -> Objects \cup {NULL}] /\ \A a \in Objects : pa1[a] = IF a = c THEN p ELSE t.parent[a]
  BY <1>0
<1>3. SideOf(t1, x) = s /\ t1.parent[x] = p
  <2>1. t1.parent[x] = p /\ t1.child = t.child
    BY <1>0, <1>1, <1>2
  <2> QED BY <2>1 DEF SideOf
<1>4. t2 = [root |-> rt2, size |-> t.size, child |-> ch2, parent |-> pa1, color |-> t.color]
  <2>1. t1.root = t.root
    BY <1>1
  <2>2. t2 = IF x = t.root THEN [t1 EXCEPT !.root = c] ELSE [t1 EXCEPT !.child[s][p] = c]
    <3> HIDE DEF t1
    <3>1. t2 = IF x = t1.root THEN [t1 EXCEPT !.root = c]
               ELSE [t1 EXCEPT !.child[SideOf(t1, x)][t1.parent[x]] = c]
      BY DEF Replace
    <3> HIDE DEF t2, s, p
    <3> QED BY <1>3, <2>1, <3>1
  <2> HIDE DEF t1, t2, pa1, s
  <2> QED BY <1>1, <2>2
<1>5. ch2 \in [Sides -> [Objects -> Objects \cup {NULL}]]
      /\ \A e \in Sides, a \in Objects :
            ch2[e][a] = IF x # t.root /\ a = p /\ e = s THEN c ELSE t.child[e][a]
  <2>1. CASE x = t.root
    BY <1>0, <2>1
  <2>2. CASE x # t.root
    <3>1. p \in Objects
      BY <2>2 DEF Objects
    <3> HIDE DEF p, s
    <3>2. ch2 = [t.child EXCEPT ![s][p] = c]
      BY <2>2
    <3> HIDE DEF ch2
    <3> QED BY <1>0, <2>2, <3>1, <3>2, Relinked
  <2> QED BY <2>1, <2>2
<1> HIDE DEF ch2
<1>6. ch3 \in [Sides -> [Objects -> Objects \cup {NULL}]]
      /\ \A e \in Sides, a \in Objects :
            ch3[e][a] = IF a = x /\ e = o THEN i ELSE IF a = c /\ e = d THEN x ELSE ch2[e][a]
  <2> DEFINE f == [ch2 EXCEPT ![d][c] = x]
  <2>1. f \in [Sides -> [Objects -> Objects \cup {NULL}]]
        /\ \A e \in Sides, a \in Objects : f[e][a] = IF e = d /\ a = c THEN x ELSE ch2[e][a]
    BY <1>0, <1>5, Relinked
  <2>2. ch3 = [f EXCEPT ![o][x] = i]
    OBVIOUS
  <2> HIDE DEF f, ch3, o
  <2>3. ch3 \in [Sides -> [Objects -> Objects \cup {NULL}]]
        /\ \A e \in Sides, a \in Objects : ch3[e][a] = IF e = o /\ a = x THEN i ELSE f[e][a]
    BY <1>0, <2>1, <2>2, Relinked
  <2> QED BY <2>1, <2>3
<1>7. t3 = [root |-> rt2, size |-> t.size, child |-> ch3, parent |-> pa3, color |-> t.color]
  <2> DEFINE f  == [ch2 EXCEPT ![d][c] = x]
             u1 == [t2 EXCEPT !.parent[x] = c]
             u2 == [u1 EXCEPT !.child[d][c] = x]
  <2>1. t3 = [u2 EXCEPT !.child[o][x] = i] /\ ch3 = [f EXCEPT ![o][x] = i]
    OBVIOUS
  <2> HIDE DEF t2, pa1, rt2, o, t3, ch3
  <2>2. u1 = [root |-> rt2, size |-> t.size, child |-> ch2, parent |-> pa3, color |-> t.color]
    BY <1>4
  <2> HIDE DEF u1, pa3
  <2>3. u2 = [root |-> rt2, size |-> t.size, child |-> f, parent |-> pa3, color |-> t.color]
    BY <2>2
  <2> HIDE DEF u2, f
  <2> QED BY <2>1, <2>3
<1>8. /\ pa3 \in [Objects -> Objects \cup {NULL}]
      /\ \A a \in Objects : pa3[a] = IF a = x THEN c ELSE pa1[a]
  <2> HIDE DEF pa1
  <2> QED BY <1>0, <1>2
<1> HIDE DEF ch3, pa3
<1>9. /\ pa4 \in [Objects -> Objects \cup {NULL}]
      /\ \A a \in Objects : pa4[a] = IF a = i /\ i # null THEN x ELSE pa3[a]
  BY <1>0, <1>8
<1>10. r = [root |-> rt2, size |-> t.size, child |-> ch3, parent |-> pa4, color |-> t.color]
  <2>1. r = IF i = null THEN t3 ELSE [t3 EXCEPT !.parent[i] = x]
    BY DEF Rotate, ch3
  <2> HIDE DEF r, t3, rt2
  <2> QED BY <1>7, <2>1
<1> HIDE DEF pa4, r, t1, t2, t3, pa1
<1>11. r \in Trees
  BY <1>0, <1>6, <1>9, <1>10 DEF Trees
<1>12. r.root = rt2 /\ r.size = t.size /\ r.child = ch3 /\ r.parent = pa4 /\ r.color = t.color
  BY <1>10
<1> HIDE DEF p, s
<1>13. \A e \in Sides, a \in Objects :
          ch3[e][a] = IF a = x /\ e = o THEN i
                      ELSE IF a = c /\ e = d THEN x
                      ELSE IF x # t.root /\ a = p /\ e = s THEN c ELSE t.child[e][a]
  BY <1>5, <1>6
<1>14. \A a \in Objects :
          pa4[a] = IF a = i /\ i # null THEN x ELSE IF a = x THEN c ELSE IF a = c THEN p ELSE t.parent[a]
  BY <1>2, <1>8, <1>9
<1> QED BY <1>11, <1>12, <1>13, <1>14 DEF r, p, s

\* What is linked, for a side and the other one.
LEMMA LinkedFacts ==
    ASSUME NEW t, NEW S, Linked(t, S), NEW x \in S, NEW d \in Sides
    PROVE  /\ t.child[d][x] \in S \cup {null}
           /\ t.child[d][x] # null =>
                 t.parent[t.child[d][x]] = x /\ t.child[d][x] # t.root
           /\ t.child[d][x] = t.child[Other(d)][x] => t.child[d][x] = null
           /\ x # t.root => t.parent[x] \in S /\ SideOf(t, x) \in Sides /\ t.child[SideOf(t, x)][t.parent[x]] = x
           /\ \A e \in Sides, y \in S : y # null /\ t.child[e][y] = x =>
                 x # t.root /\ y = t.parent[x] /\ e = SideOf(t, x)
<1>0. x # null /\ S \subseteq Nodes /\ \A y \in S : y # null
  BY NodesAssumption DEF Linked
<1>1. t.child[d][x] = t.child[Other(d)][x] => t.child[d][x] = null
  BY DEF Linked, Other, Sides
<1>2. x # t.root => t.parent[x] \in S /\ SideOf(t, x) \in Sides /\ t.child[SideOf(t, x)][t.parent[x]] = x
  BY TwoSides DEF Linked, SideOf, Sides
<1>3. ASSUME NEW e \in Sides, NEW y \in S, t.child[e][y] = x
      PROVE  x # t.root /\ y = t.parent[x] /\ e = SideOf(t, x)
  <2>1. x # t.root /\ y = t.parent[x]
    BY <1>0, <1>3 DEF Linked
  <2>2. t.child[SideOf(t, x)][y] = x /\ SideOf(t, x) \in Sides
    BY <1>2, <2>1
  <2>3. e = SideOf(t, x)
    BY <1>0, <1>3, <2>2 DEF Linked, Sides
  <2> QED BY <2>1, <2>3
<1> QED BY <1>1, <1>2, <1>3 DEF Linked

\* What hangs where, for a side and the other one.
LEMMA UnderFacts ==
    ASSUME NEW t, NEW S, NEW U, Linked(t, S), Under(t, S, U), NEW x \in S, NEW d \in Sides
    PROVE  /\ U[x] = {x} \cup U[t.child[d][x]] \cup U[t.child[Other(d)][x]]
           /\ x \in U[x] /\ U[x] \subseteq S
           /\ \A y \in U[t.child[d][x]] :
                 y # x /\ Before(d, y, x) /\ y \notin U[t.child[Other(d)][x]] /\ y \in S
<1>1. t.child[d][x] \in S \cup {null}
  BY DEF Linked
<1>2. U[x] = {x} \cup U[t.child[d][x]] \cup U[t.child[Other(d)][x]]
  BY DEF Under, Sides, Other
<1> QED BY <1>1, <1>2 DEF Under

\* The places of the nodes a rotation moves.
LEMMA RotateAround ==
    ASSUME NEW t, NEW S, NEW U, Linked(t, S), Under(t, S, U), NEW x \in S, NEW d \in Sides,
           NEW c, c = t.child[Other(d)][x], c # null
    PROVE  /\ c \in S /\ c # x /\ t.child[d][c] \in S \cup {null} /\ t.child[d][x] \in S \cup {null}
           /\ t.child[d][c] # x /\ t.child[d][c] # c /\ t.child[Other(d)][c] # x
           /\ x # t.root => t.parent[x] # c /\ t.parent[x] # x
<1>1. c \in S /\ t.child[d][x] \in S \cup {null} /\ t.child[d][c] \in S \cup {null}
      /\ t.child[Other(d)][c] \in S \cup {null}
  BY TwoSides, LinkedFacts
<1>2. c \in U[c] /\ x \notin U[c] /\ c # x
  BY <1>1, TwoSides, UnderFacts
<1>3. U[t.child[d][c]] \subseteq U[c] /\ U[t.child[Other(d)][c]] \subseteq U[c]
  BY <1>1, UnderFacts
<1>4. t.child[d][c] # x /\ t.child[Other(d)][c] # x
  BY <1>2, <1>3, UnderFacts
<1>5. t.child[d][c] # c
  <2>1. c \notin U[t.child[d][c]]
    BY <1>1, UnderFacts
  <2> QED BY <2>1, <1>2
<1>6. x # t.root => t.parent[x] # c /\ t.parent[x] # x
  <2> SUFFICES ASSUME x # t.root PROVE t.parent[x] # c /\ t.parent[x] # x
    OBVIOUS
  <2>1. \E e \in Sides : t.parent[x] \in S /\ t.child[e][t.parent[x]] = x
    BY LinkedFacts
  <2>2. PICK e \in Sides : t.parent[x] \in S /\ t.child[e][t.parent[x]] = x
    BY <2>1
  <2>3. x \in U[x]
    BY UnderFacts
  <2>4. t.parent[x] # x
    BY <2>2, <2>3, UnderFacts
  <2>5. e = d \/ e = Other(d)
    BY TwoSides
  <2>6. t.parent[x] # c
    BY <2>2, <2>5, <1>4
  <2> QED BY <2>4, <2>6
<1> QED BY <1>1, <1>2, <1>4, <1>5, <1>6

\* A rotation keeps the links.
LEMMA RotateLinked ==
    ASSUME NEW t, NEW S, NEW U, Linked(t, S), Under(t, S, U), NEW x \in S, NEW d \in Sides,
           t.child[Other(d)][x] # null
    PROVE  Linked(Rotate(t, x, d), S)
<1> DEFINE r == Rotate(t, x, d)
           o == Other(d)
           c == t.child[o][x]
           i == t.child[d][c]
           p == t.parent[x]
           s == SideOf(t, x)
<1>0. /\ t \in Trees /\ S \subseteq Nodes /\ t.root \in S \cup {null} /\ null \notin S
      /\ o \in Sides /\ o # d
  BY NodesAssumption, TwoSides DEF Linked
<1>1. /\ c \in S /\ c # x /\ i \in S \cup {null} /\ t.child[d][x] \in S \cup {null} /\ i # x /\ i # c
      /\ t.child[o][c] # x
      /\ x # t.root => p # c /\ p # x
  BY RotateAround
<1>2. x # t.root => p \in S /\ s \in Sides /\ t.child[s][p] = x
  BY LinkedFacts
<1>3. /\ r \in Trees
      /\ r.root = IF x = t.root THEN c ELSE t.root
      /\ \A e \in Sides, a \in Objects :
            r.child[e][a] = IF a = x /\ e = o THEN i
                            ELSE IF a = c /\ e = d THEN x
                            ELSE IF x # t.root /\ a = p /\ e = s THEN c ELSE t.child[e][a]
      /\ \A a \in Objects :
            r.parent[a] = IF a = i /\ i # null THEN x
                          ELSE IF a = x THEN c ELSE IF a = c THEN p ELSE t.parent[a]
  <2>1. x \in Nodes /\ c \in Nodes /\ i \in Objects
    BY <1>0, <1>1 DEF Objects
  <2>2. x # t.root => p \in Nodes
    BY <1>0, <1>2
  <2> QED BY <2>1, <2>2, <1>0, <1>1, RotateIs
<1>4. S \subseteq Objects
  BY <1>0 DEF Objects
<1> HIDE DEF r, o, i, p, s, c
<1>5. \A z \in S, e \in Sides : r.child[e][z] \in S \cup {null}
  <2>1. \A z \in S, e \in Sides : t.child[e][z] \in S \cup {null}
    BY LinkedFacts
  <2> QED BY <2>1, <1>1, <1>3, <1>4
<1>9. /\ t.child[o][x] = c /\ t.child[d][c] = i /\ p = t.parent[x]
      /\ t.parent[c] = x /\ c # t.root /\ (i # null => t.parent[i] = c /\ i # t.root)
      /\ c # i /\ c # null
  BY <1>0, <1>1, LinkedFacts DEF o, c, i, p
<1>10. /\ r.child[o][x] = i /\ r.child[d][c] = x /\ (x # t.root => r.child[s][p] = c)
       /\ r.parent[x] = c /\ r.parent[c] = p /\ (i # null => r.parent[i] = x)
  BY <1>0, <1>1, <1>2, <1>3, <1>4, <1>9
<1>11. ASSUME NEW z \in S, NEW e \in Sides, ~(z = x /\ e = o), ~(z = c /\ e = d),
              ~(x # t.root /\ z = p /\ e = s)
       PROVE  /\ r.child[e][z] = t.child[e][z]
              /\ t.child[e][z] # x /\ t.child[e][z] # c /\ (i # null => t.child[e][z] # i)
              /\ t.child[e][z] # null => r.parent[t.child[e][z]] = z /\ t.child[e][z] # t.root
  <2>1. r.child[e][z] = t.child[e][z]
    BY <1>3, <1>4, <1>11
  <2>2. t.child[e][z] # x
    BY <1>0, <1>11, LinkedFacts DEF p, s
  <2>3. t.child[e][z] # c
    <3> SUFFICES ASSUME t.child[e][z] = c PROVE FALSE
      OBVIOUS
    <3>1. z = t.parent[c] /\ e = SideOf(t, c) /\ x = t.parent[c] /\ o = SideOf(t, c)
      <4>1. c \in S /\ z # null /\ x # null /\ t.child[o][x] = c
        BY <1>0, <1>1, <1>9
      <4> QED BY <4>1, <1>0, LinkedFacts
    <3> QED BY <3>1, <1>11
  <2>4. i # null => t.child[e][z] # i
    <3> SUFFICES ASSUME i # null, t.child[e][z] = i PROVE FALSE
      OBVIOUS
    <3>1. z = t.parent[i] /\ e = SideOf(t, i) /\ c = t.parent[i] /\ d = SideOf(t, i)
      <4>1. i \in S /\ z # null /\ c # null /\ t.child[d][c] = i
        BY <1>0, <1>1, <1>9
      <4> QED BY <4>1, <1>1, LinkedFacts
    <3> QED BY <3>1, <1>11
  <2>5. t.child[e][z] \in S \cup {null}
        /\ (t.child[e][z] # null => t.parent[t.child[e][z]] = z /\ t.child[e][z] # t.root)
    BY LinkedFacts
  <2>6. t.child[e][z] # null => r.parent[t.child[e][z]] = z
    BY <2>2, <2>3, <2>4, <2>5, <1>3, <1>4
  <2> QED BY <2>1, <2>2, <2>3, <2>4, <2>5, <2>6
<1>6. ASSUME NEW z \in S, NEW e \in Sides, r.child[e][z] # null
      PROVE  r.parent[r.child[e][z]] = z /\ r.child[e][z] # r.root
  <2>1. CASE z = x /\ e = o
    BY <2>1, <1>3, <1>6, <1>9, <1>10
  <2>2. CASE z = c /\ e = d
    BY <2>2, <1>1, <1>3, <1>9, <1>10
  <2>3. CASE x # t.root /\ z = p /\ e = s
    BY <2>3, <1>3, <1>9, <1>10
  <2>4. CASE ~(z = x /\ e = o) /\ ~(z = c /\ e = d) /\ ~(x # t.root /\ z = p /\ e = s)
    BY <2>4, <1>3, <1>6, <1>11
  <2> QED BY <2>1, <2>2, <2>3, <2>4
<1>7. ASSUME NEW z \in S, r.child["left"][z] = r.child["right"][z] PROVE r.child["left"][z] = null
  <2> SUFFICES ASSUME r.child["left"][z] # null PROVE FALSE
    OBVIOUS
  <2> DEFINE y == r.child["left"][z]
  <2>0. \A e \in Sides : r.child[e][z] = y /\ y # null
    BY <1>7 DEF Sides
  <2> HIDE DEF y
  <2>1. CASE z = x
    <3>1. r.child[d][x] = t.child[d][x]
      BY <1>0, <1>1, <1>3, <1>4
    <3>2. y = i /\ y = t.child[d][x]
      BY <2>0, <2>1, <3>1, <1>0, <1>10
    <3>3. t.parent[y] = x
      BY <3>2, <2>0, LinkedFacts
    <3> QED BY <3>2, <3>3, <2>0, <1>1, <1>9
  <2>2. CASE z = c
    <3>1. r.child[o][c] = t.child[o][c]
      <4>1. ~(x # t.root /\ c = p /\ o = s)
        BY <1>1
      <4> QED BY <4>1, <1>0, <1>1, <1>3, <1>4
    <3> QED BY <3>1, <2>0, <2>2, <1>0, <1>1, <1>10
  <2>3. CASE x # t.root /\ z = p /\ z # x /\ z # c
    <3>1. Other(s) \in Sides /\ Other(s) # s
      BY <2>3, <1>2, TwoSides
    <3>2. r.child[Other(s)][p] = t.child[Other(s)][p] /\ t.child[Other(s)][p] # c
      BY <3>1, <2>3, <1>11
    <3> QED BY <3>1, <3>2, <2>0, <2>3, <1>2, <1>10
  <2>4. CASE ~(x # t.root /\ z = p) /\ z # x /\ z # c
    <3>1. \A e \in Sides : r.child[e][z] = t.child[e][z]
      BY <2>4, <1>11
    <3>2. t.child[d][z] = t.child[Other(d)][z] /\ t.child[d][z] # null
      BY <2>0, <3>1, <1>0 DEF o
    <3> QED BY <3>2, LinkedFacts
  <2> QED BY <2>1, <2>2, <2>3, <2>4
<1>8. ASSUME NEW z \in S, z # r.root PROVE r.parent[z] \in S /\ \E e \in Sides : r.child[e][r.parent[z]] = z
  <2>0. z # null
    BY <1>0
  <2>1. CASE z = i
    BY <2>0, <2>1, <1>0, <1>10
  <2>2. CASE z = x
    BY <2>2, <1>1, <1>10
  <2>3. CASE z = c
    BY <2>3, <1>2, <1>3, <1>8, <1>10
  <2>4. CASE z # i /\ z # x /\ z # c
    <3>1. z # t.root
      BY <2>4, <1>3, <1>8
    <3> DEFINE q == t.parent[z]
               e == SideOf(t, z)
    <3>2. q \in S /\ e \in Sides /\ t.child[e][q] = z
      BY <3>1, LinkedFacts
    <3>3. r.parent[z] = q
      BY <2>4, <1>3, <1>4
    <3> HIDE DEF q, e
    <3>4. r.child[e][q] = z
      BY <3>2, <2>4, <1>2, <1>3, <1>4, <1>9
    <3> QED BY <3>2, <3>3, <3>4
  <2> QED BY <2>1, <2>2, <2>3, <2>4
<1>12. r.root \in S \cup {null}
  BY <1>0, <1>1, <1>3
<1> QED BY <1>0, <1>3, <1>5, <1>6, <1>7, <1>8, <1>12 DEF Linked, r

\* Other(d) is the other direction, and the order is transitive.
LEMMA BeforeFacts ==
    ASSUME NEW d \in Sides, NEW x \in Nodes, NEW y \in Nodes, NEW z \in Nodes
    PROVE  /\ Before(Other(d), y, x) <=> Before(d, x, y)
           /\ Before(d, y, x) /\ Before(d, x, z) => Before(d, y, z)
<1>1. Key[x] \in Int /\ Key[y] \in Int /\ Key[z] \in Int
  BY NodesAssumption
<1>2. CASE d = "left"
  BY <1>1, <1>2 DEF Before, Other
<1>3. CASE d = "right"
  BY <1>1, <1>3 DEF Before, Other
<1> QED BY <1>2, <1>3 DEF Sides

\* What is below a node on each side after a rotation: as much as before.
LEMMA RotateUnder ==
    ASSUME NEW t, NEW S, NEW U, Linked(t, S), Under(t, S, U), NEW x \in S, NEW d \in Sides,
           t.child[Other(d)][x] # null
    PROVE  \E V : Under(Rotate(t, x, d), S, V)
<1> DEFINE r == Rotate(t, x, d)
           o == Other(d)
           c == t.child[o][x]
           i == t.child[d][c]
           a == t.child[d][x]
           b == t.child[o][c]
           p == t.parent[x]
           s == SideOf(t, x)
           V == [U EXCEPT ![x] = {x} \cup U[a] \cup U[i], ![c] = U[x]]
<1>0. /\ t \in Trees /\ S \subseteq Nodes /\ t.root \in S \cup {null} /\ null \notin S
      /\ o \in Sides /\ o # d /\ Other(o) = d
  BY NodesAssumption, TwoSides DEF Linked
<1>1. /\ c \in S /\ c # x /\ i \in S \cup {null} /\ a \in S \cup {null} /\ i # x /\ i # c /\ b # x
      /\ x # t.root => p # c /\ p # x
  BY RotateAround
<1>2. x # t.root => p \in S /\ s \in Sides /\ t.child[s][p] = x
  BY LinkedFacts
<1>3. b \in S \cup {null} /\ c # t.root
  BY <1>0, <1>1, LinkedFacts
<1>4. /\ r.root = IF x = t.root THEN c ELSE t.root
      /\ \A e \in Sides, z \in S :
            r.child[e][z] = IF z = x /\ e = o THEN i
                            ELSE IF z = c /\ e = d THEN x
                            ELSE IF x # t.root /\ z = p /\ e = s THEN c ELSE t.child[e][z]
  <2>1. x \in Nodes /\ c \in Nodes /\ i \in Objects /\ S \subseteq Objects
    BY <1>0, <1>1 DEF Objects
  <2>2. x # t.root => p \in Nodes
    BY <1>0, <1>2
  <2> QED BY <2>1, <2>2, <1>0, <1>1, RotateIs
<1> HIDE DEF r
\* What U says of x and of c
<1>5. /\ U[x] = {x} \cup U[a] \cup U[c] /\ U[c] = {c} \cup U[i] \cup U[b]
      /\ U[a] \subseteq S /\ U[i] \subseteq S /\ U[b] \subseteq S /\ U[c] \subseteq S /\ U[x] \subseteq S
  <2>1. U[x] = {x} \cup U[a] \cup U[c]
    BY UnderFacts
  <2>2. U[c] = {c} \cup U[i] \cup U[b]
    BY <1>1, UnderFacts
  <2>3. U[a] \subseteq S /\ U[i] \subseteq S /\ U[b] \subseteq S /\ U[c] \subseteq S /\ U[x] \subseteq S
    BY <1>1, <1>3 DEF Under
  <2> QED BY <2>1, <2>2, <2>3
<1>6. /\ \A y \in U[a] : y # x /\ Before(d, y, x) /\ y \notin U[c]
      /\ \A y \in U[c] : y # x /\ Before(o, y, x) /\ y \notin U[a]
      /\ \A y \in U[i] : y # c /\ Before(d, y, c) /\ y \notin U[b]
      /\ \A y \in U[b] : y # c /\ Before(o, y, c) /\ y \notin U[i]
  <2>1. \A y \in U[a] : y # x /\ Before(d, y, x) /\ y \notin U[c]
    BY UnderFacts
  <2>2. \A y \in U[c] : y # x /\ Before(o, y, x) /\ y \notin U[a]
    BY <1>0, UnderFacts
  <2>3. \A y \in U[i] : y # c /\ Before(d, y, c) /\ y \notin U[b]
    BY <1>1, UnderFacts
  <2>4. \A y \in U[b] : y # c /\ Before(o, y, c) /\ y \notin U[i]
    BY <1>0, <1>1, UnderFacts
  <2> QED BY <2>1, <2>2, <2>3, <2>4
<1>7. a # x /\ a # c /\ b # c
  <2>1. a # c
    BY <1>0, <1>1, LinkedFacts, SMTT(20)
  <2>2. x \in U[x] /\ c \in U[c]
    BY <1>5
  <2> QED BY <2>1, <2>2, <1>6
<1> HIDE DEF o, c, i, a, b
<1>8. /\ V \in [S \cup {null} -> SUBSET S] /\ V[x] = {x} \cup U[a] \cup U[i] /\ V[c] = U[x]
      /\ \A z \in S \cup {null} : z # x /\ z # c => V[z] = U[z]
  <2>1. U \in [S \cup {null} -> SUBSET S]
    BY DEF Under
  <2> QED BY <2>1, <1>1, <1>5
<1> HIDE DEF V
<1>9. V[null] = {} /\ V[r.root] = S
  <2>1. U[null] = {} /\ U[t.root] = S
    BY DEF Under
  <2> QED BY <2>1, <1>0, <1>1, <1>3, <1>4, <1>8
\* x below c
<1>10. /\ r.child[d][x] = a /\ r.child[o][x] = i /\ r.child[d][c] = x /\ r.child[o][c] = b
  BY <1>0, <1>1, <1>4 DEF a, b
<1>11. V[a] = U[a] /\ V[i] = U[i] /\ V[b] = U[b]
  BY <1>1, <1>3, <1>7, <1>8
<1>12. V[x] = {x} \cup V[a] \cup V[i] /\ V[c] = {c} \cup V[x] \cup V[b]
  BY <1>5, <1>8, <1>11
<1>13. /\ \A y \in V[a] : y # x /\ Before(d, y, x) /\ y \notin V[i]
       /\ \A y \in V[i] : y # x /\ Before(o, y, x) /\ y \notin V[a]
  BY <1>5, <1>6, <1>11
<1>14. \A y \in V[b] : y # c /\ Before(o, y, c) /\ y \notin V[x]
  BY <1>5, <1>6, <1>8, <1>11
<1>15. ASSUME NEW y \in V[x] PROVE y # c /\ Before(d, y, c) /\ y \notin V[b]
  <2>1. y # c /\ y \notin V[b]
    BY <1>1, <1>5, <1>6, <1>8, <1>11
  <2>2. y \in S /\ y \in Nodes /\ x \in Nodes /\ c \in Nodes
    BY <1>0, <1>1, <1>5, <1>8
  <2>3. Before(d, x, c)
    <3>1. Before(o, c, x)
      BY <1>5, <1>6
    <3> QED BY <3>1, <2>2, BeforeFacts DEF o
  <2>4. CASE y = x
    BY <2>1, <2>3, <2>4
  <2>5. CASE y \in U[a]
    BY <2>1, <2>2, <2>3, <2>5, <1>6, BeforeFacts
  <2>6. CASE y \in U[i]
    BY <2>1, <2>6, <1>6
  <2> QED BY <2>4, <2>5, <2>6, <1>8
\* Every other node has the same below it.
<1>16. ASSUME NEW z \in S, z # x, z # c, NEW e \in Sides
       PROVE  V[r.child[e][z]] = U[t.child[e][z]] /\ V[z] = U[z]
  <2>1. V[z] = U[z]
    BY <1>8, <1>16
  <2>2. CASE x # t.root /\ z = p /\ e = s
    <3>1. r.child[e][z] = c /\ t.child[e][z] = x
      BY <2>2, <1>1, <1>2, <1>4, <1>16
    <3> QED BY <2>1, <3>1, <1>8
  <2>3. CASE ~(x # t.root /\ z = p /\ e = s)
    <3>1. r.child[e][z] = t.child[e][z]
      BY <2>3, <1>4, <1>16
    <3>2. t.child[e][z] # x
      BY <2>3, <1>0, LinkedFacts
    <3>3. t.child[e][z] # c
      <4> SUFFICES ASSUME t.child[e][z] = c PROVE FALSE
        OBVIOUS
      <4>1. t.child[o][x] = c /\ z # null /\ x # null
        BY <1>0 DEF c
      <4>2. z = t.parent[c] /\ x = t.parent[c]
        BY <4>1, <1>0, <1>1, LinkedFacts
      <4> QED BY <4>2, <1>16
    <3>4. t.child[e][z] \in S \cup {null}
      BY LinkedFacts
    <3> QED BY <2>1, <3>1, <3>2, <3>3, <3>4, <1>8
  <2> QED BY <2>2, <2>3
<1>17. ASSUME NEW z \in S
       PROVE  /\ V[z] = {z} \cup V[r.child["left"][z]] \cup V[r.child["right"][z]]
              /\ \A e \in Sides : \A y \in V[r.child[e][z]] :
                    y # z /\ Before(e, y, z) /\ y \notin V[r.child[Other(e)][z]]
  <2>0. /\ \A e \in Sides : e = d \/ e = o
        /\ "left" \in Sides /\ "right" \in Sides
        /\ Other(d) = o /\ Other(o) = d /\ (d = "left" \/ d = "right")
        /\ d = "left" => o = "right"
        /\ d = "right" => o = "left"
    BY <1>0, TwoSides DEF o, Sides, Other
  <2>1. CASE z = x
    BY <2>0, <2>1, <1>10, <1>12, <1>13
  <2>2. CASE z = c
    BY <2>0, <2>2, <1>10, <1>12, <1>14, <1>15
  <2>3. CASE z # x /\ z # c
    <3>1. /\ U[z] = {z} \cup U[t.child["left"][z]] \cup U[t.child["right"][z]]
          /\ \A e \in Sides : \A y \in U[t.child[e][z]] :
                y # z /\ Before(e, y, z) /\ y \notin U[t.child[Other(e)][z]]
      BY DEF Under
    <3>2. \A e \in Sides : V[r.child[e][z]] = U[t.child[e][z]] /\ V[z] = U[z]
      BY <2>3, <1>16
    <3> QED BY <2>0, <3>1, <3>2, TwoSides
  <2> QED BY <2>1, <2>2, <2>3
<1>18. Under(r, S, V)
  BY <1>8, <1>9, <1>17 DEF Under
<1> QED BY <1>18 DEF r

\* rbtree_left_rotate and rbtree_right_rotate keep a search tree a search tree
\* of the same nodes, with the same colours and the same size.
THEOREM RotateKeepsTree ==
    ASSUME NEW t, NEW S, Tree(t, S), NEW x \in S, NEW d \in Sides, t.child[Other(d)][x] # null
    PROVE  /\ Tree(Rotate(t, x, d), S)
           /\ Rotate(t, x, d).color = t.color /\ Rotate(t, x, d).size = t.size
<1>1. PICK U : Linked(t, S) /\ Under(t, S, U)
  BY DEF Tree
<1>2. Tree(Rotate(t, x, d), S)
  BY <1>1, RotateLinked, RotateUnder DEF Tree
<1> DEFINE c == t.child[Other(d)][x]
           i == t.child[d][c]
<1>3. c \in S /\ i \in S \cup {null} /\ c # x /\ (x # t.root => t.parent[x] \in S) /\ S \subseteq Nodes
      /\ t \in Trees
  BY <1>1, RotateAround, LinkedFacts DEF Linked
<1>4. x \in Nodes /\ c \in Nodes /\ i \in Objects /\ (x # t.root => t.parent[x] \in Nodes)
  BY <1>3 DEF Objects
<1>5. Rotate(t, x, d).color = t.color /\ Rotate(t, x, d).size = t.size
  BY <1>3, <1>4, RotateIs
<1> QED BY <1>2, <1>5


-----------------------------------------------------------------------------
\* What colours a node adds to the ways through it.
Black(t, x) == IF t.color[x] = "black" THEN 1 ELSE 0

\* One black node is missing on side d of x, if that place is in Short.
Place(x, d)       == {<<x, d>>}
Lack(Short, x, d) == IF <<x, d>> \in Short THEN 1 ELSE 0

\* h[x] black nodes on every way down from x, or one less where Short says so.
Heights(t, S, h, Short) ==
    /\ h \in [S \cup {null} -> Nat] /\ h[null] = 0
    /\ \A x \in S, d \in Sides : h[x] = Black(t, x) + h[t.child[d][x]] + Lack(Short, x, d)

\* No red node has a red child, but perhaps one of Q.
Reds(t, S, Q) ==
    \A x \in S, d \in Sides :
        t.color[x] = "red" /\ t.color[t.child[d][x]] = "red" => t.child[d][x] \in Q

\* A search tree of S, of size sz. Where the root's own link leads is left open:
\* to the sentinel, or to a node that was the root and was deleted.
Standing(t, S, sz) ==
    /\ Tree(t, S)
    /\ t.root \in S /\ t.color[null] = "black"
    /\ t.parent[t.root] \in Objects
    /\ t.size = sz

\* A red-black tree of the nodes S.
RedBlackTree(t, S, sz) ==
    /\ Standing(t, S, sz) /\ t.color[t.root] = "black"
    /\ Reds(t, S, {}) /\ \E h : Heights(t, S, h, {})

\* What rbtree_insert_fixup has at the head of its loop: x is red, and may be
\* the root or hang below a red node.
InsertLoop(t, S, sz, x) ==
    /\ Standing(t, S, sz) /\ x \in S /\ t.color[x] = "red"
    /\ t.color[t.root] = "red" => x = t.root
    /\ Reds(t, S, {x}) /\ \E h : Heights(t, S, h, {})

\* What rbtree_delete_fixup has at the head of its loop: the ways through x, a
\* node or the sentinel, have one black node less than the others, and x may be
\* red where a neighbour is.
ShortAt(t, x) == IF x = t.root THEN {} ELSE Place(t.parent[x], SideOf(t, x))

DeleteLoop(t, S, sz, x) ==
    /\ Standing(t, S, sz) /\ t.color[t.root] = "black" /\ x \in S \cup {null}
    /\ x # t.root => t.parent[x] \in S /\ t.child[SideOf(t, x)][t.parent[x]] = x
    /\ \A z \in S, d \in Sides :
          t.color[z] = "red" /\ t.color[t.child[d][z]] = "red" => x \in {z, t.child[d][z]}
    /\ \E h : Heights(t, S, h, ShortAt(t, x))

-----------------------------------------------------------------------------
\* util_rbt_red and util_rbt_black
Paint(t, a, k) == [t EXCEPT !.color[a] = k]

\* What painting a node leaves in each field.
LEMMA PaintIs ==
    ASSUME NEW t \in Trees, NEW a \in Objects, NEW k \in {"red", "black"}
    PROVE  LET u == Paint(t, a, k)
           IN  /\ u \in Trees /\ u.root = t.root /\ u.size = t.size
               /\ u.child = t.child /\ u.parent = t.parent
               /\ \A z \in Objects : u.color[z] = IF z = a THEN k ELSE t.color[z]
<1> DEFINE u == Paint(t, a, k)
           f == [t.color EXCEPT ![a] = k]
<1>1. /\ t.color \in [Objects -> {"red", "black"}]
      /\ t = [root |-> t.root, size |-> t.size, child |-> t.child, parent |-> t.parent, color |-> t.color]
      /\ t.root \in Objects /\ t.size \in Int
      /\ t.child \in [Sides -> [Objects -> Objects \cup {NULL}]]
      /\ t.parent \in [Objects -> Objects \cup {NULL}]
  BY DEF Trees
<1>2. f \in [Objects -> {"red", "black"}] /\ \A z \in Objects : f[z] = IF z = a THEN k ELSE t.color[z]
  BY <1>1
<1>3. u = [root |-> t.root, size |-> t.size, child |-> t.child, parent |-> t.parent, color |-> f]
  BY <1>1 DEF Paint
<1> HIDE DEF u, f
<1> QED BY <1>1, <1>2, <1>3 DEF Trees, u

\* Colours do not matter to a search tree.
LEMMA TreeOfLinks ==
    ASSUME NEW t, NEW u \in Trees, NEW S, u.root = t.root, u.child = t.child, u.parent = t.parent
    PROVE  /\ Linked(t, S) => Linked(u, S)
           /\ \A U : Under(t, S, U) => Under(u, S, U)
           /\ Tree(t, S) => Tree(u, S)
           /\ \A x : SideOf(u, x) = SideOf(t, x)
<1>1. Linked(t, S) => Linked(u, S)
  BY DEF Linked
<1>2. \A U : Under(t, S, U) => Under(u, S, U)
  BY DEF Under
<1>3. Tree(t, S) => Tree(u, S)
  BY <1>1, <1>2 DEF Tree
<1> QED BY <1>1, <1>2, <1>3 DEF SideOf

\* How the nodes stand in r when x is rotated below its child c: the children of
\* both, and every other node.
Turns(t, r, S, x, d, c) ==
    /\ r \in Trees /\ Tree(r, S) /\ r.color = t.color /\ r.size = t.size
    /\ r.root = IF x = t.root THEN c ELSE t.root
    /\ c \in S /\ c # x /\ c # t.root
    /\ {t.child[d][x], t.child[d][c], t.child[Other(d)][c]} \subseteq (S \cup {null}) \ {x, c}
    /\ r.child[d][x] = t.child[d][x] /\ r.child[Other(d)][x] = t.child[d][c]
    /\ r.child[d][c] = x /\ r.child[Other(d)][c] = t.child[Other(d)][c]
    /\ r.parent[x] = c /\ r.parent[c] = t.parent[x]
    /\ \A z \in Objects : z # x /\ z # c /\ (z = null \/ z # t.child[d][c]) =>
                          r.parent[z] = t.parent[z]
    /\ \A z \in S \ {x, c}, e \in Sides :
          \/ t.child[e][z] = x /\ r.child[e][z] = c
          \/ t.child[e][z] \notin {x, c} /\ r.child[e][z] = t.child[e][z]

\* A rotation does that.
LEMMA RotateShape ==
    ASSUME NEW t, NEW S, Tree(t, S), NEW x \in S, NEW d \in Sides, t.child[Other(d)][x] # null
    PROVE  Turns(t, Rotate(t, x, d), S, x, d, t.child[Other(d)][x])
<1> DEFINE r == Rotate(t, x, d)
           o == Other(d)
           c == t.child[o][x]
           i == t.child[d][c]
           a == t.child[d][x]
           b == t.child[o][c]
           p == t.parent[x]
           s == SideOf(t, x)
<1>0. PICK U : Linked(t, S) /\ Under(t, S, U)
  BY DEF Tree
<1>1. /\ t \in Trees /\ S \subseteq Nodes /\ t.root \in S \cup {null} /\ null \notin S
      /\ o \in Sides /\ o # d /\ Other(o) = d /\ S \subseteq Objects
  BY <1>0, NodesAssumption, TwoSides DEF Linked, Objects
<1>2. /\ c \in S /\ c # x /\ i \in S \cup {null} /\ a \in S \cup {null} /\ i # x /\ i # c /\ b # x
      /\ x # t.root => p # c /\ p # x
  BY <1>0, RotateAround
<1>3. x # t.root => p \in S /\ s \in Sides /\ t.child[s][p] = x
  BY <1>0, LinkedFacts
<1>4. b \in S \cup {null} /\ c # t.root
  BY <1>0, <1>1, <1>2, LinkedFacts
<1>5. /\ r \in Trees /\ r.root = IF x = t.root THEN c ELSE t.root
      /\ r.color = t.color /\ r.size = t.size
      /\ \A e \in Sides, z \in S :
            r.child[e][z] = IF z = x /\ e = o THEN i
                            ELSE IF z = c /\ e = d THEN x
                            ELSE IF x # t.root /\ z = p /\ e = s THEN c ELSE t.child[e][z]
      /\ \A z \in Objects :
            r.parent[z] = IF z = i /\ i # null THEN x
                          ELSE IF z = x THEN c ELSE IF z = c THEN p ELSE t.parent[z]
  <2>1. x \in Nodes /\ c \in Nodes /\ i \in Objects
    BY <1>1, <1>2 DEF Objects
  <2>2. x # t.root => p \in Nodes
    BY <1>1, <1>3
  <2> QED BY <2>1, <2>2, <1>1, <1>2, RotateIs
<1>6. Tree(r, S)
  BY RotateKeepsTree
<1> HIDE DEF r
<1>7. a # x /\ a # c /\ b # c
  <2>1. a # c
    BY <1>0, <1>1, <1>2, LinkedFacts
  <2>2. a # x
    <3>1. x \in U[x] /\ \A y \in U[a] : y # x
      BY <1>0, UnderFacts
    <3> QED BY <3>1
  <2>3. b # c
    <3>1. c \in U[c] /\ \A y \in U[b] : y # c
      BY <1>0, <1>1, <1>2, UnderFacts
    <3> QED BY <3>1
  <2> QED BY <2>1, <2>2, <2>3
<1>8. r.child[d][x] = a /\ r.child[o][x] = i /\ r.child[d][c] = x /\ r.child[o][c] = b
  BY <1>1, <1>2, <1>5
<1>9. r.parent[x] = c /\ r.parent[c] = p
  BY <1>1, <1>2, <1>5
<1>10. ASSUME NEW z \in S \ {x, c}, NEW e \in Sides
       PROVE  \/ t.child[e][z] = x /\ r.child[e][z] = c
              \/ t.child[e][z] \notin {x, c} /\ r.child[e][z] = t.child[e][z]
  <2>1. CASE x # t.root /\ z = p /\ e = s
    BY <2>1, <1>2, <1>3, <1>5
  <2>2. CASE ~(x # t.root /\ z = p /\ e = s)
    <3>1. r.child[e][z] = t.child[e][z]
      BY <2>2, <1>5
    <3>2. t.child[e][z] # x
      BY <2>2, <1>0, <1>1, LinkedFacts
    <3>3. t.child[e][z] # c
      <4> SUFFICES ASSUME t.child[e][z] = c PROVE FALSE
        OBVIOUS
      <4>1. z = t.parent[c] /\ x = t.parent[c]
        <5>1. t.child[o][x] = c /\ z # null /\ x # null /\ z \in S
          BY <1>1
        <5> HIDE DEF c
        <5> QED BY <5>1, <1>0, <1>1, <1>2, LinkedFacts
      <4> QED BY <4>1
    <3> QED BY <3>1, <3>2, <3>3
  <2> QED BY <2>1, <2>2
<1>11. \A z \in Objects : z # x /\ z # c /\ (z = null \/ z # i) => r.parent[z] = t.parent[z]
  BY <1>5
<1>12. {a, b, i} \subseteq (S \cup {null}) \ {x, c}
  BY <1>1, <1>2, <1>4, <1>7
<1> HIDE DEF c, p, s
<1>13. Turns(t, r, S, x, d, c)
  <2>1. {a, i, b} \subseteq (S \cup {null}) \ {x, c}
    BY <1>12
  <2>2. /\ r.child[d][x] = t.child[d][x] /\ r.child[o][x] = t.child[d][c]
        /\ r.child[d][c] = x /\ r.child[o][c] = t.child[o][c]
    BY <1>8
  <2>3. /\ r \in Trees /\ Tree(r, S) /\ r.color = t.color /\ r.size = t.size
        /\ r.root = IF x = t.root THEN c ELSE t.root
        /\ c \in S /\ c # x /\ c # t.root
        /\ r.parent[x] = c /\ r.parent[c] = t.parent[x]
    BY <1>2, <1>4, <1>5, <1>6, <1>9 DEF p
  <2> QED BY <2>1, <2>2, <2>3, <1>10, <1>11 DEF Turns
<1> QED BY <1>13 DEF r, c


\* What a rotation asks of the colours and heights it finds: c takes the height
\* of x, which gets height m, and the heights fit on all sides but Short's.
HeightsFit(t, S, x, d, h, m, Short) ==
    LET c == t.child[Other(d)][x]
    IN  /\ h \in [S \cup {null} -> Nat] /\ h[null] = 0 /\ m \in Nat
        /\ \A z \in S \ {x, c}, e \in Sides :
              h[z] = Black(t, z) + h[t.child[e][z]] + Lack(Short, z, e)
        /\ m = Black(t, x) + h[t.child[d][x]] + Lack(Short, x, d)
        /\ m = Black(t, x) + h[t.child[d][c]] + Lack(Short, x, Other(d))
        /\ h[x] = Black(t, c) + m + Lack(Short, c, d)
        /\ h[x] = Black(t, c) + h[t.child[Other(d)][c]] + Lack(Short, c, Other(d))

\* They then are heights after the rotation.
LEMMA RotateHeights ==
    ASSUME NEW t, NEW S, Tree(t, S), NEW x \in S, NEW d \in Sides, t.child[Other(d)][x] # null,
           NEW h, NEW m, NEW Short, HeightsFit(t, S, x, d, h, m, Short)
    PROVE  \E k : Heights(Rotate(t, x, d), S, k, Short)
<1> DEFINE r == Rotate(t, x, d)
           o == Other(d)
           c == t.child[o][x]
           i == t.child[d][c]
           a == t.child[d][x]
           b == t.child[o][c]
           k == [h EXCEPT ![x] = m, ![c] = h[x]]
<1>1. /\ r.color = t.color /\ c \in S /\ c # x
      /\ {a, b, i} \subseteq (S \cup {null}) \ {x, c}
      /\ r.child[d][x] = a /\ r.child[o][x] = i /\ r.child[d][c] = x /\ r.child[o][c] = b
      /\ \A z \in S \ {x, c}, e \in Sides :
            \/ t.child[e][z] = x /\ r.child[e][z] = c
            \/ t.child[e][z] \notin {x, c} /\ r.child[e][z] = t.child[e][z]
  <2>1. Turns(t, r, S, x, d, c)
    BY RotateShape
  <2> HIDE DEF r, c
  <2> QED BY <2>1 DEF Turns
<1>2. null \notin S /\ \A e \in Sides : e = d \/ e = o
  BY NodesAssumption, TwoSides DEF Tree, Linked
<1>3. \A z \in S, e \in Sides : t.child[e][z] \in S \cup {null}
  BY DEF Tree, Linked
<1>4. /\ h \in [S \cup {null} -> Nat] /\ h[null] = 0 /\ m \in Nat
      /\ \A z \in S \ {x, c}, e \in Sides :
            h[z] = Black(t, z) + h[t.child[e][z]] + Lack(Short, z, e)
  BY DEF HeightsFit
<1>5. /\ m = Black(t, x) + h[a] + Lack(Short, x, d)
      /\ m = Black(t, x) + h[i] + Lack(Short, x, o)
      /\ h[x] = Black(t, c) + m + Lack(Short, c, d)
      /\ h[x] = Black(t, c) + h[b] + Lack(Short, c, o)
  BY DEF HeightsFit
<1> HIDE DEF r, o, c, i, a, b
<1>6. /\ k \in [S \cup {null} -> Nat] /\ k[x] = m /\ k[c] = h[x]
      /\ \A z \in S \cup {null} : z \notin {x, c} => k[z] = h[z]
      /\ k[a] = h[a] /\ k[i] = h[i] /\ k[b] = h[b]
  BY <1>1, <1>4
<1> HIDE DEF k
<1>7. \A z \in S : Black(r, z) = Black(t, z)
  BY <1>1 DEF Black
<1>8. ASSUME NEW z \in S, NEW e \in Sides
      PROVE  k[z] = Black(r, z) + k[r.child[e][z]] + Lack(Short, z, e)
  <2>1. CASE z = x /\ e = d
    BY <2>1, <1>1, <1>5, <1>6, <1>7
  <2>2. CASE z = x /\ e = o
    BY <2>2, <1>1, <1>5, <1>6, <1>7
  <2>3. CASE z = c /\ e = d
    BY <2>3, <1>1, <1>5, <1>6, <1>7
  <2>4. CASE z = c /\ e = o
    BY <2>4, <1>1, <1>5, <1>6, <1>7
  <2>5. CASE z \notin {x, c}
    <3>1. z \in S \ {x, c}
      BY <2>5
    <3>2. h[z] = Black(t, z) + h[t.child[e][z]] + Lack(Short, z, e)
      BY <3>1, <1>4
    <3>3. k[z] = h[z]
      BY <2>5, <1>6
    <3>4. k[r.child[e][z]] = h[t.child[e][z]]
      <4>1. CASE t.child[e][z] = x /\ r.child[e][z] = c
        BY <4>1, <1>6
      <4>2. CASE t.child[e][z] \notin {x, c} /\ r.child[e][z] = t.child[e][z]
        BY <4>2, <1>3, <1>6
      <4> QED BY <3>1, <4>1, <4>2, <1>1
    <3> QED BY <3>2, <3>3, <3>4, <1>7
  <2> QED BY <2>1, <2>2, <2>3, <2>4, <2>5, <1>2
<1>9. k[null] = 0
  BY <1>1, <1>2, <1>4, <1>6
<1>10. Heights(r, S, k, Short)
  BY <1>6, <1>8, <1>9 DEF Heights
<1> QED BY <1>10 DEF r

\* Who is around a red node x with a red parent: the parent hangs on side s of
\* the grandparent g, which is black.
LEMMA AboveRed ==
    ASSUME NEW t, NEW S, NEW sz, NEW x, InsertLoop(t, S, sz, x), x # t.root, t.color[t.parent[x]] = "red"
    PROVE  LET p == t.parent[x]
               g == Grand(t, x)
               s == GrandSide(t, x)
               e == SideOf(t, x)
           IN  /\ t \in Trees /\ S \subseteq Nodes /\ S \subseteq Objects /\ null \in Objects \ S
               /\ x \in S /\ p \in S /\ g \in S /\ s \in Sides /\ e \in Sides
               /\ x # t.root /\ p # t.root
               /\ t.child[e][p] = x /\ t.child[s][g] = p
               /\ x # p /\ x # g /\ p # g
               /\ t.color[g] = "black" /\ t.color[x] = "red"
               /\ Uncle(t, x) \in S \cup {null} /\ Uncle(t, x) \notin {x, p, g}
<1> DEFINE p == t.parent[x]
           g == Grand(t, x)
           s == GrandSide(t, x)
           e == SideOf(t, x)
           u == Uncle(t, x)
<1>0. PICK U : Linked(t, S) /\ Under(t, S, U)
  BY DEF InsertLoop, Standing, Tree
<1>1. /\ t \in Trees /\ S \subseteq Nodes /\ S \subseteq Objects /\ null \notin S /\ null \in Objects
      /\ x \in S /\ t.root \in S
  BY <1>0, NodesAssumption DEF Linked, Objects, InsertLoop, Standing
<1>2. x # t.root /\ p # t.root /\ t.color[x] = "red"
  BY DEF InsertLoop
<1>3. p \in S /\ e \in Sides /\ t.child[e][p] = x
  BY <1>0, <1>1, <1>2, TwoSides, LinkedFacts
<1>4. g \in S /\ s \in Sides /\ t.child[s][g] = p
  BY <1>0, <1>2, <1>3, TwoSides, LinkedFacts DEF Grand, GrandSide
<1>5. x \in U[x] /\ p \in U[p] /\ U[x] \subseteq U[p] /\ U[p] \subseteq U[g] /\ p \notin U[x] /\ g \notin U[p]
  <2>1. x \in U[x] /\ p \in U[p]
    BY <1>0, <1>1, <1>3, UnderFacts
  <2>2. U[p] = {p} \cup U[x] \cup U[t.child[Other(e)][p]] /\ p \notin U[x]
    BY <1>0, <1>3, UnderFacts
  <2>3. U[g] = {g} \cup U[p] \cup U[t.child[Other(s)][g]] /\ g \notin U[p]
    BY <1>0, <1>4, UnderFacts
  <2> QED BY <2>1, <2>2, <2>3
<1>6. x # p /\ x # g /\ p # g
  BY <1>5
<1>7. t.color[g] = "black"
  <2>1. p # x /\ t.child[s][g] = p /\ t.color[p] = "red"
    BY <1>4, <1>6
  <2>2. t.color[g] # "red"
    BY <2>1, <1>4 DEF InsertLoop, Reds
  <2>3. t.color \in [Objects -> {"red", "black"}]
    BY <1>1 DEF Trees
  <2> QED BY <2>2, <2>3, <1>1, <1>4
<1>8. u \in S \cup {null} /\ u = t.child[Other(s)][g]
  BY <1>0, <1>4, TwoSides, LinkedFacts DEF Uncle
<1>9. u # g /\ u \notin U[p]
  <2>1. u = null => U[u] = {}
    BY <1>0 DEF Under
  <2>2. u \in S => u \in U[u]
    BY <1>0, TwoSides, UnderFacts
  <2>3. \A y \in U[u] : y # g /\ y \notin U[p]
    BY <1>0, <1>4, <1>8, TwoSides, UnderFacts
  <2>4. U[p] \subseteq S
    BY <1>0, <1>3 DEF Under
  <2> QED BY <1>1, <1>4, <1>8, <2>2, <2>3, <2>4
<1> QED BY <1>1, <1>2, <1>3, <1>4, <1>5, <1>6, <1>7, <1>8, <1>9


\* Painting nodes of the tree leaves it standing.
LEMMA StandingFacts ==
    ASSUME NEW t, NEW S, NEW sz, Standing(t, S, sz)
    PROVE  /\ t \in Trees /\ S \subseteq Nodes /\ S \subseteq Objects /\ null \in Objects \ S /\ t.root \in S
           /\ t.color \in [Objects -> {"red", "black"}] /\ t.color[null] = "black"
           /\ \A z \in S, e \in Sides : t.child[e][z] \in S \cup {null}
           /\ \A z \in S, e \in Sides :
                 t.child[e][z] # null => t.parent[t.child[e][z]] = z /\ t.child[e][z] # t.root
           /\ \A z \in S, e \in Sides : t.child[e][z] = t.child[Other(e)][z] => t.child[e][z] = null
           /\ \A z \in S, y \in S, e \in Sides, f \in Sides :
                 t.child[e][y] = t.child[f][z] /\ t.child[e][y] # null => y = z /\ e = f
           /\ \A z \in S : z # t.root => t.parent[z] \in S /\ SideOf(t, z) \in Sides
                                         /\ t.child[SideOf(t, z)][t.parent[z]] = z
<1>1. Linked(t, S) /\ S \subseteq Nodes /\ t \in Trees
  BY DEF Standing, Tree, Linked
<1>2. S \subseteq Objects /\ null \in Objects \ S /\ t.color \in [Objects -> {"red", "black"}]
  BY <1>1, NodesAssumption DEF Objects, Trees
<1>3. ASSUME NEW z \in S, NEW y \in S, NEW e \in Sides, NEW f \in Sides,
             t.child[e][y] = t.child[f][z], t.child[e][y] # null
      PROVE  y = z /\ e = f
  <2>1. t.child[e][y] \in S
    BY <1>1, <1>3, LinkedFacts
  <2> DEFINE q == t.child[e][y]
  <2>2. y # null /\ z # null /\ t.child[e][y] = q /\ t.child[f][z] = q
    BY <1>2, <1>3
  <2> HIDE DEF q
  <2>3. y = t.parent[q] /\ e = SideOf(t, q) /\ z = t.parent[q] /\ f = SideOf(t, q)
    <3>1. q \in S
      BY <2>1 DEF q
    <3> QED BY <3>1, <1>1, <2>2, LinkedFacts
  <2> QED BY <2>3
<1>4. \A z \in S, e \in Sides :
         /\ t.child[e][z] \in S \cup {null}
         /\ t.child[e][z] # null => t.parent[t.child[e][z]] = z /\ t.child[e][z] # t.root
         /\ t.child[e][z] = t.child[Other(e)][z] => t.child[e][z] = null
  BY <1>1, LinkedFacts
<1>5. \A z \in S : z # t.root => t.parent[z] \in S /\ SideOf(t, z) \in Sides
                                 /\ t.child[SideOf(t, z)][t.parent[z]] = z
  BY <1>1, TwoSides, LinkedFacts
<1> QED BY <1>1, <1>2, <1>3, <1>4, <1>5 DEF Standing

\* Painting a node of the tree leaves it standing.
LEMMA PaintStands ==
    ASSUME NEW t, NEW S, NEW sz, Standing(t, S, sz), NEW a \in S, NEW k \in {"red", "black"}
    PROVE  LET u == Paint(t, a, k)
           IN  /\ Standing(u, S, sz) /\ u.root = t.root /\ u.size = t.size
               /\ u.child = t.child /\ u.parent = t.parent
               /\ \A z : SideOf(u, z) = SideOf(t, z)
               /\ \A z \in Objects : u.color[z] = IF z = a THEN k ELSE t.color[z]
<1> DEFINE u == Paint(t, a, k)
<1>1. t \in Trees /\ a \in Objects /\ null # a /\ (k = "red" \/ k = "black")
  BY StandingFacts
<1>2. /\ u \in Trees /\ u.root = t.root /\ u.size = t.size
      /\ u.child = t.child /\ u.parent = t.parent
      /\ \A z \in Objects : u.color[z] = IF z = a THEN k ELSE t.color[z]
  <2>1. CASE k = "red"
    BY <1>1, <2>1, PaintIs
  <2>2. CASE k = "black"
    BY <1>1, <2>2, PaintIs
  <2> QED BY <1>1, <2>1, <2>2
<1> HIDE DEF u
<1>3. (Tree(t, S) => Tree(u, S)) /\ \A z : SideOf(u, z) = SideOf(t, z)
  BY <1>2, TreeOfLinks
<1>4. Standing(u, S, sz)
  BY <1>1, <1>2, <1>3 DEF Standing, Objects
<1> QED BY <1>2, <1>3, <1>4 DEF u

\* A rotation leaves it standing.
LEMMA RotateStands ==
    ASSUME NEW t, NEW S, NEW sz, Standing(t, S, sz), NEW x \in S, NEW d \in Sides, t.child[Other(d)][x] # null
    PROVE  Standing(Rotate(t, x, d), S, sz)
<1> DEFINE r == Rotate(t, x, d)
           c == t.child[Other(d)][x]
           i == t.child[d][c]
<1>1. /\ Tree(r, S) /\ r.color = t.color /\ r.root = IF x = t.root THEN c ELSE t.root
      /\ c \in S /\ c # x /\ r.parent[c] = t.parent[x] /\ r.parent[x] = c /\ c # t.root
      /\ \A z \in Objects : z # x /\ z # c /\ (z = null \/ z # i) => r.parent[z] = t.parent[z]
  BY RotateShape DEF Standing, Turns
<1>2. t.root # i \/ i = null
  <2>1. Other(d) \in Sides /\ c \in S
    BY <1>1, TwoSides
  <2> QED BY <2>1, StandingFacts
<1>3. t.root \in S /\ S \subseteq Objects
  BY StandingFacts
<1> HIDE DEF r, c, i
<1>4. r.root \in S /\ r.parent[r.root] = t.parent[t.root]
  BY <1>1, <1>2, <1>3
<1>5. r.size = t.size
  BY RotateShape DEF Standing, Turns, r, c
<1> QED BY <1>1, <1>4, <1>5 DEF Standing, r

\* A red uncle: the colours move up and the loop goes on with the grandparent,
\* closer to the root.
THEOREM RecolouredKeeps ==
    ASSUME NEW t, NEW S, NEW sz, NEW x, InsertLoop(t, S, sz, x), x # t.root, t.color[t.parent[x]] = "red",
           t.color[Uncle(t, x)] = "red"
    PROVE  InsertLoop(Recoloured(t, x), S, sz, Grand(t, x))
<1> DEFINE p  == t.parent[x]
           g  == Grand(t, x)
           s  == GrandSide(t, x)
           u  == Uncle(t, x)
           t1 == Paint(t, u, "black")
           t2 == Paint(t1, p, "black")
           t3 == Paint(t2, g, "red")
<1>0. PICK h : Heights(t, S, h, {})
  BY DEF InsertLoop
<1>1. /\ x \in S /\ p \in S /\ g \in S /\ s \in Sides /\ p # t.root
      /\ t.child[s][g] = p /\ x # p /\ x # g /\ p # g
      /\ t.color[g] = "black" /\ t.color[x] = "red"
      /\ u \in S \cup {null} /\ u \notin {x, p, g}
  BY AboveRed
<1>2. /\ Standing(t, S, sz) /\ S \subseteq Objects /\ null \in Objects \ S
      /\ t.color \in [Objects -> {"red", "black"}] /\ t.color[null] = "black"
      /\ \A z \in S, e \in Sides : t.child[e][z] \in S \cup {null}
      /\ \A z \in S, y \in S, e \in Sides, f \in Sides :
            t.child[e][y] = t.child[f][z] /\ t.child[e][y] # null => y = z /\ e = f
  BY StandingFacts DEF InsertLoop
<1>3. u \in S /\ u = t.child[Other(s)][g] /\ t.color[u] = "red" /\ t.color[p] = "red"
  BY <1>1, <1>2 DEF Uncle
<1>4. Recoloured(t, x) = t3
  BY DEF Recoloured, Paint
<1> HIDE DEF p, g, s, u
<1>5. /\ Standing(t1, S, sz) /\ t1.root = t.root /\ t1.child = t.child
      /\ \A z \in Objects : t1.color[z] = IF z = u THEN "black" ELSE t.color[z]
  BY <1>2, <1>3, PaintStands
<1> HIDE DEF t1
<1>6. /\ Standing(t2, S, sz) /\ t2.root = t.root /\ t2.child = t.child
      /\ \A z \in Objects : t2.color[z] = IF z = p THEN "black" ELSE t1.color[z]
  BY <1>1, <1>5, PaintStands
<1> HIDE DEF t2
<1>7. /\ Standing(t3, S, sz) /\ t3.root = t.root /\ t3.child = t.child
      /\ \A z \in Objects : t3.color[z] = IF z = g THEN "red" ELSE t2.color[z]
  BY <1>1, <1>6, PaintStands
<1> HIDE DEF t3
<1>8. \A z \in Objects :
         t3.color[z] = IF z = g THEN "red" ELSE IF z = p \/ z = u THEN "black" ELSE t.color[z]
  BY <1>1, <1>5, <1>6, <1>7
<1>9. t3.color[t3.root] = "red" => g = t3.root
  <2>1. t.color[t.root] = "red" => x = t.root
    BY DEF InsertLoop
  <2>2. t.root \in S /\ x # t.root
    BY DEF InsertLoop, Standing
  <2> QED BY <2>1, <2>2, <1>2, <1>3, <1>7, <1>8
<1>10. Reds(t3, S, {g})
  <2> SUFFICES ASSUME NEW z \in S, NEW e \in Sides, t3.color[z] = "red", t3.color[t.child[e][z]] = "red",
                      t.child[e][z] # g
               PROVE  FALSE
    BY <1>7 DEF Reds
  <2> DEFINE y == t.child[e][z]
  <2>1. y \in S \cup {null} /\ t.color[y] = "red" /\ y \notin {p, u}
    BY <1>2, <1>8
  <2>2. CASE z = g
    <3>1. e = s \/ e = Other(s)
      BY <1>1, TwoSides
    <3> QED BY <3>1, <2>1, <2>2, <1>1, <1>3
  <2>3. CASE z # g
    <3>1. z \notin {p, u} /\ t.color[z] = "red"
      BY <2>3, <1>2, <1>8
    <3>2. y = x
      BY <3>1, <2>1 DEF InsertLoop, Reds
    <3>3. z = p
      <4>1. x \in S /\ x # null /\ t.child[e][z] = x /\ z \in S
        BY <3>2, <1>1, <1>2
      <4>2. t.parent[x] = z
        BY <4>1, <1>2, StandingFacts
      <4> QED BY <4>2 DEF p
    <3> QED BY <3>1, <3>3
  <2> QED BY <2>2, <2>3
<1>11. \E k : Heights(t3, S, k, {})
  <2> DEFINE k == [h EXCEPT ![p] = h[p] + 1, ![u] = h[u] + 1]
  <2>1. /\ h \in [S \cup {null} -> Nat] /\ h[null] = 0
        /\ \A z \in S, e \in Sides : h[z] = Black(t, z) + h[t.child[e][z]] + Lack({}, z, e)
    BY <1>0 DEF Heights
  <2>2. /\ k \in [S \cup {null} -> Nat] /\ k[null] = 0
        /\ \A z \in S \cup {null} : k[z] = IF z = p \/ z = u THEN h[z] + 1 ELSE h[z]
    BY <2>1, <1>1, <1>2, <1>3
  <2> HIDE DEF k
  <2>3. \A z \in S, e \in Sides : Lack({}, z, e) = 0
    BY DEF Lack
  <2>4. /\ Black(t, g) = 1 /\ Black(t, p) = 0 /\ Black(t, u) = 0
        /\ Black(t3, g) = 0 /\ Black(t3, p) = 1 /\ Black(t3, u) = 1
        /\ \A z \in S \ {g, p, u} : Black(t3, z) = Black(t, z)
    BY <1>1, <1>2, <1>3, <1>8 DEF Black
  <2>5. ASSUME NEW z \in S, NEW e \in Sides
        PROVE  k[z] = Black(t3, z) + k[t3.child[e][z]] + Lack({}, z, e)
    <3> DEFINE y == t.child[e][z]
    <3>1. y \in S \cup {null} /\ h[z] \in Nat /\ h[y] \in Nat /\ t3.child[e][z] = y
      BY <2>1, <1>2, <1>7
    <3>2. Black(t, z) \in {0, 1} /\ Black(t3, z) \in {0, 1} /\ h[z] = Black(t, z) + h[y]
      <4>1. Black(t, z) \in {0, 1} /\ Black(t3, z) \in {0, 1}
        BY DEF Black
      <4>2. h[z] = Black(t, z) + h[y] + Lack({}, z, e)
        BY <2>1
      <4> HIDE DEF y
      <4> QED BY <4>1, <4>2, <3>1, <2>3
    <3>3. CASE z = g
      <4>1. y = p \/ y = u
        <5>1. e = s \/ e = Other(s)
          BY <1>1, TwoSides
        <5> QED BY <5>1, <3>3, <1>1, <1>3
      <4> HIDE DEF y
      <4>2. k[z] = h[z] /\ k[y] = h[y] + 1
        BY <4>1, <3>1, <3>3, <2>2, <1>1, <1>3
      <4> QED BY <4>2, <3>1, <3>2, <3>3, <2>3, <2>4
    <3>4. CASE z # g
      <4>1. y \notin {p, u}
        <5>1. y = p => z = g /\ e = s
          BY <1>1, <1>2
        <5>2. y = u => z = g /\ e = Other(s)
          BY <1>1, <1>2, <1>3, TwoSides
        <5> QED BY <5>1, <5>2, <3>4
      <4> HIDE DEF y
      <4>2. k[y] = h[y]
        BY <4>1, <3>1, <2>2
      <4>3. k[z] = IF z = p \/ z = u THEN h[z] + 1 ELSE h[z]
        BY <2>2
      <4> QED BY <4>2, <4>3, <3>1, <3>2, <3>4, <2>3, <2>4
    <3> QED BY <3>3, <3>4
  <2>6. Heights(t3, S, k, {})
    BY <2>2, <2>5 DEF Heights
  <2> QED BY <2>6
<1>12. t3.color[g] = "red"
  BY <1>1, <1>2, <1>8
<1>13. InsertLoop(t3, S, sz, g)
  BY <1>1, <1>7, <1>9, <1>10, <1>11, <1>12 DEF InsertLoop
<1> QED BY <1>4, <1>13 DEF g


\* A black uncle, first half: a node on the inner side goes above its parent, so
\* that the two red nodes hang on the same side.
LEMMA StraightKeeps ==
    ASSUME NEW t, NEW S, NEW sz, NEW x, InsertLoop(t, S, sz, x), x # t.root, t.color[t.parent[x]] = "red",
           t.color[Uncle(t, x)] = "black"
    PROVE  LET r == Straight(t, x)
               y == Outermost(t, x)
           IN  /\ InsertLoop(r, S, sz, y) /\ y # r.root /\ r.color[r.parent[y]] = "red"
               /\ r.color[Uncle(r, y)] = "black" /\ ~Inner(r, y)
<1> DEFINE p == t.parent[x]
           g == Grand(t, x)
           s == GrandSide(t, x)
           o == Other(s)
           u == Uncle(t, x)
           r == Rotate(t, p, s)
<1>1. CASE ~Inner(t, x)
  BY <1>1 DEF Straight, Outermost
<1>2. CASE Inner(t, x)
  <2>0. PICK h : Heights(t, S, h, {})
    BY DEF InsertLoop
  <2>1. /\ x \in S /\ p \in S /\ g \in S /\ s \in Sides /\ p # t.root /\ x # t.root
        /\ t.child[s][g] = p /\ x # p /\ x # g /\ p # g
        /\ t.color[g] = "black" /\ t.color[x] = "red" /\ t.color[p] = "red"
        /\ u \in S \cup {null} /\ u \notin {x, p, g} /\ u = t.child[o][g] /\ t.color[u] = "black"
    BY AboveRed DEF Uncle
  <2>2. /\ Standing(t, S, sz) /\ S \subseteq Objects /\ x # null
        /\ Tree(t, S) /\ t.color \in [Objects -> {"red", "black"}]
    BY <2>1, StandingFacts DEF InsertLoop, Standing
  <2>3. t.child[o][p] = x
    BY <1>2 DEF Inner
  <2>4. Straight(t, x) = r /\ Outermost(t, x) = p
    BY <1>2 DEF Straight, Outermost
  <2> DEFINE i == t.child[s][x]
             a == t.child[s][p]
             b == t.child[o][x]
  <2> HIDE DEF p, g, s, u
  <2>5. /\ r.color = t.color /\ r.root = t.root
        /\ {a, b, i} \subseteq (S \cup {null}) \ {x, p}
        /\ r.child[s][p] = a /\ r.child[o][p] = i /\ r.child[s][x] = p /\ r.child[o][x] = b
        /\ r.parent[p] = x /\ r.parent[x] = t.parent[p]
        /\ \A z \in S \ {x, p}, e \in Sides :
              \/ t.child[e][z] = p /\ r.child[e][z] = x
              \/ t.child[e][z] \notin {x, p} /\ r.child[e][z] = t.child[e][z]
    <3>1. p \in S /\ s \in Sides /\ Tree(t, S) /\ t.child[Other(s)][p] # null
      BY <2>1, <2>2, <2>3
    <3> HIDE DEF r
    <3>2. Turns(t, r, S, p, s, x)
      BY <3>1, <2>3, RotateShape DEF r
    <3> QED BY <3>2, <2>1 DEF Turns
  <2>6. Standing(r, S, sz)
    BY <2>1, <2>2, <2>3, RotateStands
  <2>7. t.parent[p] = g /\ o \in Sides /\ o # s /\ \A e \in Sides : e = s \/ e = o
    BY <2>1, TwoSides DEF p, g, Grand
  <2> HIDE DEF r, o
  <2>8. r.child[s][g] = x /\ r.child[o][g] = u
    BY <2>1, <2>5, <2>7
  <2>9. Reds(r, S, {p})
    <3> SUFFICES ASSUME NEW z \in S, NEW e \in Sides, t.color[z] = "red", t.color[r.child[e][z]] = "red",
                        r.child[e][z] # p
                 PROVE  FALSE
      BY <2>5 DEF Reds
    <3>1. \A y \in S, f \in Sides : t.color[y] = "red" /\ t.color[t.child[f][y]] = "red" => t.child[f][y] = x
      BY DEF InsertLoop, Reds
    <3>2. CASE z \notin {x, p}
      BY <3>1, <3>2, <2>1, <2>5
    <3>3. CASE z = p /\ e = s
      BY <3>1, <3>3, <2>1, <2>5
    <3>4. CASE z = p /\ e = o
      BY <3>1, <3>4, <2>1, <2>5
    <3>5. CASE z = x
      BY <3>1, <3>5, <2>1, <2>5, <2>7
    <3> QED BY <3>2, <3>3, <3>4, <3>5, <2>7
  <2>10. \E k : Heights(r, S, k, {})
    <3>1. /\ h \in [S \cup {null} -> Nat] /\ h[null] = 0
          /\ \A z \in S, e \in Sides : h[z] = Black(t, z) + h[t.child[e][z]] + Lack({}, z, e)
      BY <2>0 DEF Heights
    <3>2. \A z \in S, e \in Sides : Lack({}, z, e) = 0
      BY DEF Lack
    <3>3. Black(t, p) = 0 /\ Black(t, x) = 0
      BY <2>1 DEF Black
    <3>4. h[x] \in Nat /\ h[p] \in Nat /\ h[a] \in Nat /\ h[b] \in Nat /\ h[i] \in Nat
      BY <3>1, <2>1, <2>5
    <3>5. h[p] = h[a] /\ h[p] = h[x] /\ h[x] = h[i] /\ h[x] = h[b]
      BY <3>1, <3>2, <3>3, <3>4, <2>1, <2>3, <2>7
    <3>6. HeightsFit(t, S, p, s, h, h[p], {})
      BY <3>1, <3>2, <3>3, <3>4, <3>5, <2>1, <2>3, <2>7 DEF HeightsFit, o
    <3> QED BY <3>6, <2>1, <2>2, <2>3, RotateHeights DEF r, o
  <2>11. InsertLoop(r, S, sz, p)
    BY <2>1, <2>5, <2>6, <2>9, <2>10 DEF InsertLoop
  <2>12. SideOf(r, x) = s
    <3>1. x # r.root /\ r.parent[x] = g
      BY <2>1, <2>5, <2>7
    <3>2. SideOf(r, x) \in Sides /\ r.child[SideOf(r, x)][g] = x
      BY <3>1, <2>1, <2>6, StandingFacts
    <3> QED BY <3>2, <2>1, <2>2, <2>6, <2>8, StandingFacts
  <2>13. GrandSide(r, p) = s /\ Uncle(r, p) = u /\ ~Inner(r, p)
    <3>1. GrandSide(r, p) = s /\ Grand(r, p) = g
      BY <2>5, <2>7, <2>12 DEF GrandSide, Grand
    <3>2. Uncle(r, p) = u
      BY <3>1, <2>8 DEF Uncle, o
    <3>3. r.child[Other(s)][x] # p
      BY <2>5 DEF o
    <3> QED BY <3>1, <3>2, <3>3, <2>5 DEF Inner
  <2> QED BY <2>1, <2>4, <2>5, <2>11, <2>13
<1> QED BY <1>1, <1>2

\* Second half: the parent goes above the grandparent, and the tree is a
\* red-black tree in which the loop ends.
LEMMA TurnedMends ==
    ASSUME NEW t, NEW S, NEW sz, NEW x, InsertLoop(t, S, sz, x), x # t.root, t.color[t.parent[x]] = "red",
           t.color[Uncle(t, x)] = "black", ~Inner(t, x)
    PROVE  LET r == Turned(t, x)
           IN  RedBlackTree(r, S, sz) /\ r.color[r.parent[x]] = "black"
<1> DEFINE p  == t.parent[x]
           g  == Grand(t, x)
           s  == GrandSide(t, x)
           o  == Other(s)
           u  == Uncle(t, x)
           t1 == Paint(t, p, "black")
           t2 == Paint(t1, g, "red")
           r  == Rotate(t2, g, o)
<1>0. PICK h : Heights(t, S, h, {})
  BY DEF InsertLoop
<1>1. /\ x \in S /\ p \in S /\ g \in S /\ s \in Sides /\ p # t.root /\ x # t.root
      /\ t.child[s][g] = p /\ x # p /\ x # g /\ p # g
      /\ t.color[g] = "black" /\ t.color[x] = "red" /\ t.color[p] = "red"
      /\ u \in S \cup {null} /\ u \notin {x, p, g} /\ u = t.child[o][g] /\ t.color[u] = "black"
  BY AboveRed DEF Uncle
<1>2. /\ Standing(t, S, sz) /\ S \subseteq Objects /\ x # null /\ t.root \in S /\ null \in Objects
      /\ t.color \in [Objects -> {"red", "black"}]
  BY <1>1, StandingFacts DEF InsertLoop
<1>3. t.child[s][p] = x
  <2>1. SideOf(t, x) \in Sides /\ t.child[SideOf(t, x)][p] = x
    BY AboveRed
  <2>2. SideOf(t, x) # o
    BY <2>1 DEF Inner
  <2> QED BY <2>1, <2>2, <1>1, TwoSides
<1>4. Turned(t, x) = r
  BY DEF Turned, Paint, GrandSide
<1>5. o \in Sides /\ o # s /\ Other(o) = s /\ \A e \in Sides : e = s \/ e = o
  BY <1>1, TwoSides
<1>6. t.color[t.root] = "black"
  BY <1>1, <1>2 DEF InsertLoop
<1>7. t.parent[x] = p
  OBVIOUS
<1> HIDE DEF p, g, s, u, o
<1>8. /\ Standing(t1, S, sz) /\ t1.root = t.root /\ t1.child = t.child /\ t1.parent = t.parent
      /\ \A z \in Objects : t1.color[z] = IF z = p THEN "black" ELSE t.color[z]
  BY <1>1, <1>2, PaintStands
<1> HIDE DEF t1
<1>9. /\ Standing(t2, S, sz) /\ t2.root = t.root /\ t2.child = t.child /\ t2.parent = t.parent
      /\ \A z \in Objects : t2.color[z] = IF z = g THEN "red" ELSE t1.color[z]
  BY <1>1, <1>8, PaintStands
<1> HIDE DEF t2
<1>10. \A z \in Objects :
          t2.color[z] = IF z = g THEN "red" ELSE IF z = p THEN "black" ELSE t.color[z]
  BY <1>8, <1>9
<1> DEFINE i == t.child[o][p]
<1>11. /\ r.color = t2.color /\ r.root = IF g = t.root THEN p ELSE t.root
       /\ {u, x, i} \subseteq (S \cup {null}) \ {p, g}
       /\ r.child[o][g] = u /\ r.child[s][g] = i /\ r.child[o][p] = g /\ r.child[s][p] = x
       /\ \A z \in Objects : z # g /\ z # p /\ (z = null \/ z # i) => r.parent[z] = t.parent[z]
       /\ \A z \in S \ {g, p}, e \in Sides :
             \/ t.child[e][z] = g /\ r.child[e][z] = p
             \/ t.child[e][z] \notin {g, p} /\ r.child[e][z] = t.child[e][z]
  <2>1. Tree(t2, S) /\ t2.child[Other(o)][g] = p /\ p # null
    BY <1>1, <1>2, <1>5, <1>9, StandingFacts DEF Standing
  <2> HIDE DEF r
  <2>2. Turns(t2, r, S, g, o, p)
    BY <2>1, <1>1, <1>5, RotateShape DEF r
  <2> QED BY <2>2, <1>1, <1>3, <1>5, <1>9 DEF Turns
<1>12. Standing(r, S, sz)
  <2>1. t2.child[Other(o)][g] # null
    BY <1>1, <1>2, <1>5, <1>9, StandingFacts
  <2> QED BY <2>1, <1>1, <1>5, <1>9, RotateStands
<1>13. \E k : Heights(r, S, k, {})
  <2>1. /\ h \in [S \cup {null} -> Nat] /\ h[null] = 0
        /\ \A z \in S, e \in Sides : h[z] = Black(t, z) + h[t.child[e][z]] + Lack({}, z, e)
    BY <1>0 DEF Heights
  <2>2. \A z \in S, e \in Sides : Lack({}, z, e) = 0
    BY DEF Lack
  <2>3. /\ Black(t, p) = 0 /\ Black(t, g) = 1 /\ Black(t2, p) = 1 /\ Black(t2, g) = 0
        /\ \A z \in S \ {g, p} : Black(t2, z) = Black(t, z)
    BY <1>1, <1>2, <1>10 DEF Black
  <2>4. h[x] \in Nat /\ h[p] \in Nat /\ h[g] \in Nat /\ h[u] \in Nat /\ h[i] \in Nat
    BY <2>1, <1>1, <1>11
  <2>5. h[g] = 1 + h[p] /\ h[g] = 1 + h[u] /\ h[p] = h[x] /\ h[p] = h[i]
    BY <2>1, <2>2, <2>3, <2>4, <1>1, <1>3, <1>5
  <2>6. HeightsFit(t2, S, g, o, h, h[p], {})
    <3>1. t2.child[Other(o)][g] = p /\ t2.child = t.child /\ Other(o) = s
      BY <1>1, <1>5, <1>9
    <3>2. \A z \in S \ {g, p}, e \in Sides :
             h[z] = Black(t2, z) + h[t2.child[e][z]] + Lack({}, z, e)
      BY <2>1, <2>3, <1>9
    <3> QED BY <3>1, <3>2, <2>1, <2>2, <2>3, <2>4, <2>5, <1>1, <1>3, <1>5 DEF HeightsFit
  <2>7. Tree(t2, S) /\ t2.child[Other(o)][g] # null
    BY <1>1, <1>2, <1>5, <1>9, StandingFacts DEF Standing
  <2> QED BY <2>6, <2>7, <1>1, <1>5, RotateHeights
<1> HIDE DEF r
<1>14. i # x
  <2>1. p \in S /\ t.child[o][p] = i /\ t.child[s][p] = x
    BY <1>1, <1>3
  <2> HIDE DEF i
  <2> QED BY <2>1, <1>2, <1>5, StandingFacts
<1>15. Reds(r, S, {})
  <2> SUFFICES ASSUME NEW z \in S, NEW e \in Sides, r.color[z] = "red", r.color[r.child[e][z]] = "red"
               PROVE  FALSE
    BY DEF Reds
  <2>1. \A y \in S, f \in Sides : t.color[y] = "red" /\ t.color[t.child[f][y]] = "red" => t.child[f][y] = x
    BY DEF InsertLoop, Reds
  <2>2. \A y \in S, f \in Sides : t.child[f][y] = x => y = p
    BY <1>1, <1>2, <1>7, StandingFacts
  <2>3. \A y \in S, f \in Sides : t.child[f][y] \in Objects
    BY <1>2, StandingFacts DEF Objects
  <2>4. CASE z \notin {g, p}
    <3>1. t.color[z] = "red"
      BY <2>4, <1>2, <1>10, <1>11
    <3>2. r.child[e][z] # p
      BY <1>1, <1>2, <1>10, <1>11
    <3>3. t.child[e][z] \notin {g, p} /\ r.child[e][z] = t.child[e][z]
      BY <3>2, <2>4, <1>11
    <3>4. t.color[t.child[e][z]] = "red"
      BY <3>3, <2>3, <1>10, <1>11
    <3> QED BY <3>1, <3>4, <2>1, <2>2, <2>4
  <2>5. CASE z = g /\ e = o
    BY <2>5, <1>1, <1>2, <1>10, <1>11
  <2>6. CASE z = g /\ e = s
    <3>1. t.color[i] = "red"
      BY <2>6, <1>2, <1>10, <1>11
    <3> QED BY <3>1, <2>1, <1>1, <1>5, <1>14
  <2>7. CASE z = p
    BY <2>7, <1>1, <1>2, <1>10, <1>11
  <2> QED BY <2>4, <2>5, <2>6, <2>7, <1>5
<1>16. r.color[r.root] = "black"
  BY <1>1, <1>2, <1>6, <1>10, <1>11
<1>17. r.color[r.parent[x]] = "black"
  <2>1. r.parent[x] = p
    BY <1>1, <1>2, <1>7, <1>11, <1>14
  <2> QED BY <2>1, <1>1, <1>2, <1>10, <1>11
<1> QED BY <1>4, <1>12, <1>13, <1>15, <1>16, <1>17 DEF RedBlackTree


\* One pass of rbtree_insert_fixup, and its end: at the root or under a black
\* parent it ends with a red-black tree once the root is black; a red uncle sends it two levels up; a
\* black uncle needs the one or two rotations, after which it ends.
THEOREM InsertFixupPass ==
    ASSUME NEW t, NEW S, NEW sz, NEW x, InsertLoop(t, S, sz, x)
    PROVE  /\ x = t.root \/ t.color[t.parent[x]] = "black" =>
                 RedBlackTree([t EXCEPT !.color[t.root] = "black"], S, sz)
           /\ x # t.root /\ t.color[t.parent[x]] = "red" /\ t.color[Uncle(t, x)] = "red" =>
                 InsertLoop(Recoloured(t, x), S, sz, Grand(t, x))
           /\ x # t.root /\ t.color[t.parent[x]] = "red" /\ t.color[Uncle(t, x)] = "black" =>
                 LET y == Outermost(t, x)
                     r == Turned(Straight(t, x), y)
                 IN  RedBlackTree(r, S, sz) /\ r.color[r.parent[y]] = "black"
<1>1. ASSUME x = t.root \/ t.color[t.parent[x]] = "black"
      PROVE  RedBlackTree([t EXCEPT !.color[t.root] = "black"], S, sz)
  <2> DEFINE r == Paint(t, t.root, "black")
  <2>0. PICK h : Heights(t, S, h, {})
    BY DEF InsertLoop
  <2>1. /\ Standing(t, S, sz) /\ t.root \in S /\ S \subseteq Objects /\ null \in Objects \ S
        /\ t.color \in [Objects -> {"red", "black"}] /\ x \in S /\ t.color[null] = "black"
        /\ \A z \in S, e \in Sides : t.child[e][z] \in S \cup {null}
        /\ \A z \in S, e \in Sides :
              t.child[e][z] # null => t.parent[t.child[e][z]] = z /\ t.child[e][z] # t.root
    BY StandingFacts DEF InsertLoop
  <2>2. /\ Standing(r, S, sz) /\ r.root = t.root /\ r.child = t.child
        /\ \A z \in Objects : r.color[z] = IF z = t.root THEN "black" ELSE t.color[z]
    <3> DEFINE q == t.root
    <3>1. Standing(t, S, sz) /\ q \in S
      BY <2>1
    <3> HIDE DEF q
    <3>2. /\ Standing(Paint(t, q, "black"), S, sz) /\ Paint(t, q, "black").root = t.root
          /\ Paint(t, q, "black").child = t.child
          /\ \A z \in Objects : Paint(t, q, "black").color[z] = IF z = q THEN "black" ELSE t.color[z]
      BY <3>1, PaintStands
    <3> QED BY <3>2 DEF q
  <2> HIDE DEF r
  <2>3. Reds(r, S, {})
    <3> SUFFICES ASSUME NEW z \in S, NEW e \in Sides, r.color[z] = "red", r.color[t.child[e][z]] = "red"
                 PROVE  FALSE
      BY <2>2 DEF Reds
    <3>1. t.color[z] = "red" /\ t.color[t.child[e][z]] = "red"
      BY <2>1, <2>2
    <3>2. t.child[e][z] = x
      BY <3>1 DEF InsertLoop, Reds
    <3> QED BY <3>1, <3>2, <1>1, <2>1
  <2>4. \E k : Heights(r, S, k, {})
    <3> DEFINE k == [h EXCEPT ![t.root] = Black(r, t.root) + h[t.child["left"][t.root]]]
    <3>1. /\ h \in [S \cup {null} -> Nat] /\ h[null] = 0
          /\ \A z \in S, e \in Sides : h[z] = Black(t, z) + h[t.child[e][z]] + Lack({}, z, e)
      BY <2>0 DEF Heights
    <3>2. /\ \A z \in S, e \in Sides : Lack({}, z, e) = 0
          /\ \A z \in S : Black(t, z) \in {0, 1} /\ Black(r, z) \in {0, 1}
          /\ \A z \in S : z # t.root => Black(r, z) = Black(t, z)
      BY <2>1, <2>2 DEF Lack, Black
    <3>3. \A z \in S, e \in Sides : h[t.child[e][z]] \in Nat /\ h[z] = Black(t, z) + h[t.child[e][z]]
      BY <3>1, <3>2, <2>1
    <3>4. h[t.child["left"][t.root]] \in Nat /\ h[t.child["right"][t.root]] = h[t.child["left"][t.root]]
      BY <3>2, <3>3, <2>1, TwoSides, SMTT(20)
    <3>5. /\ k \in [S \cup {null} -> Nat] /\ k[null] = 0
          /\ k[t.root] = Black(r, t.root) + h[t.child["left"][t.root]]
          /\ \A z \in S \cup {null} : z # t.root => k[z] = h[z]
      BY <3>1, <3>2, <3>4, <2>1
    <3> HIDE DEF k
    <3>6. ASSUME NEW z \in S, NEW e \in Sides
          PROVE  k[z] = Black(r, z) + k[r.child[e][z]] + Lack({}, z, e)
      <4>1. k[r.child[e][z]] = h[t.child[e][z]] /\ h[t.child[e][z]] \in Nat
        <5>1. t.child[e][z] # t.root /\ t.child[e][z] \in S \cup {null}
          BY <2>1
        <5> QED BY <5>1, <3>1, <3>5, <2>2
      <4>2. CASE z = t.root
        <5>1. h[t.child[e][z]] = h[t.child["left"][t.root]]
          BY <4>2, <3>4 DEF Sides
        <5> QED BY <5>1, <4>1, <4>2, <3>2, <3>5
      <4>3. CASE z # t.root
        BY <4>1, <4>3, <3>2, <3>3, <3>5
      <4> QED BY <4>2, <4>3
    <3>7. Heights(r, S, k, {})
      BY <3>5, <3>6 DEF Heights
    <3> QED BY <3>7
  <2>5. RedBlackTree(r, S, sz)
    BY <2>1, <2>2, <2>3, <2>4 DEF RedBlackTree
  <2> QED BY <2>5 DEF r, Paint
<1>2. ASSUME x # t.root, t.color[t.parent[x]] = "red", t.color[Uncle(t, x)] = "red"
      PROVE  InsertLoop(Recoloured(t, x), S, sz, Grand(t, x))
  BY <1>2, RecolouredKeeps
<1>3. ASSUME x # t.root, t.color[t.parent[x]] = "red", t.color[Uncle(t, x)] = "black"
      PROVE  LET y == Outermost(t, x)
                 r == Turned(Straight(t, x), y)
             IN  RedBlackTree(r, S, sz) /\ r.color[r.parent[y]] = "black"
  <2> DEFINE y == Outermost(t, x)
             u == Straight(t, x)
  <2>1. /\ InsertLoop(u, S, sz, y) /\ y # u.root /\ u.color[u.parent[y]] = "red"
        /\ u.color[Uncle(u, y)] = "black" /\ ~Inner(u, y)
    BY <1>3, StraightKeeps
  <2> HIDE DEF y, u
  <2>2. LET r == Turned(u, y) IN RedBlackTree(r, S, sz) /\ r.color[r.parent[y]] = "black"
    BY <2>1, TurnedMends
  <2> QED BY <2>2 DEF y, u
<1> QED BY <1>1, <1>2, <1>3

\* Who is around a black x that is one black node short: its parent p on whose
\* side d it hangs, and a sibling w, which is a node.
LEMMA AboveShort ==
    ASSUME NEW t, NEW S, NEW sz, NEW x, DeleteLoop(t, S, sz, x), x # t.root, t.color[x] = "black"
    PROVE  LET p == t.parent[x]
               d == SideOf(t, x)
               o == Other(d)
               w == Sibling(t, x)
           IN  /\ Standing(t, S, sz) /\ p \in S /\ d \in Sides /\ o \in Sides /\ o # d /\ Other(o) = d
               /\ \A e \in Sides : e = d \/ e = o
               /\ t.child[d][p] = x /\ t.child[o][p] = w
               /\ w \in S /\ w # null /\ w # p /\ x \notin {p, w} /\ w # t.root
               /\ Reds(t, S, {}) /\ ShortAt(t, x) = Place(p, d)
               /\ \E h : Heights(t, S, h, Place(p, d)) /\ h[w] = h[x] + 1
<1> DEFINE p == t.parent[x]
           d == SideOf(t, x)
           o == Other(d)
           w == Sibling(t, x)
<1>1. Standing(t, S, sz) /\ p \in S /\ t.child[d][p] = x /\ x \in S \cup {null}
  BY DEF DeleteLoop
<1>2. d \in Sides /\ o \in Sides /\ o # d /\ Other(o) = d /\ \A e \in Sides : e = d \/ e = o
  <2>1. d \in Sides
    BY DEF SideOf, Sides
  <2> QED BY <2>1, TwoSides
<1>3. t.child[o][p] = w
  BY DEF Sibling
<1>4. ShortAt(t, x) = Place(p, d)
  BY DEF ShortAt
<1>5. PICK h : Heights(t, S, h, Place(p, d))
  BY <1>4 DEF DeleteLoop
<1> HIDE DEF p, d, o, w
<1>6. w \in S \cup {null} /\ null \notin S
  BY <1>1, <1>2, <1>3, StandingFacts
<1>7. h[w] = h[x] + 1 /\ h[x] \in Nat /\ h[null] = 0
  <2>1. h \in [S \cup {null} -> Nat] /\ h[null] = 0
    BY <1>5 DEF Heights
  <2>2. /\ h[p] = Black(t, p) + h[x] + Lack(Place(p, d), p, d)
        /\ h[p] = Black(t, p) + h[w] + Lack(Place(p, d), p, o)
    BY <1>1, <1>2, <1>3, <1>5 DEF Heights
  <2>3. Lack(Place(p, d), p, d) = 1 /\ Lack(Place(p, d), p, o) = 0 /\ Black(t, p) \in {0, 1}
    BY <1>2 DEF Lack, Black, Place
  <2>4. h[x] \in Nat /\ h[w] \in Nat
    BY <2>1, <1>1, <1>6
  <2> QED BY <2>1, <2>2, <2>3, <2>4
<1>8. w # null /\ w # x
  BY <1>7
<1>9. w # p /\ x # p
  <2>1. PICK U : Linked(t, S) /\ Under(t, S, U)
    BY <1>1 DEF Standing, Tree
  <2>2. \A e \in Sides : \A y \in U[t.child[e][p]] : y # p
    BY <2>1, <1>1, UnderFacts
  <2>3. p \in U[p]
    BY <2>1, <1>1, <1>2, UnderFacts
  <2> QED BY <2>2, <2>3, <1>1, <1>2, <1>3
<1>10. w # t.root
  BY <1>1, <1>2, <1>3, <1>8, StandingFacts
<1>11. Reds(t, S, {})
  BY DEF Reds, DeleteLoop
<1> QED BY <1>1, <1>2, <1>3, <1>4, <1>5, <1>6, <1>7, <1>8, <1>9, <1>10, <1>11 DEF p, d, o, w


\* The side a child hangs on, if it does not hang on both.
LEMMA SideIs ==
    ASSUME NEW t, NEW x, NEW d \in Sides, t.child[d][t.parent[x]] = x,
           t.child[Other(d)][t.parent[x]] # x
    PROVE  SideOf(t, x) = d
BY DEF Sides, Other, SideOf

\* One place lacks a black node.
LEMMA LackIs ==
    ASSUME NEW p, NEW d, NEW z, NEW e
    PROVE  Lack(Place(p, d), z, e) = (IF z = p /\ e = d THEN 1 ELSE 0) /\ Lack({}, z, e) = 0
BY DEF Lack, Place

\* A red sibling goes up: the next sibling is black, and the rest is as before.
LEMMA SiblingUpKeeps ==
    ASSUME NEW t, NEW S, NEW sz, NEW x, DeleteLoop(t, S, sz, x), x # t.root, t.color[x] = "black"
    PROVE  LET r == SiblingUp(t, x)
           IN  /\ DeleteLoop(r, S, sz, x) /\ x # r.root /\ r.color[x] = "black"
               /\ r.color[Sibling(r, x)] = "black" /\ r.parent[x] = t.parent[x]
<1> DEFINE p  == t.parent[x]
           d  == SideOf(t, x)
           o  == Other(d)
           w  == Sibling(t, x)
           i  == t.child[d][w]
           t1 == Paint(t, w, "black")
           t2 == Paint(t1, p, "red")
           r  == Rotate(t2, p, d)
<1>1. /\ Standing(t, S, sz) /\ p \in S /\ d \in Sides /\ o \in Sides /\ o # d /\ Other(o) = d
      /\ \A e \in Sides : e = d \/ e = o
      /\ t.child[d][p] = x /\ t.child[o][p] = w
      /\ w \in S /\ w # null /\ w # p /\ x \notin {p, w} /\ w # t.root
      /\ Reds(t, S, {}) /\ ShortAt(t, x) = Place(p, d)
      /\ \E h : Heights(t, S, h, Place(p, d)) /\ h[w] = h[x] + 1
  BY AboveShort
<1>2. /\ S \subseteq Objects /\ t.root \in S /\ null \in Objects \ S /\ t.color[t.root] = "black"
      /\ t.color \in [Objects -> {"red", "black"}] /\ t.parent[x] = p /\ x \in S \cup {null}
  BY <1>1, StandingFacts DEF DeleteLoop
<1>3. CASE t.color[w] = "black"
  BY <1>1, <1>3 DEF SiblingUp
<1>4. CASE t.color[w] # "black"
  <2>0. t.color[w] = "red"
    BY <1>1, <1>2, <1>4
  <2>1. SiblingUp(t, x) = r
    BY <1>4 DEF SiblingUp, Paint
  <2> HIDE DEF p, d, o, w
  <2>2. PICK h : Heights(t, S, h, Place(p, d)) /\ h[w] = h[x] + 1
    BY <1>1
  <2>3. /\ Standing(t1, S, sz) /\ t1.root = t.root /\ t1.child = t.child /\ t1.parent = t.parent
        /\ \A z \in Objects : t1.color[z] = IF z = w THEN "black" ELSE t.color[z]
    BY <1>1, PaintStands
  <2> HIDE DEF t1
  <2>4. /\ Standing(t2, S, sz) /\ t2.root = t.root /\ t2.child = t.child /\ t2.parent = t.parent
        /\ \A z \in Objects : t2.color[z] = IF z = p THEN "red" ELSE t1.color[z]
    BY <1>1, <2>3, PaintStands
  <2> HIDE DEF t2
  <2>5. \A z \in Objects :
           t2.color[z] = IF z = p THEN "red" ELSE IF z = w THEN "black" ELSE t.color[z]
    BY <2>3, <2>4
  <2> HIDE DEF r
  <2>6. Turns(t2, r, S, p, d, w) /\ Standing(r, S, sz)
    <3>1. Tree(t2, S) /\ t2.child[Other(d)][p] = w
      BY <1>1, <2>4 DEF Standing, o
    <3> QED BY <3>1, <1>1, <2>4, RotateShape, RotateStands DEF r
  <2>7. /\ r.color = t2.color /\ r.root = IF p = t.root THEN w ELSE t.root
        /\ {x, i, t.child[o][w]} \subseteq (S \cup {null}) \ {p, w}
        /\ r.child[d][p] = x /\ r.child[o][p] = i
        /\ r.child[d][w] = p /\ r.child[o][w] = t.child[o][w]
        /\ \A z \in Objects : z # p /\ z # w /\ (z = null \/ z # i) => r.parent[z] = t.parent[z]
        /\ \A z \in S \ {p, w}, e \in Sides :
              \/ t.child[e][z] = p /\ r.child[e][z] = w
              \/ t.child[e][z] \notin {p, w} /\ r.child[e][z] = t.child[e][z]
    BY <1>1, <2>4, <2>6 DEF Turns, o
  \* The heights
  <2>8. /\ h \in [S \cup {null} -> Nat] /\ h[null] = 0
        /\ \A z \in S, e \in Sides :
              h[z] = Black(t, z) + h[t.child[e][z]] + (IF z = p /\ e = d THEN 1 ELSE 0)
    <3>1. /\ h \in [S \cup {null} -> Nat] /\ h[null] = 0
          /\ \A z \in S, e \in Sides :
                h[z] = Black(t, z) + h[t.child[e][z]] + Lack(Place(p, d), z, e)
      BY <2>2 DEF Heights
    <3>2. \A z, e : Lack(Place(p, d), z, e) = (IF z = p /\ e = d THEN 1 ELSE 0)
      BY LackIs
    <3> QED BY <3>1, <3>2
  <2>9. /\ Black(t, w) = 0 /\ Black(t, p) = 1 /\ Black(t2, w) = 1 /\ Black(t2, p) = 0
        /\ \A z \in S \ {w, p} : Black(t2, z) = Black(t, z)
    <3>1. t.color[p] # "red"
      BY <1>1, <2>0 DEF Reds
    <3> QED BY <3>1, <1>1, <1>2, <2>0, <2>5 DEF Black
  <2>10. h[x] \in Nat /\ h[p] \in Nat /\ h[w] \in Nat /\ h[i] \in Nat /\ h[t.child[o][w]] \in Nat
    BY <1>1, <1>2, <2>7, <2>8
  <2>11. h[w] = h[i] /\ h[w] = h[t.child[o][w]] /\ h[p] = 1 + h[w] /\ h[w] = h[x] + 1
    BY <1>1, <2>2, <2>8, <2>9, <2>10
  <2>12. HeightsFit(t2, S, p, d, h, h[w], Place(p, d))
    <3>1. t2.child[Other(d)][p] = w /\ t2.child = t.child /\ Other(d) = o
      BY <1>1, <2>4 DEF o
    <3>2. \A z \in S \ {p, w}, e \in Sides :
             h[z] = Black(t2, z) + h[t2.child[e][z]] + Lack(Place(p, d), z, e)
      <4>1. \A z \in S, e \in Sides : h[z] = Black(t, z) + h[t.child[e][z]] + Lack(Place(p, d), z, e)
        BY <2>2 DEF Heights
      <4> QED BY <4>1, <2>9, <2>4
    <3> HIDE DEF i
    <3>3. /\ Lack(Place(p, d), p, d) = 1 /\ Lack(Place(p, d), p, o) = 0
          /\ Lack(Place(p, d), w, d) = 0 /\ Lack(Place(p, d), w, o) = 0
      BY <1>1, LackIs
    <3> QED BY <3>1, <3>2, <3>3, <2>8, <2>9, <2>10, <2>11, <1>1 DEF HeightsFit, i
  <2>13. \E k : Heights(r, S, k, Place(p, d))
    <3>1. Tree(t2, S) /\ t2.child[Other(d)][p] # null
      BY <1>1, <2>4 DEF Standing, o
    <3> QED BY <3>1, <2>12, <1>1, RotateHeights DEF r
  \* The place of x
  <2>14. i # null /\ i # x
    <3>1. i # null
      <4> HIDE DEF i
      <4>1. h[i] # h[null]
        BY <2>8, <2>10, <2>11
      <4> QED BY <4>1
    <3>2. t.child[d][w] = i
      OBVIOUS
    <3> HIDE DEF i
    <3> QED BY <3>1, <3>2, <1>1, StandingFacts
  <2>15. r.parent[x] = p
    BY <1>2, <2>7, <2>14
  <2>16. SideOf(r, x) = d
    <3>1. r.child[d][r.parent[x]] = x /\ r.child[Other(d)][r.parent[x]] # x
      BY <2>7, <2>14, <2>15 DEF o
    <3> QED BY <3>1, <1>1, SideIs
  <2>17. Sibling(r, x) = i /\ ShortAt(r, x) = Place(p, d) /\ x # r.root
    <3>1. x # r.root
      BY <1>1, <2>7
    <3> QED BY <3>1, <2>7, <2>15, <2>16 DEF Sibling, ShortAt, o
  \* The colours
  <2>18. r.color[x] = "black" /\ r.color[r.root] = "black" /\ r.color[i] = "black"
    <3>1. i \in S /\ t.color[i] # "red"
      <4>1. i \in S
        BY <2>7, <2>14
      <4> QED BY <4>1, <1>1, <2>0 DEF Reds
    <3> HIDE DEF i
    <3> QED BY <3>1, <1>1, <1>2, <2>5, <2>7
  <2>19. Reds(r, S, {})
    <3> SUFFICES ASSUME NEW z \in S, NEW e \in Sides, r.color[z] = "red", r.color[r.child[e][z]] = "red"
                 PROVE  FALSE
      BY DEF Reds
    <3>1. CASE z = p
      BY <3>1, <1>1, <2>7, <2>18
    <3>2. CASE z = w
      BY <3>2, <1>1, <1>2, <2>5, <2>7
    <3>3. CASE z \notin {p, w}
      <4>1. r.child[e][z] # w
        BY <1>1, <1>2, <2>5, <2>7
      <4>2. r.child[e][z] = t.child[e][z] /\ t.child[e][z] \in Objects \ {p, w}
        BY <4>1, <3>3, <1>1, <2>7, StandingFacts DEF Objects
      <4>3. t.color[z] = "red" /\ t.color[t.child[e][z]] = "red"
        BY <4>2, <3>3, <1>2, <2>5, <2>7
      <4> QED BY <4>3, <1>1 DEF Reds
    <3> QED BY <3>1, <3>2, <3>3
  <2>20. DeleteLoop(r, S, sz, x)
    BY <1>1, <1>2, <2>6, <2>7, <2>13, <2>15, <2>16, <2>17, <2>18, <2>19 DEF DeleteLoop, Reds
  <2> QED BY <2>1, <2>15, <2>17, <2>18, <2>20, <1>2
<1> QED BY <1>3, <1>4


\* The sibling and its children have places of their own.
LEMMA SiblingPlaces ==
    ASSUME NEW t, NEW S, NEW sz, NEW x, DeleteLoop(t, S, sz, x), x # t.root, t.color[x] = "black"
    PROVE  /\ Near(t, x) \in S \cup {null} /\ Far(t, x) \in S \cup {null}
           /\ {Near(t, x), Far(t, x)} \cap {t.parent[x], Sibling(t, x)} = {}
<1> DEFINE p == t.parent[x]
           d == SideOf(t, x)
           w == Sibling(t, x)
<1>1. Standing(t, S, sz) /\ p \in S /\ d \in Sides /\ t.child[Other(d)][p] = w /\ w # null
  BY AboveShort
<1>2. Near(t, x) = t.child[d][w] /\ Far(t, x) = t.child[Other(d)][w]
  BY DEF Near, Far
<1> HIDE DEF p, d, w
<1>3. Turns(t, Rotate(t, p, d), S, p, d, w)
  BY <1>1, RotateShape DEF Standing
<1> QED BY <1>2, <1>3, ZenonT(40) DEF Turns, p, w

\* A sibling with two black children turns red: the ways through the parent are
\* short now, and the loop goes on with it.
LEMMA LoweredKeeps ==
    ASSUME NEW t, NEW S, NEW sz, NEW x, DeleteLoop(t, S, sz, x), x # t.root, t.color[x] = "black",
           t.color[Sibling(t, x)] = "black", t.color[Near(t, x)] = "black", t.color[Far(t, x)] = "black"
    PROVE  DeleteLoop(Lowered(t, x), S, sz, t.parent[x])
<1> DEFINE p == t.parent[x]
           d == SideOf(t, x)
           o == Other(d)
           w == Sibling(t, x)
           q == t.parent[p]
           f == SideOf(t, p)
           r == Paint(t, w, "red")
<1>1. /\ Standing(t, S, sz) /\ p \in S /\ d \in Sides /\ o \in Sides /\ o # d
      /\ \A e \in Sides : e = d \/ e = o
      /\ t.child[d][p] = x /\ t.child[o][p] = w
      /\ w \in S /\ w # null /\ w # p /\ x \notin {p, w} /\ w # t.root
      /\ Reds(t, S, {}) /\ t.color[w] = "black"
      /\ \E h : Heights(t, S, h, Place(p, d)) /\ h[w] = h[x] + 1
  BY AboveShort
<1>2. /\ S \subseteq Objects /\ null \in Objects \ S /\ t.color[t.root] = "black" /\ x \in S \cup {null}
      /\ \A z \in S, e \in Sides : t.child[e][z] \in S \cup {null}
      /\ \A z \in S, e \in Sides : t.child[e][z] # null => t.child[e][z] # t.root
      /\ \A z \in S, y \in S, e \in Sides, g \in Sides :
            t.child[e][y] = t.child[g][z] /\ t.child[e][y] # null => y = z /\ e = g
      /\ p # t.root => q \in S /\ f \in Sides /\ t.child[f][q] = p
  BY <1>1, StandingFacts DEF DeleteLoop
<1>3. \A e \in Sides : t.child[e][w] \notin {p, w} /\ t.color[t.child[e][w]] = "black"
  <2>1. Near(t, x) = t.child[d][w] /\ Far(t, x) = t.child[o][w]
    BY DEF Near, Far
  <2> QED BY <2>1, <1>1, SiblingPlaces
<1>4. Lowered(t, x) = r
  BY DEF Lowered, Paint
<1> HIDE DEF p, d, o, w, q, f
<1>5. PICK h : Heights(t, S, h, Place(p, d)) /\ h[w] = h[x] + 1
  BY <1>1
<1>6. /\ Standing(r, S, sz) /\ r.root = t.root /\ r.child = t.child /\ r.parent = t.parent
      /\ \A z : SideOf(r, z) = SideOf(t, z)
      /\ \A z \in Objects : r.color[z] = IF z = w THEN "red" ELSE t.color[z]
  <2>1. Standing(t, S, sz) /\ w \in S
    BY <1>1
  <2> QED BY <2>1, PaintStands
<1> HIDE DEF r
<1>7. ASSUME NEW z \in S, NEW e \in Sides, r.color[z] = "red", r.color[r.child[e][z]] = "red"
      PROVE  p \in {z, r.child[e][z]}
  <2>1. t.child[e][z] \in Objects /\ z \in Objects /\ r.child[e][z] = t.child[e][z]
    BY <1>2, <1>6
  <2>2. CASE z = w
    BY <2>1, <2>2, <1>3, <1>6, <1>7
  <2>3. CASE z # w /\ t.child[e][z] = w
    BY <2>3, <1>1, <1>2
  <2>4. CASE z # w /\ t.child[e][z] # w
    BY <2>1, <2>4, <1>1, <1>6, <1>7 DEF Reds
  <2> QED BY <2>2, <2>3, <2>4
<1>8. ShortAt(r, p) = IF p = t.root THEN {} ELSE Place(q, f)
  BY <1>6 DEF ShortAt, q, f
<1>9. \E k : Heights(r, S, k, ShortAt(r, p))
  <2> DEFINE k == [h EXCEPT ![w] = h[w] - 1, ![p] = h[p] - 1]
  <2>1. /\ h \in [S \cup {null} -> Nat] /\ h[null] = 0
        /\ \A z \in S, e \in Sides :
              h[z] = Black(t, z) + h[t.child[e][z]] + (IF z = p /\ e = d THEN 1 ELSE 0)
    <3>1. /\ h \in [S \cup {null} -> Nat] /\ h[null] = 0
          /\ \A z \in S, e \in Sides :
                h[z] = Black(t, z) + h[t.child[e][z]] + Lack(Place(p, d), z, e)
      BY <1>5 DEF Heights
    <3>2. \A z, e : Lack(Place(p, d), z, e) = (IF z = p /\ e = d THEN 1 ELSE 0)
      BY LackIs
    <3> QED BY <3>1, <3>2
  <2>2. /\ Black(t, w) = 1 /\ Black(r, w) = 0
        /\ \A z \in S : Black(t, z) \in {0, 1} /\ (z # w => Black(r, z) = Black(t, z))
    BY <1>1, <1>2, <1>6 DEF Black
  <2>3. h[x] \in Nat /\ h[w] \in Nat /\ h[p] \in Nat /\ h[w] = h[x] + 1 /\ h[p] = Black(t, p) + h[w]
        /\ h[w] - 1 \in Nat /\ h[p] - 1 \in Nat
    BY <2>1, <2>2, <1>1, <1>2, <1>5
  <2>4. /\ k \in [S \cup {null} -> Nat] /\ k[null] = 0
        /\ k[w] = h[w] - 1 /\ k[p] = h[p] - 1
        /\ \A z \in S \cup {null} : z \notin {w, p} => k[z] = h[z]
    BY <2>1, <2>3, <1>1, <1>2
  <2> HIDE DEF k
  <2>5. ASSUME NEW z \in S, NEW e \in Sides
        PROVE  k[z] = Black(r, z) + k[t.child[e][z]] + Lack(ShortAt(r, p), z, e)
    <3> DEFINE y == t.child[e][z]
    <3> SUFFICES k[z] = Black(r, z) + k[y] + Lack(ShortAt(r, p), z, e)
      OBVIOUS
    <3>1. /\ h[z] \in Nat /\ h[y] \in Nat /\ y \in S \cup {null}
          /\ h[z] = Black(t, z) + h[y] + (IF z = p /\ e = d THEN 1 ELSE 0)
      BY <2>1, <1>2
    <3>2. Lack(ShortAt(r, p), z, e) = IF y = p THEN 1 ELSE 0
      <4>1. CASE p = t.root
        <5>1. y # p
          BY <4>1, <1>1, <1>2
        <5> QED BY <4>1, <5>1, <1>8, LackIs
      <4>2. CASE p # t.root
        <5>1. y = p <=> z = q /\ e = f
          BY <4>2, <1>1, <1>2
        <5>2. ShortAt(r, p) = Place(q, f)
          BY <4>2, <1>8
        <5>3. Lack(Place(q, f), z, e) = IF z = q /\ e = f THEN 1 ELSE 0
          BY LackIs
        <5> QED BY <5>1, <5>2, <5>3
      <4> QED BY <4>1, <4>2
    <3>3. /\ z = w => y \notin {p, w}
          /\ z = p => (e = d /\ y = x) \/ (e = o /\ y = w)
          /\ z \notin {p, w} => y # w
      BY <1>1, <1>2, <1>3
    <3> HIDE DEF y
    <3>4. CASE z = w
      BY <3>1, <3>2, <3>3, <3>4, <2>2, <2>3, <2>4, <1>1
    <3>5. CASE z = p /\ y = x
      <4>1. Black(r, p) = Black(t, p) /\ e = d
        BY <3>3, <3>5, <2>2, <1>1
      <4>2. k[y] = h[x] /\ Lack(ShortAt(r, p), z, e) = 0
        BY <3>1, <3>2, <3>5, <2>4, <1>1
      <4> QED BY <4>1, <4>2, <3>5, <2>2, <2>3, <2>4, <1>1
    <3>6. CASE z = p /\ y = w
      BY <3>2, <3>6, <2>2, <2>3, <2>4, <1>1
    <3>7. CASE z \notin {p, w}
      <4>1. k[z] = h[z] /\ Black(r, z) = Black(t, z) /\ Black(t, z) \in {0, 1} /\ h[z] = Black(t, z) + h[y]
        BY <3>1, <3>7, <2>2, <2>4
      <4>2. CASE y = p
        BY <4>1, <4>2, <3>1, <3>2, <2>3, <2>4
      <4>3. CASE y # p
        BY <4>1, <4>3, <3>1, <3>2, <3>3, <3>7, <2>4
      <4> QED BY <4>2, <4>3
    <3> QED BY <3>3, <3>4, <3>5, <3>6, <3>7
  <2>6. Heights(r, S, k, ShortAt(r, p))
    BY <2>4, <2>5, <1>6 DEF Heights
  <2> QED BY <2>6
<1>10. p # r.root => r.parent[p] \in S /\ r.child[SideOf(r, p)][r.parent[p]] = p
  BY <1>2, <1>6 DEF q, f
<1>11. r.color[r.root] = "black"
  BY <1>1, <1>2, <1>6, StandingFacts
<1>12. DeleteLoop(r, S, sz, p)
  BY <1>1, <1>6, <1>7, <1>9, <1>10, <1>11 DEF DeleteLoop
<1> QED BY <1>4, <1>12 DEF p


\* A black sibling with a red child: after a rotation, if it is needed, the far
\* child of the sibling is red, and the rest is as before.
LEMMA FarRedKeeps ==
    ASSUME NEW t, NEW S, NEW sz, NEW x, DeleteLoop(t, S, sz, x), x # t.root, t.color[x] = "black",
           t.color[Sibling(t, x)] = "black",
           t.color[Near(t, x)] = "red" \/ t.color[Far(t, x)] = "red"
    PROVE  LET r == FarRed(t, x)
           IN  /\ DeleteLoop(r, S, sz, x) /\ x # r.root /\ r.color[x] = "black"
               /\ r.color[Sibling(r, x)] = "black" /\ r.color[Far(r, x)] = "red"
<1> DEFINE p  == t.parent[x]
           d  == SideOf(t, x)
           o  == Other(d)
           w  == Sibling(t, x)
           n  == Near(t, x)
           f  == Far(t, x)
           i  == t.child[o][n]
           t1 == Paint(t, n, "black")
           t2 == Paint(t1, w, "red")
           r  == Rotate(t2, w, o)
<1>1. /\ Standing(t, S, sz) /\ p \in S /\ d \in Sides /\ o \in Sides /\ o # d /\ Other(o) = d
      /\ \A e \in Sides : e = d \/ e = o
      /\ t.child[d][p] = x /\ t.child[o][p] = w
      /\ w \in S /\ w # null /\ w # p /\ x \notin {p, w} /\ w # t.root
      /\ Reds(t, S, {}) /\ ShortAt(t, x) = Place(p, d)
      /\ \E h : Heights(t, S, h, Place(p, d)) /\ h[w] = h[x] + 1
  BY AboveShort
<1>2. /\ S \subseteq Objects /\ t.root \in S /\ null \in Objects \ S /\ t.color[t.root] = "black"
      /\ t.color \in [Objects -> {"red", "black"}] /\ t.parent[x] = p /\ x \in S \cup {null}
      /\ t.color[null] = "black" /\ t.color[x] = "black" /\ t.color[w] = "black"
  BY <1>1, StandingFacts DEF DeleteLoop
<1>3. /\ t.child[d][w] = n /\ t.child[o][w] = f /\ n \in S \cup {null} /\ f \in S \cup {null}
      /\ n \notin {p, w} /\ f \notin {p, w}
  BY SiblingPlaces DEF Near, Far
<1>4. CASE t.color[f] = "red"
  BY <1>1, <1>4 DEF FarRed
<1>5. CASE t.color[f] # "red"
  <2>0. t.color[n] = "red" /\ n \in S /\ t.color[f] = "black"
    BY <1>2, <1>3, <1>5
  <2>1. FarRed(t, x) = r
    BY <1>5 DEF FarRed, Paint
  <2> HIDE DEF p, d, o, w, n, f
  <2>2. PICK h : Heights(t, S, h, Place(p, d)) /\ h[w] = h[x] + 1
    BY <1>1
  <2>3. /\ Standing(t1, S, sz) /\ t1.root = t.root /\ t1.child = t.child /\ t1.parent = t.parent
        /\ \A z \in Objects : t1.color[z] = IF z = n THEN "black" ELSE t.color[z]
    BY <1>1, <2>0, PaintStands
  <2> HIDE DEF t1
  <2>4. /\ Standing(t2, S, sz) /\ t2.root = t.root /\ t2.child = t.child /\ t2.parent = t.parent
        /\ \A z \in Objects : t2.color[z] = IF z = w THEN "red" ELSE t1.color[z]
    BY <1>1, <2>3, PaintStands
  <2> HIDE DEF t2
  <2>5. \A z \in Objects :
           t2.color[z] = IF z = w THEN "red" ELSE IF z = n THEN "black" ELSE t.color[z]
    BY <2>3, <2>4
  <2> HIDE DEF r
  <2>6. Turns(t2, r, S, w, o, n) /\ Standing(r, S, sz)
    <3>1. Tree(t2, S) /\ t2.child[Other(o)][w] = n /\ n # null
      BY <1>1, <1>2, <1>3, <2>0, <2>4 DEF Standing
    <3> QED BY <3>1, <1>1, <2>4, RotateShape, RotateStands DEF r
  <2>7. /\ r.color = t2.color /\ r.root = t.root
        /\ {f, i, t.child[d][n]} \subseteq (S \cup {null}) \ {w, n}
        /\ r.child[o][w] = f /\ r.child[d][w] = i
        /\ r.child[o][n] = w /\ r.child[d][n] = t.child[d][n]
        /\ \A z \in Objects : z # w /\ z # n /\ (z = null \/ z # i) => r.parent[z] = t.parent[z]
        /\ \A z \in S \ {w, n}, e \in Sides :
              \/ t.child[e][z] = w /\ r.child[e][z] = n
              \/ t.child[e][z] \notin {w, n} /\ r.child[e][z] = t.child[e][z]
    BY <1>1, <1>3, <2>4, <2>6 DEF Turns
  \* The heights
  <2>8. /\ h \in [S \cup {null} -> Nat] /\ h[null] = 0
        /\ \A z \in S, e \in Sides :
              h[z] = Black(t, z) + h[t.child[e][z]] + (IF z = p /\ e = d THEN 1 ELSE 0)
    <3>1. /\ h \in [S \cup {null} -> Nat] /\ h[null] = 0
          /\ \A z \in S, e \in Sides :
                h[z] = Black(t, z) + h[t.child[e][z]] + Lack(Place(p, d), z, e)
      BY <2>2 DEF Heights
    <3>2. \A z, e : Lack(Place(p, d), z, e) = (IF z = p /\ e = d THEN 1 ELSE 0)
      BY LackIs
    <3> QED BY <3>1, <3>2
  <2>9. /\ Black(t, w) = 1 /\ Black(t, n) = 0 /\ Black(t2, w) = 0 /\ Black(t2, n) = 1
        /\ \A z \in S \ {w, n} : Black(t2, z) = Black(t, z)
    BY <1>1, <1>2, <1>3, <2>0, <2>5 DEF Black
  <2>10. h[w] \in Nat /\ h[n] \in Nat /\ h[f] \in Nat /\ h[i] \in Nat /\ h[t.child[d][n]] \in Nat
    BY <1>1, <1>3, <2>0, <2>7, <2>8
  <2>11. h[w] = 1 + h[f] /\ h[w] = 1 + h[n] /\ h[n] = h[i] /\ h[n] = h[t.child[d][n]]
    BY <1>1, <1>3, <2>0, <2>8, <2>9, <2>10
  <2>12. HeightsFit(t2, S, w, o, h, h[f], Place(p, d))
    <3>1. t2.child[Other(o)][w] = n /\ t2.child = t.child /\ Other(o) = d
      BY <1>1, <1>3, <2>4
    <3>2. \A z \in S \ {w, n}, e \in Sides :
             h[z] = Black(t2, z) + h[t2.child[e][z]] + Lack(Place(p, d), z, e)
      <4>1. \A z \in S, e \in Sides : h[z] = Black(t, z) + h[t.child[e][z]] + Lack(Place(p, d), z, e)
        BY <2>2 DEF Heights
      <4> QED BY <4>1, <2>9, <2>4
    <3> HIDE DEF i
    <3>3. /\ Lack(Place(p, d), w, d) = 0 /\ Lack(Place(p, d), w, o) = 0
          /\ Lack(Place(p, d), n, d) = 0 /\ Lack(Place(p, d), n, o) = 0
      BY <1>1, <1>3, LackIs
    <3> QED BY <3>1, <3>2, <3>3, <2>8, <2>9, <2>10, <2>11, <1>1, <1>3 DEF HeightsFit, i
  <2>13. \E k : Heights(r, S, k, Place(p, d))
    <3>1. Tree(t2, S) /\ t2.child[Other(o)][w] # null
      BY <1>1, <1>2, <1>3, <2>0, <2>4 DEF Standing
    <3> QED BY <3>1, <2>12, <1>1, RotateHeights DEF r
  \* The place of x
  <2>14. x = null \/ x # i
    <3>1. t.child[o][n] = i
      OBVIOUS
    <3> HIDE DEF i
    <3> QED BY <3>1, <1>1, <1>3, <2>0, StandingFacts
  <2>15. r.parent[x] = p /\ r.child[d][p] = x /\ r.child[o][p] = n
    BY <1>1, <1>2, <1>3, <2>0, <2>7, <2>14
  <2>16. SideOf(r, x) = d
    <3>1. r.child[d][r.parent[x]] = x /\ r.child[Other(d)][r.parent[x]] # x
      BY <1>2, <2>0, <2>15 DEF o
    <3> QED BY <3>1, <1>1, SideIs
  <2>17. Sibling(r, x) = n /\ Far(r, x) = w /\ ShortAt(r, x) = Place(p, d) /\ x # r.root
    <3>1. x # r.root
      BY <2>7
    <3>2. Sibling(r, x) = n
      BY <2>15, <2>16 DEF Sibling, o
    <3> QED BY <3>1, <3>2, <2>7, <2>15, <2>16 DEF Far, ShortAt, o
  \* The colours
  <2>18. r.color[x] = "black" /\ r.color[n] = "black" /\ r.color[w] = "red" /\ r.color[r.root] = "black"
    BY <1>1, <1>2, <1>3, <2>0, <2>5, <2>7
  <2>19. Reds(r, S, {})
    <3> SUFFICES ASSUME NEW z \in S, NEW e \in Sides, r.color[z] = "red", r.color[r.child[e][z]] = "red"
                 PROVE  FALSE
      BY DEF Reds
    <3>1. CASE z = w
      <4>1. t.color[i] # "red"
        BY <1>1, <2>0 DEF Reds
      <4>2. i \in Objects /\ f \in Objects
        BY <1>2, <2>7
      <4> HIDE DEF i
      <4> QED BY <3>1, <4>1, <4>2, <1>1, <2>0, <2>5, <2>7
    <3>2. CASE z = n
      BY <3>2, <2>18
    <3>3. CASE z \notin {w, n}
      <4>1. r.child[e][z] # n
        BY <2>18
      <4>2. r.child[e][z] = t.child[e][z] /\ t.child[e][z] \in Objects \ {w, n}
        BY <4>1, <3>3, <1>1, <2>7, StandingFacts DEF Objects
      <4>3. t.color[z] = "red" /\ t.color[t.child[e][z]] = "red"
        BY <4>2, <3>3, <1>2, <2>5, <2>7
      <4> QED BY <4>3, <1>1 DEF Reds
    <3> QED BY <3>1, <3>2, <3>3
  <2>20. DeleteLoop(r, S, sz, x)
    BY <1>1, <1>2, <2>6, <2>13, <2>15, <2>16, <2>17, <2>18, <2>19 DEF DeleteLoop, Reds
  <2> QED BY <2>1, <2>17, <2>18, <2>20
<1> QED BY <1>4, <1>5

\* The sibling comes up and gives a black node to both sides: the tree is a
\* red-black tree.
LEMMA RefilledMends ==
    ASSUME NEW t, NEW S, NEW sz, NEW x, DeleteLoop(t, S, sz, x), x # t.root, t.color[x] = "black",
           t.color[Sibling(t, x)] = "black", t.color[Far(t, x)] = "red"
    PROVE  RedBlackTree(Refilled(t, x), S, sz)
<1> DEFINE p  == t.parent[x]
           d  == SideOf(t, x)
           o  == Other(d)
           w  == Sibling(t, x)
           n  == Near(t, x)
           f  == Far(t, x)
           l  == t.color[p]
           t1 == Paint(t, w, l)
           t2 == Paint(t1, p, "black")
           t3 == Paint(t2, f, "black")
           r  == Rotate(t3, p, d)
<1>1. /\ Standing(t, S, sz) /\ p \in S /\ d \in Sides /\ o \in Sides /\ o # d /\ Other(o) = d
      /\ \A e \in Sides : e = d \/ e = o
      /\ t.child[d][p] = x /\ t.child[o][p] = w
      /\ w \in S /\ w # null /\ w # p /\ x \notin {p, w} /\ w # t.root
      /\ Reds(t, S, {})
      /\ \E h : Heights(t, S, h, Place(p, d)) /\ h[w] = h[x] + 1
  BY AboveShort
<1>2. /\ S \subseteq Objects /\ t.root \in S /\ null \in Objects \ S /\ t.color[t.root] = "black"
      /\ t.color \in [Objects -> {"red", "black"}] /\ x \in S \cup {null}
      /\ t.color[null] = "black" /\ t.color[x] = "black" /\ t.color[w] = "black"
      /\ \A z \in S, e \in Sides : t.child[e][z] \in S \cup {null}
      /\ \A z \in S, y \in S, e \in Sides, g \in Sides :
            t.child[e][y] = t.child[g][z] /\ t.child[e][y] # null => y = z /\ e = g
  BY <1>1, StandingFacts DEF DeleteLoop
<1>3. /\ t.child[d][w] = n /\ t.child[o][w] = f /\ n \in S \cup {null} /\ f \in S /\ f # null
      /\ n \notin {p, w} /\ f \notin {p, w} /\ t.color[f] = "red" /\ f # x
  <2>1. /\ t.child[d][w] = n /\ t.child[o][w] = f /\ n \in S \cup {null} /\ f \in S \cup {null}
        /\ n \notin {p, w} /\ f \notin {p, w}
    BY SiblingPlaces DEF Near, Far
  <2> QED BY <2>1, <1>2
<1>4. Refilled(t, x) = r
  BY DEF Refilled, Paint
<1>5. l \in {"red", "black"} /\ l = t.color[p]
  BY <1>1, <1>2
<1> HIDE DEF p, d, o, w, n, f, l
<1>6. PICK h : Heights(t, S, h, Place(p, d)) /\ h[w] = h[x] + 1
  BY <1>1
<1>7. /\ Standing(t1, S, sz) /\ t1.root = t.root /\ t1.child = t.child
      /\ \A z \in Objects : t1.color[z] = IF z = w THEN l ELSE t.color[z]
  <2>1. CASE l = "red"
    BY <2>1, <1>1, PaintStands
  <2>2. CASE l = "black"
    BY <2>2, <1>1, PaintStands
  <2> QED BY <2>1, <2>2, <1>5
<1> HIDE DEF t1
<1>8. /\ Standing(t2, S, sz) /\ t2.root = t.root /\ t2.child = t.child
      /\ \A z \in Objects : t2.color[z] = IF z = p THEN "black" ELSE t1.color[z]
  BY <1>1, <1>7, PaintStands
<1> HIDE DEF t2
<1>9. /\ Standing(t3, S, sz) /\ t3.root = t.root /\ t3.child = t.child
      /\ \A z \in Objects : t3.color[z] = IF z = f THEN "black" ELSE t2.color[z]
  BY <1>3, <1>8, PaintStands
<1> HIDE DEF t3
<1>10. \A z \in Objects :
          t3.color[z] = IF z = f \/ z = p THEN "black" ELSE IF z = w THEN l ELSE t.color[z]
  BY <1>7, <1>8, <1>9
<1> HIDE DEF r
<1>11. Turns(t3, r, S, p, d, w) /\ Standing(r, S, sz)
  <2>1. Tree(t3, S) /\ t3.child[Other(d)][p] = w
    BY <1>1, <1>9 DEF Standing, o
  <2> QED BY <2>1, <1>1, <1>9, RotateShape, RotateStands DEF r
<1>12. /\ r.color = t3.color /\ r.root = IF p = t.root THEN w ELSE t.root
       /\ r.child[d][p] = x /\ r.child[o][p] = n /\ r.child[d][w] = p /\ r.child[o][w] = f
       /\ \A z \in S \ {p, w}, e \in Sides :
             \/ t.child[e][z] = p /\ r.child[e][z] = w
             \/ t.child[e][z] \notin {p, w} /\ r.child[e][z] = t.child[e][z]
  BY <1>1, <1>3, <1>9, <1>11 DEF Turns, o
<1>13. \E k : Heights(r, S, k, {})
  <2> DEFINE g == [h EXCEPT ![f] = h[f] + 1]
  <2>1. /\ h \in [S \cup {null} -> Nat] /\ h[null] = 0
        /\ \A z \in S, e \in Sides :
              h[z] = Black(t, z) + h[t.child[e][z]] + (IF z = p /\ e = d THEN 1 ELSE 0)
    <3>1. /\ h \in [S \cup {null} -> Nat] /\ h[null] = 0
          /\ \A z \in S, e \in Sides :
                h[z] = Black(t, z) + h[t.child[e][z]] + Lack(Place(p, d), z, e)
      BY <1>6 DEF Heights
    <3>2. \A z, e : Lack(Place(p, d), z, e) = (IF z = p /\ e = d THEN 1 ELSE 0)
      BY LackIs
    <3> QED BY <3>1, <3>2
  <2>2. /\ Black(t, w) = 1 /\ Black(t, f) = 0 /\ Black(t3, f) = 1 /\ Black(t3, p) = 1
        /\ Black(t3, w) = Black(t, p) /\ Black(t, p) \in {0, 1}
        /\ \A z \in S \ {w, p, f} : Black(t3, z) = Black(t, z)
    BY <1>1, <1>2, <1>3, <1>5, <1>10 DEF Black
  <2>3. h[w] \in Nat /\ h[n] \in Nat /\ h[f] \in Nat /\ h[x] \in Nat /\ h[p] \in Nat
    BY <1>1, <1>2, <1>3, <2>1
  <2>4. /\ h[w] = h[x] + 1 /\ h[w] = 1 + h[n] /\ h[w] = 1 + h[f]
        /\ h[p] = Black(t, p) + h[w]
    BY <1>1, <1>3, <1>6, <2>1, <2>2, <2>3
  <2>6. n # f
    BY <1>1, <1>2, <1>3
  <2>7. /\ g \in [S \cup {null} -> Nat] /\ g[null] = 0 /\ g[f] = h[f] + 1
        /\ \A z \in S \cup {null} : z # f => g[z] = h[z]
    BY <1>2, <1>3, <2>1, <2>3
  <2> HIDE DEF g
  <2>8. g[x] = h[x] /\ g[n] = h[n] /\ g[p] = h[p] /\ g[w] = h[w]
    BY <1>1, <1>2, <1>3, <2>6, <2>7
  <2>9. ASSUME NEW z \in S \ {p, w}, NEW e \in Sides
        PROVE  g[z] = Black(t3, z) + g[t3.child[e][z]] + Lack({}, z, e)
    <3> DEFINE y == t.child[e][z]
    <3> SUFFICES g[z] = Black(t3, z) + g[y] + Lack({}, z, e)
      BY <1>9
    <3>1. y \in S \cup {null} /\ h[y] \in Nat /\ h[z] = Black(t, z) + h[y]
      <4>1. y \in S \cup {null}
        BY <1>2
      <4>2. h[z] = Black(t, z) + h[y] + 0
        BY <2>1
      <4> HIDE DEF y
      <4>3. h[y] \in Nat /\ Black(t, z) \in {0, 1}
        BY <4>1, <2>1 DEF Black
      <4> QED BY <4>1, <4>2, <4>3
    <3>2. y # f
      BY <1>1, <1>2, <1>3
    <3> HIDE DEF y
    <3>3. g[y] = h[y] /\ Lack({}, z, e) = 0
      BY <3>1, <3>2, <2>7, LackIs
    <3>4. CASE z = f
      BY <3>1, <3>3, <3>4, <2>2, <2>3, <2>7
    <3>5. CASE z # f
      <4>1. Black(t3, z) = Black(t, z) /\ g[z] = h[z] /\ Black(t, z) \in {0, 1}
        BY <3>5, <2>2, <2>7 DEF Black
      <4> QED BY <4>1, <3>1, <3>3
    <3> QED BY <3>4, <3>5
  <2>10. HeightsFit(t3, S, p, d, g, h[w], {})
    <3>1. t3.child[Other(d)][p] = w /\ t3.child = t.child /\ Other(d) = o
      BY <1>1, <1>9 DEF o
    <3>2. Lack({}, p, d) = 0 /\ Lack({}, p, o) = 0 /\ Lack({}, w, d) = 0 /\ Lack({}, w, o) = 0
      BY LackIs
    <3> QED BY <3>1, <3>2, <2>2, <2>3, <2>4, <2>7, <2>8, <2>9, <1>1, <1>3 DEF HeightsFit
  <2>11. Tree(t3, S) /\ t3.child[Other(d)][p] # null
    BY <1>1, <1>9 DEF Standing, o
  <2> QED BY <2>10, <2>11, <1>1, RotateHeights DEF r
<1>14. Reds(r, S, {})
  <2> SUFFICES ASSUME NEW z \in S, NEW e \in Sides, r.color[z] = "red", r.color[r.child[e][z]] = "red"
               PROVE  FALSE
    BY DEF Reds
  <2>1. r.color[p] = "black" /\ r.color[f] = "black" /\ r.color[w] = l
    BY <1>1, <1>2, <1>3, <1>10, <1>12
  <2>2. CASE z = w
    BY <2>1, <2>2, <1>1, <1>12
  <2>3. CASE z \notin {p, w}
    <3>1. t.color[z] = "red"
      BY <2>1, <2>3, <1>2, <1>10, <1>12
    <3>2. CASE t.child[e][z] = p /\ r.child[e][z] = w
      BY <3>1, <3>2, <2>1, <1>1, <1>5 DEF Reds
    <3>3. CASE t.child[e][z] \notin {p, w} /\ r.child[e][z] = t.child[e][z]
      <4>1. t.color[t.child[e][z]] = "red"
        BY <3>3, <2>1, <1>2, <1>10, <1>12
      <4> QED BY <3>1, <4>1, <1>1 DEF Reds
    <3> QED BY <2>3, <3>2, <3>3, <1>12
  <2> QED BY <2>1, <2>2, <2>3
<1>15. r.color[r.root] = "black"
  BY <1>1, <1>2, <1>3, <1>5, <1>10, <1>12
<1> QED BY <1>4, <1>11, <1>13, <1>14, <1>15 DEF RedBlackTree


\* One pass of rbtree_delete_fixup, and its end: at the root or at a red x, the
\* loop ends with a red-black tree once x is black; a pass either sends it one
\* level up or leaves a red-black tree.
THEOREM DeleteFixupPass ==
    ASSUME NEW t, NEW S, NEW sz, NEW x, DeleteLoop(t, S, sz, x)
    PROVE  LET u == SiblingUp(t, x)
           IN  IF x = t.root \/ t.color[x] = "red"
               THEN RedBlackTree([t EXCEPT !.color[x] = "black"], S, sz)
               ELSE IF u.color[Near(u, x)] = "black" /\ u.color[Far(u, x)] = "black"
               THEN DeleteLoop(Lowered(u, x), S, sz, t.parent[x])
               ELSE RedBlackTree(Refilled(FarRed(u, x), x), S, sz)
<1>1. ASSUME x = t.root \/ t.color[x] = "red"
      PROVE  RedBlackTree([t EXCEPT !.color[x] = "black"], S, sz)
  <2> DEFINE r == Paint(t, x, "black")
             sh == ShortAt(t, x)
  <2>0. PICK h : Heights(t, S, h, sh)
    BY DEF DeleteLoop
  <2>1. /\ Standing(t, S, sz) /\ t.root \in S /\ S \subseteq Objects /\ null \in Objects \ S
        /\ t.color \in [Objects -> {"red", "black"}] /\ x \in S /\ t.color[null] = "black"
        /\ t.color[t.root] = "black"
        /\ \A z \in S, e \in Sides : t.child[e][z] \in S \cup {null}
        /\ \A z \in S, e \in Sides :
              t.child[e][z] # null => t.parent[t.child[e][z]] = z /\ t.child[e][z] # t.root
        /\ \A z \in S, y \in S, e \in Sides, g \in Sides :
              t.child[e][y] = t.child[g][z] /\ t.child[e][y] # null => y = z /\ e = g
        /\ x # t.root => t.parent[x] \in S /\ SideOf(t, x) \in Sides /\ t.child[SideOf(t, x)][t.parent[x]] = x
    BY <1>1, StandingFacts DEF DeleteLoop
  <2>2. /\ Standing(r, S, sz) /\ r.root = t.root /\ r.child = t.child
        /\ \A z \in Objects : r.color[z] = IF z = x THEN "black" ELSE t.color[z]
    <3>1. Standing(t, S, sz) /\ x \in S
      BY <2>1
    <3> QED BY <3>1, PaintStands
  <2> HIDE DEF r
  <2>3. Reds(r, S, {})
    <3> SUFFICES ASSUME NEW z \in S, NEW e \in Sides, r.color[z] = "red", r.color[t.child[e][z]] = "red"
                 PROVE  FALSE
      BY <2>2 DEF Reds
    <3>1. t.color[z] = "red" /\ t.color[t.child[e][z]] = "red" /\ z # x /\ t.child[e][z] # x
      <4>1. z \in Objects /\ t.child[e][z] \in Objects
        BY <2>1
      <4> QED BY <4>1, <2>2
    <3>2. x \in {z, t.child[e][z]}
      BY <3>1 DEF DeleteLoop
    <3> QED BY <3>1, <3>2
  <2>4. \E k : Heights(r, S, k, {})
    <3>1. CASE x = t.root
      <4>1. sh = {}
        BY <3>1 DEF ShortAt
      <4>2. \A z \in S : Black(r, z) = Black(t, z)
        BY <3>1, <2>1, <2>2 DEF Black
      <4> HIDE DEF sh
      <4>3. Heights(r, S, h, {})
        BY <4>1, <4>2, <2>0, <2>2 DEF Heights
      <4> QED BY <4>3
    <3>2. CASE x # t.root
      <4> DEFINE q == t.parent[x]
                 f == SideOf(t, x)
                 k == [h EXCEPT ![x] = h[x] + 1]
      <4>1. q \in S /\ f \in Sides /\ t.child[f][q] = x /\ sh = Place(q, f)
        BY <3>2, <2>1 DEF ShortAt
      <4> HIDE DEF q, f, sh
      <4>2. \A z, e : Lack(Place(q, f), z, e) = (IF z = q /\ e = f THEN 1 ELSE 0)
        BY LackIs
      <4>3. /\ h \in [S \cup {null} -> Nat] /\ h[null] = 0
            /\ \A z \in S, e \in Sides :
                  h[z] = Black(t, z) + h[t.child[e][z]] + Lack(Place(q, f), z, e)
        BY <4>1, <2>0 DEF Heights
      <4>4. /\ k \in [S \cup {null} -> Nat] /\ k[null] = 0 /\ k[x] = h[x] + 1 /\ h[x] \in Nat
            /\ \A z \in S \cup {null} : z # x => k[z] = h[z]
        BY <4>3, <2>1
      <4> HIDE DEF k
      <4>5. /\ \A z \in S : Black(t, z) \in {0, 1} /\ (z # x => Black(r, z) = Black(t, z))
            /\ Black(t, x) = 0 /\ Black(r, x) = 1
        BY <3>2, <1>1, <2>1, <2>2 DEF Black
      <4>6. ASSUME NEW z \in S, NEW e \in Sides
            PROVE  k[z] = Black(r, z) + k[r.child[e][z]] + Lack({}, z, e)
        <5> DEFINE y == t.child[e][z]
        <5> SUFFICES k[z] = Black(r, z) + k[y] + Lack({}, z, e)
          BY <2>2
        <5>1. y \in S \cup {null} /\ (y = x <=> z = q /\ e = f)
          BY <4>1, <2>1
        <5>2. h[z] = Black(t, z) + h[y] + (IF y = x THEN 1 ELSE 0)
          <6>1. h[z] = Black(t, z) + h[y] + Lack(Place(q, f), z, e)
            BY <4>3
          <6> HIDE DEF y
          <6> QED BY <6>1, <5>1, <4>2
        <5>3. z # q \/ z # x
          <6>1. PICK U : Linked(t, S) /\ Under(t, S, U)
            BY <2>1 DEF Standing, Tree
          <6>2. x \in U[x] /\ \A v \in U[x] : v # q
            BY <6>1, <4>1, <2>1, UnderFacts
          <6> QED BY <6>2
        <5> HIDE DEF y
        <5>4. Lack({}, z, e) = 0 /\ h[y] \in Nat /\ h[z] \in Nat
          BY <5>1, <4>3, LackIs
        <5>5. CASE y = x
          BY <5>1, <5>2, <5>3, <5>4, <5>5, <4>4, <4>5
        <5>6. CASE y # x /\ z = x
          BY <5>1, <5>2, <5>4, <5>6, <4>4, <4>5
        <5>7. CASE y # x /\ z # x
          <6>1. k[y] = h[y] /\ k[z] = h[z] /\ Black(r, z) = Black(t, z) /\ Black(t, z) \in {0, 1}
            BY <5>1, <5>7, <4>4, <4>5
          <6> QED BY <6>1, <5>2, <5>4, <5>7
        <5> QED BY <5>5, <5>6, <5>7
      <4>7. Heights(r, S, k, {})
        BY <4>4, <4>6 DEF Heights
      <4> QED BY <4>7
    <3> QED BY <3>1, <3>2
  <2>5. r.color[r.root] = "black"
    BY <2>1, <2>2
  <2>6. RedBlackTree(r, S, sz)
    BY <2>2, <2>3, <2>4, <2>5 DEF RedBlackTree
  <2> QED BY <2>6 DEF r, Paint
<1>2. ASSUME ~(x = t.root \/ t.color[x] = "red")
      PROVE  LET u == SiblingUp(t, x)
             IN  IF u.color[Near(u, x)] = "black" /\ u.color[Far(u, x)] = "black"
                 THEN DeleteLoop(Lowered(u, x), S, sz, t.parent[x])
                 ELSE RedBlackTree(Refilled(FarRed(u, x), x), S, sz)
  <2> DEFINE u == SiblingUp(t, x)
             v == FarRed(u, x)
  <2>0. t.color[x] = "black"
    <3>1. t.color \in [Objects -> {"red", "black"}] /\ x \in Objects
      BY StandingFacts DEF DeleteLoop, Objects
    <3> QED BY <3>1, <1>2
  <2>1. /\ DeleteLoop(u, S, sz, x) /\ x # u.root /\ u.color[x] = "black"
        /\ u.color[Sibling(u, x)] = "black" /\ u.parent[x] = t.parent[x]
    BY <1>2, <2>0, SiblingUpKeeps
  <2> HIDE DEF u
  <2>2. CASE u.color[Near(u, x)] = "black" /\ u.color[Far(u, x)] = "black"
    <3>1. DeleteLoop(Lowered(u, x), S, sz, u.parent[x])
      BY <2>1, <2>2, LoweredKeeps
    <3> QED BY <3>1, <2>1, <2>2 DEF u
  <2>3. CASE ~(u.color[Near(u, x)] = "black" /\ u.color[Far(u, x)] = "black")
    <3>1. u.color[Near(u, x)] = "red" \/ u.color[Far(u, x)] = "red"
      <4>1. u.color \in [Objects -> {"red", "black"}] /\ S \cup {null} \subseteq Objects
        BY <2>1, StandingFacts DEF DeleteLoop, Objects
      <4>2. Near(u, x) \in S \cup {null} /\ Far(u, x) \in S \cup {null}
        BY <2>1, SiblingPlaces
      <4> QED BY <4>1, <4>2, <2>3
    <3>2. /\ DeleteLoop(v, S, sz, x) /\ x # v.root /\ v.color[x] = "black"
          /\ v.color[Sibling(v, x)] = "black" /\ v.color[Far(v, x)] = "red"
      BY <3>1, <2>1, FarRedKeeps
    <3> HIDE DEF v
    <3>3. RedBlackTree(Refilled(v, x), S, sz)
      BY <3>2, RefilledMends
    <3> QED BY <3>3, <2>3 DEF u, v
  <2> QED BY <2>2, <2>3 DEF u, v
<1> QED BY <1>1, <1>2

=============================================================================
