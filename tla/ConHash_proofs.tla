---------------------------- MODULE ConHash_proofs ----------------------------
(***************************************************************************)
(* What holds of ConHash for all nodes, counts of virtual nodes, digests   *)
(* and widths of int and long.                                             *)
(***************************************************************************)
EXTENDS ConHash, FiniteSetTheorems, WellFoundedInduction, TLAPS

\* Whatever the width, a signed value is an integer, and of that many values.
LEMMA SignedInt ==
    ASSUME NEW span \in Nat \ {0}, NEW x \in Int
    PROVE  /\ Signed(x, span) \in Int
           /\ Signed(x, span) \in {Signed(y, span) : y \in 0..(span - 1)}
<1>1. x % span \in 0..(span - 1)
  OBVIOUS
<1>2. (x % span) % span = x % span
  BY <1>1
<1>3. Signed(x % span, span) = Signed(x, span)
  BY <1>2 DEF Signed
<1>4. QED
  BY <1>1, <1>3 DEF Signed

\* Among integers above a bound one is the least: the loop of lookupNode_s
\* stops at a virtual node whenever there is one to stop at.
LEMMA LeastExists ==
    ASSUME NEW R, \A v \in R : v.hash \in Int, NEW k \in Int, NEW w \in R, k < w.hash
    PROVE  \E v \in R : k < v.hash /\ \A u \in R : k < u.hash => v.hash <= u.hash
<1> DEFINE D == {x \in Nat : \E v \in R : k < v.hash /\ x = v.hash - k}
<1>1. w.hash - k \in D
  OBVIOUS
<1>2. PICK x \in D : \A y \in D : ~ (<<y, x>> \in OpToRel(<, Nat))
  BY <1>1, NatLessThanWellFounded, WFMin
<1>3. \A y \in D : ~ (y < x)
  BY <1>2 DEF OpToRel
<1>4. PICK v \in R : k < v.hash /\ x = v.hash - k
  OBVIOUS
<1>5. ASSUME NEW u \in R, k < u.hash PROVE v.hash <= u.hash
  <2>1. u.hash - k \in D /\ u.hash \in Int /\ v.hash \in Int
    BY <1>5
  <2>2. QED
    BY <2>1, <1>3, <1>4
<1>6. QED
  BY <1>4, <1>5

-----------------------------------------------------------------------------
HashType ==
    /\ digest \in [Strings -> 0..DigestMax]
    /\ mVirtualNodeSet \subseteq [hash : Longs, node : Node]
    /\ IsFiniteSet(mVirtualNodeSet)

HashInv == HashType /\ CountIsSize /\ members \subseteq Node /\ Complete

\* Every hash value is one a long can hold.
LEMMA HashLong ==
    ASSUME digest \in [Strings -> 0..DigestMax], NEW str \in Strings
    PROVE  getHashVal(str) \in Longs /\ getHashVal(str) \in Int
<1>1. digest[str] \in Int /\ LongSpan \in Nat \ {0}
  BY ConHashAssumption
<1>2. QED
  BY <1>1, SignedInt DEF getHashVal, Longs

\* Longs are integers.
LEMMA LongInt == \A h \in Longs : h \in Int
<1> SUFFICES ASSUME NEW x \in 0..(LongSpan - 1) PROVE Signed(x, LongSpan) \in Int
  BY DEF Longs
<1>1. LongSpan \in Nat \ {0} /\ x \in Int
  BY ConHashAssumption
<1>2. QED
  BY <1>1, SignedInt

\* A node has finitely many hash values, all of them longs.
LEMMA HashesFinite ==
    ASSUME digest \in [Strings -> 0..DigestMax], NEW n \in Node
    PROVE  IsFiniteSet(Hashes(n)) /\ Hashes(n) \subseteq Longs
<1> DEFINE I == 0..(VNodeCount[n] - 1)
<1> DEFINE f == [i \in I |-> getHashVal(<<n, i>>)]
<1>1. IsFiniteSet(I)
  BY ConHashAssumption, FS_Interval
<1>2. f \in Surjection(I, Hashes(n))
  BY DEF Surjection, Hashes
<1>3. IsFiniteSet(Hashes(n))
  BY <1>1, <1>2, FS_Surjection
<1>4. \A i \in I : <<n, i>> \in Strings
  BY DEF Strings, VNames
<1>5. QED
  BY <1>3, <1>4, HashLong DEF Hashes

\* The virtual nodes addNode_s inserts are as many as it counts.
LEMMA NewVNodes ==
    ASSUME NEW n, NEW F, IsFiniteSet(F)
    PROVE  LET S == {[hash |-> h, node |-> n] : h \in F}
           IN  IsFiniteSet(S) /\ Cardinality(S) = Cardinality(F)
<1> DEFINE S == {[hash |-> h, node |-> n] : h \in F}
<1> DEFINE f == [h \in F |-> [hash |-> h, node |-> n]]
<1>1. f \in Surjection(F, S)
  BY DEF Surjection
<1>2. f \in Injection(F, S)
  <2>1. \A g, h \in F : f[g] = f[h] => g = h
    <3> SUFFICES ASSUME NEW g \in F, NEW h \in F, f[g] = f[h] PROVE g = h
      OBVIOUS
    <3>1. f[g].hash = g /\ f[h].hash = h
      OBVIOUS
    <3>2. QED
      BY <3>1
  <2>2. QED
    BY <2>1 DEF Injection, IsInjective
<1>3. QED
  BY <1>1, <1>2, FS_Surjection

\* An empty hash, with nothing counted.
LEMMA HashInit == Init => HashInv
BY FS_EmptySet DEF Init, HashInv, HashType, CountIsSize, Complete

\* addNode_s counts what it inserts, inserts at free hash values only and
\* leaves none of the node's out.
LEMMA AddKeeps == ASSUME HashInv, NEW n \in Node, addNode_s(n) PROVE HashInv'
<1> DEFINE S == {[hash |-> h, node |-> n] : h \in Fresh(n)}
<1>1. IsFiniteSet(Fresh(n)) /\ Fresh(n) \subseteq Longs /\ Fresh(n) \cap RingHashes = {}
  BY HashesFinite, FS_Difference DEF HashInv, HashType, Fresh
<1>2. IsFiniteSet(S) /\ Cardinality(S) = Cardinality(Fresh(n))
  BY <1>1, NewVNodes
<1>3. mVirtualNodeSet' = mVirtualNodeSet \cup S /\ digest' = digest /\ members' = members \cup {n}
  BY DEF addNode_s
<1>4. mVirtualNodeSet \cap S = {}
  BY <1>1 DEF RingHashes
<1>5. HashType'
  <2>1. IsFiniteSet(mVirtualNodeSet')
    BY <1>2, <1>3, FS_Union DEF HashInv, HashType
  <2>2. S \subseteq [hash : Longs, node : Node]
    BY <1>1
  <2> HIDE DEF S
  <2>3. QED
    BY <1>3, <2>1, <2>2 DEF HashInv, HashType
<1>6. vNodes' = Cardinality(mVirtualNodeSet')
  <2>1. Cardinality(mVirtualNodeSet') =
            Cardinality(mVirtualNodeSet) + Cardinality(S) - Cardinality({})
    BY <1>2, <1>3, <1>4, FS_Union DEF HashInv, HashType
  <2>2. Cardinality(mVirtualNodeSet) \in Nat /\ Cardinality(S) \in Nat /\ Cardinality({}) = 0
    BY <1>2, FS_CardinalityType, FS_EmptySet DEF HashInv, HashType
  <2>3. vNodes' = vNodes + Cardinality(S) /\ vNodes = Cardinality(mVirtualNodeSet)
    BY <1>2 DEF addNode_s, HashInv, CountIsSize
  <2>4. QED
    BY <2>1, <2>2, <2>3
<1>7. \A u, v \in mVirtualNodeSet' : u.hash = v.hash => u = v
  <2>1. \A v \in S : v.hash \in Fresh(n) /\ v = [hash |-> v.hash, node |-> n]
    OBVIOUS
  <2>2. \A v \in mVirtualNodeSet : v.hash \in RingHashes
    BY DEF RingHashes
  <2>3. QED
    BY <1>1, <1>3, <2>1, <2>2 DEF HashInv, CountIsSize
<1>8. Complete'
  <2>1. RingHashes \subseteq RingHashes' /\ Fresh(n) \subseteq RingHashes'
    <3>1. ASSUME NEW h \in Fresh(n) PROVE h \in RingHashes'
      <4>1. [hash |-> h, node |-> n] \in mVirtualNodeSet'
        BY <1>3, <3>1
      <4>2. QED
        BY <4>1 DEF RingHashes
    <3>2. QED
      BY <1>3, <3>1 DEF RingHashes
  <2>2. \A m \in members' : Hashes(m)' = Hashes(m)
    BY <1>3 DEF Hashes, getHashVal
  <2>3. QED
    BY <1>3, <2>1, <2>2 DEF HashInv, Complete, Fresh
<1>9. QED
  BY <1>3, <1>5, <1>6, <1>7, <1>8 DEF HashInv, CountIsSize

\* delNode_s finds nothing to delete.
LEMMA DelNothing == ASSUME HashInv, NEW n, delNode_s(n) PROVE vNodes' = vNodes
<1>1. Hashes(n) \cap vnode_tree = {}
  BY DEF vnode_tree
<1>2. vNodes \in Nat
  BY FS_CardinalityType DEF HashInv, HashType, CountIsSize
<1>3. QED
  BY <1>1, <1>2, FS_EmptySet DEF delNode_s

\* Every step keeps the invariant.
LEMMA HashStep == HashInv /\ [Next]_vars => HashInv'
<1> SUFFICES ASSUME HashInv, [Next]_vars PROVE HashInv'
  OBVIOUS
<1>1. ASSUME UNCHANGED <<digest, mVirtualNodeSet, vNodes>>, members' \subseteq members
      PROVE  HashInv'
  <2>1. HashType' /\ CountIsSize' /\ members' \subseteq Node
    BY <1>1 DEF HashInv, HashType, CountIsSize
  <2>2. RingHashes' = RingHashes /\ \A m \in Node : Hashes(m)' = Hashes(m)
    BY <1>1 DEF RingHashes, Hashes, getHashVal
  <2>3. Complete'
    BY <1>1, <2>1, <2>2 DEF HashInv, Complete
  <2>4. QED
    BY <2>1, <2>3 DEF HashInv
<1>2. ASSUME NEW n \in Node, delNode_s(n) PROVE HashInv'
  BY <1>1, <1>2, DelNothing DEF delNode_s
<1>3. CASE UNCHANGED vars
  BY <1>1, <1>3 DEF vars
<1>4. QED
  BY <1>2, <1>3, AddKeeps DEF Next

\* The invariant holds throughout.
LEMMA HashAlways == Spec => []HashInv
BY HashInit, HashStep, PTL DEF Spec

\* Hash values are values of a long and vNodes a number (TypeOK), however
\* digests add up.
THEOREM TypeCorrect == Spec => []TypeOK
<1>1. HashInv => TypeOK
  BY FS_CardinalityType DEF HashInv, HashType, CountIsSize, TypeOK
<1>2. QED
  BY <1>1, HashAlways, PTL

\* One virtual node per hash value, and all of them counted (CountIsSize).
THEOREM CountCorrect == Spec => []CountIsSize
<1>1. HashInv => CountIsSize
  BY DEF HashInv
<1>2. QED
  BY <1>1, HashAlways, PTL

\* All hash values of every node that was added are on the ring (Complete).
THEOREM NothingMissing == Spec => []Complete
<1>1. HashInv => Complete
  BY DEF HashInv
<1>2. QED
  BY <1>1, HashAlways, PTL

-----------------------------------------------------------------------------
\* What an object gets is what it had or the node of a new virtual node.
Moves == \A o \in Object : lookupNode_s(o)' # lookupNode_s(o) =>
            lookupNode_s(o)' \in {v.node : v \in mVirtualNodeSet' \ mVirtualNodeSet}

\* What adding a node changes is changed to that node.
MovesToAdded ==
    \A o \in Object, n \in Node :
        addNode_s(n) /\ lookupNode_s(o)' # lookupNode_s(o) => lookupNode_s(o)' = n

\* A virtual node that is the least above a key is the only one.
LEMMA NodeAfterIs ==
    HashInv => \A k \in Int : \A m \in After(k) :
                  (\A u \in After(k) : m.hash <= u.hash) => NodeAfter(k) = m.node
<1> SUFFICES ASSUME HashInv, NEW k \in Int, NEW m \in After(k),
                    \A u \in After(k) : m.hash <= u.hash
             PROVE  NodeAfter(k) = m.node
  OBVIOUS
<1> DEFINE c == CHOOSE v \in After(k) : \A u \in After(k) : v.hash <= u.hash
<1>1. c \in After(k) /\ \A u \in After(k) : c.hash <= u.hash
  OBVIOUS
<1>2. \A v \in mVirtualNodeSet : v.hash \in Int
  BY LongInt DEF HashInv, HashType
<1>3. c \in mVirtualNodeSet /\ m \in mVirtualNodeSet
  BY <1>1 DEF After
<1>4. c.hash = m.hash
  BY <1>1, <1>2, <1>3
<1>5. c = m
  BY <1>3, <1>4 DEF HashInv, CountIsSize
<1>6. QED
  BY <1>5 DEF NodeAfter

\* vNodes is zero exactly when there are no virtual nodes, so the test for it
\* in lookupNode_s decides nothing the search would not.
LEMMA LookupIsSearch == HashInv => \A o \in Object : lookupNode_s(o) = NodeAfter(Key(o))
<1> SUFFICES ASSUME HashInv, NEW o \in Object PROVE lookupNode_s(o) = NodeAfter(Key(o))
  OBVIOUS
<1>1. vNodes = 0 => mVirtualNodeSet = {}
  BY FS_EmptySet DEF HashInv, HashType, CountIsSize
<1>2. vNodes = 0 => NodeAfter(Key(o)) = Null
  BY <1>1 DEF NodeAfter, After
<1>3. QED
  BY <1>2 DEF lookupNode_s

\* What is searched for is an integer.
LEMMA KeyInt == ASSUME HashInv, NEW o \in Object PROVE Key(o) \in Int
<1>1. getHashVal(o) \in Int /\ IntSpan \in Nat \ {0}
  BY HashLong, ConHashAssumption DEF HashInv, HashType, Strings
<1>2. QED
  BY <1>1, SignedInt DEF Key

\* Both of the next state.
LEMMA SearchNext ==
    HashInv' => /\ \A o \in Object : lookupNode_s(o)' = NodeAfter(Key(o))'
                /\ (\A k \in Int : \A m \in After(k) :
                       (\A u \in After(k) : m.hash <= u.hash) => NodeAfter(k) = m.node)'
<1>1. (HashInv => \A o \in Object : lookupNode_s(o) = NodeAfter(Key(o)))'
  BY LookupIsSearch, PTL
<1>2. (HashInv => \A k \in Int : \A m \in After(k) :
                     (\A u \in After(k) : m.hash <= u.hash) => NodeAfter(k) = m.node)'
  BY NodeAfterIs, PTL
<1>3. QED
  BY <1>1, <1>2

\* With more virtual nodes an object stays where it was or goes to a new one.
LEMMA GrowMoves ==
    ASSUME HashInv, HashInv', digest' = digest, mVirtualNodeSet \subseteq mVirtualNodeSet'
    PROVE  Moves
<1> SUFFICES ASSUME NEW o \in Object, lookupNode_s(o)' # lookupNode_s(o)
             PROVE  lookupNode_s(o)' \in {v.node : v \in mVirtualNodeSet' \ mVirtualNodeSet}
  BY DEF Moves
<1>1. PICK k \in Int : Key(o) = k /\ Key(o)' = k
  BY KeyInt DEF Key, getHashVal
<1>2. lookupNode_s(o) = NodeAfter(k)
  BY <1>1, LookupIsSearch
<1>3. lookupNode_s(o)' = NodeAfter(k)'
  <2>1. lookupNode_s(o)' = NodeAfter(Key(o))'
    BY SearchNext
  <2>2. NodeAfter(Key(o))' = NodeAfter(k)'
    BY <1>1 DEF NodeAfter, After
  <2>3. QED
    BY <2>1, <2>2
<1>4. \A v \in mVirtualNodeSet : v \in After(k)' <=> v \in After(k)
  BY DEF After
<1>5. PICK w \in mVirtualNodeSet' : k < w.hash
  <2>1. CASE After(k)' = {}
    <3>1. After(k) = {}
      BY <2>1, <1>4 DEF After
    <3>2. QED
      BY <2>1, <3>1, <1>2, <1>3 DEF NodeAfter
  <2>2. CASE After(k)' # {}
    BY <2>2 DEF After
  <2>3. QED
    BY <2>1, <2>2
<1>6. \A v \in mVirtualNodeSet' : v.hash \in Int
  BY LongInt DEF HashInv, HashType
<1>7. PICK m \in mVirtualNodeSet' :
          k < m.hash /\ \A u \in mVirtualNodeSet' : k < u.hash => m.hash <= u.hash
  BY <1>5, <1>6, LeastExists
<1>8. NodeAfter(k)' = m.node
  <2>1. m \in After(k)' /\ \A u \in After(k)' : m.hash <= u.hash
    BY <1>7 DEF After
  <2>2. QED
    BY <2>1, SearchNext
<1>9. m \notin mVirtualNodeSet
  <2> SUFFICES ASSUME m \in mVirtualNodeSet PROVE FALSE
    OBVIOUS
  <2>1. m \in After(k) /\ \A u \in After(k) : m.hash <= u.hash
    BY <1>7 DEF After
  <2>2. NodeAfter(k) = m.node
    BY <2>1, NodeAfterIs
  <2>3. QED
    BY <1>2, <1>3, <1>8, <2>2
<1>10. QED
  BY <1>3, <1>8, <1>9

\* The new virtual nodes of an addition are all the added node's.
LEMMA MovesStep == HashInv /\ [Next]_vars => [MovesToAdded]_vars
<1> SUFFICES ASSUME HashInv, [Next]_vars,
                    NEW o \in Object, NEW n \in Node, addNode_s(n),
                    lookupNode_s(o)' # lookupNode_s(o)
             PROVE  lookupNode_s(o)' = n
  BY DEF MovesToAdded
<1>1. HashInv'
  BY HashStep
<1>2. digest' = digest /\ mVirtualNodeSet \subseteq mVirtualNodeSet'
  BY DEF addNode_s
<1>3. lookupNode_s(o)' \in {v.node : v \in mVirtualNodeSet' \ mVirtualNodeSet}
  BY <1>1, <1>2, GrowMoves DEF Moves
<1>4. \A v \in mVirtualNodeSet' \ mVirtualNodeSet : v.node = n
  BY DEF addNode_s
<1>5. QED
  BY <1>3, <1>4

\* Adding a node moves objects to that node only, for every placement of the
\* virtual nodes and every width of int and long (MovesOnlyToNew).
THEOREM Consistent == Spec => MovesOnlyToNew
<1>1. HashInv /\ [Next]_vars => [MovesToAdded]_vars
  BY MovesStep
<1>2. QED
  BY <1>1, HashInit, HashStep, PTL DEF Spec, MovesOnlyToNew, MovesToAdded

=============================================================================
