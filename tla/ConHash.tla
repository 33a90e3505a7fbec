------------------------------- MODULE ConHash -------------------------------
(***************************************************************************)
(* The consistent hash that names a chat server for a client's address     *)
(* (conhash/CConHash.cpp): every server ("entity node") has virtual nodes  *)
(* at the hash values of its name followed by 0, 01, 012, ..., and an      *)
(* object goes to the node that owns the next virtual node.                *)
(*                                                                         *)
(* MD5 itself is not modelled: it gives every string some digest, chosen   *)
(* in Init. What the code makes of a digest (four words summed in a long,  *)
(* a long narrowed to an int) is.                                          *)
(***************************************************************************)
EXTENDS Integers, FiniteSets

CONSTANTS
    Node,        \* the CNode_s objects, each with a name of its own
    Object,      \* the strings looked up
    VNodeCount,  \* VNodeCount[n]: virtual nodes of n
    IntSpan,     \* values of an int and of a digest word (2^32)
    LongSpan,    \* values of a long: 2^64 as the makefiles build it
    DigestMax,   \* bound: sums of the words of a digest; the code has 4 * (2^32 - 1)
    Null         \* the NULL lookupNode_s may return

ASSUME ConHashAssumption ==
    /\ VNodeCount \in [Node -> Nat]
    /\ IntSpan \in Nat \ {0} /\ LongSpan \in Nat \ {0}
    /\ DigestMax \in Nat
    /\ Null \notin Node

\* Strings that are hashed: the i-th virtual node of n, and the objects.
VNames  == UNION {{<<n, i>> : i \in 0..(VNodeCount[n] - 1)} : n \in Node}
Strings == VNames \cup Object

VARIABLES
    digest,           \* per string, the sum of the four words of its digest
    mVirtualNodeSet,  \* the virtual nodes, one per hash value
    vNodes,           \* their number
    members           \* nodes in the hash according to what add and del returned

vars == <<digest, mVirtualNodeSet, vNodes, members>>

\* x as a signed integer with that many values
Signed(x, span) == LET r == x % span IN IF 2 * r < span THEN r ELSE r - span

getHashVal(str) == Signed(digest[str], LongSpan)

Hashes(n)  == {getHashVal(<<n, i>>) : i \in 0..(VNodeCount[n] - 1)}
RingHashes == {v.hash : v \in mVirtualNodeSet}

Init ==
    /\ digest \in [Strings -> 0..DigestMax]
    /\ mVirtualNodeSet = {}
    /\ vNodes = 0
    /\ members = {}

\* Mutants: a hash that is taken is not left out; the first is forgotten.
FreshUnchecked(n) == Hashes(n)
FreshButFirst(n) == {getHashVal(<<n, i>>) : i \in 1..(VNodeCount[n] - 1)} \ RingHashes

\* Of equal hash values the first to come keeps the place.
Fresh(n) == Hashes(n) \ RingHashes

\* Called with a node of at least one virtual node; any other gets -1.
addNode_s(n) ==
    /\ VNodeCount[n] > 0
    /\ mVirtualNodeSet' = mVirtualNodeSet \cup {[hash |-> h, node |-> n] : h \in Fresh(n)}
    /\ vNodes' = vNodes + Cardinality(Fresh(n))
    /\ members' = members \cup {n}
    /\ UNCHANGED digest

\* Mutant: the tree is filled, and what is found there stays on the ring.
VnodeTreeFilled == RingHashes

\* The tree that delNode_s searches: initialised, and never inserted into.
vnode_tree == {}

delNode_s(n) ==
    /\ vNodes' = vNodes - Cardinality(Hashes(n) \cap vnode_tree)
    /\ members' = members \ {n}
    /\ UNCHANGED <<digest, mVirtualNodeSet>>

\* int hash = getHashVal(object): the upper bits of the long are lost.
Key(o) == Signed(getHashVal(o), IntSpan)

After(key) == {v \in mVirtualNodeSet : key < v.hash}
NodeAfter(key) ==
    IF After(key) = {} THEN Null
    ELSE (CHOOSE v \in After(key) : \A u \in After(key) : v.hash <= u.hash).node

\* Mutant: the usual hash, modulo the number of virtual nodes.
LookupModulo(o) ==
    IF vNodes = 0 THEN Null
    ELSE (CHOOSE v \in mVirtualNodeSet :
             Cardinality({u \in mVirtualNodeSet : u.hash < v.hash}) = Key(o) % vNodes).node

lookupNode_s(o) == IF vNodes = 0 THEN Null ELSE NodeAfter(Key(o))

Next == \E n \in Node : addNode_s(n) \/ delNode_s(n)

Spec == Init /\ [][Next]_vars

-----------------------------------------------------------------------------
\* Hash values fit a long, counts and owners are what they should be.
Longs == {Signed(x, LongSpan) : x \in 0..(LongSpan - 1)}
TypeOK ==
    /\ mVirtualNodeSet \subseteq [hash : Longs, node : Node]
    /\ vNodes \in Nat
    /\ members \subseteq Node

\* No two virtual nodes share a hash value, though digests may, and vNodes
\* counts exactly those that are there: lookupNode_s tests it for zero.
CountIsSize ==
    /\ \A u, v \in mVirtualNodeSet : u.hash = v.hash => u = v
    /\ vNodes = Cardinality(mVirtualNodeSet)

\* Every virtual node of a node that was added is there, if only as another
\* node's that had the hash value first.
Complete == \A n \in members : Hashes(n) \subseteq RingHashes

\* Consistency: adding a node moves an object only to that node, never from
\* one old node to another and never to NULL, wherever its narrowed key lies.
MovesOnlyToNew ==
    [][\A o \in Object, n \in Node :
          addNode_s(n) /\ lookupNode_s(o)' # lookupNode_s(o) => lookupNode_s(o)' = n]_vars

=============================================================================
