-------------------------- MODULE Md5Stream_proofs --------------------------
(***************************************************************************)
(* That md5_append loses, doubles or reorders no byte and md5_finish pads  *)
(* as RFC 1321 says, for messages and pieces of any length, at the sizes   *)
(* the code has.                                                           *)
(***************************************************************************)
EXTENDS Md5Stream, SequenceTheorems, TLAPS

\* The code's sizes, and the places of the bytes of two words, which no prover
\* here computes: powers of Radix.
RealSizes ==
    /\ Block = 64 /\ Word = 4294967296 /\ LenBytes = 8 /\ Radix = 256
    /\ Place(0) = 1 /\ Place(1) = 256 /\ Place(2) = 65536 /\ Place(3) = 16777216
    /\ Place(4) = 4294967296 /\ Place(5) = 1099511627776
    /\ Place(6) = 281474976710656 /\ Place(7) = 72057594037927936

\* What is processed is the whole blocks of m, what is in buf is the rest.
Parts(p, m) ==
    /\ Len(p.absorbed) = Len(m) - (Len(m) % Block)
    /\ \A i \in 1..Len(p.absorbed) : p.absorbed[i] = m[i]
    /\ \A i \in 1..(Len(m) % Block) : p.buf[i] = m[Len(p.absorbed) + i]

\* The low word counts bits, modulo its width.
CountedLow(p, m) == p.count[0] = (8 * Len(m)) % Word

IInv == TypeOK /\ (~finished => Parts(pms, msg) /\ CountedLow(pms, msg))

-----------------------------------------------------------------------------
\* Arithmetic of blocks: the whole blocks of n bytes and the rest.
LEMMA Whole ==
    ASSUME Block = 64, NEW n \in Nat
    PROVE  /\ n - (n % Block) \in Nat /\ n - (n % Block) <= n
           /\ n % Block \in Nat /\ n % Block < 64
           /\ (n - (n % Block)) % Block = 0
OBVIOUS

\* Whole blocks in front do not change the rest.
LEMMA AddWhole ==
    ASSUME Block = 64, NEW a \in Nat, NEW b \in Nat, a % Block = 0
    PROVE  (a + b) % Block = b % Block
OBVIOUS

\* memcpy leaves bytes in every place.
LEMMA MemcpyIs ==
    ASSUME NEW buf \in [1..Block -> Bytes], NEW at \in Nat, NEW d \in Seq(Bytes)
    PROVE  Memcpy(buf, at, d) \in [1..Block -> Bytes]
<1>1. \A i \in 1..Block : i \in (at + 1)..(at + Len(d)) => d[i - at] \in Bytes
  <2> SUFFICES ASSUME NEW i \in 1..Block, i \in (at + 1)..(at + Len(d))
               PROVE  d[i - at] \in Bytes
    OBVIOUS
  <2>1. i - at \in 1..Len(d)
    OBVIOUS
  <2> QED BY <2>1, ElementOfSeq
<1> QED BY <1>1 DEF Memcpy

\* A piece of a sequence of bytes, and its bytes.
LEMMA PieceIs ==
    ASSUME NEW d \in Seq(Bytes), NEW m \in Nat, NEW n \in Nat, m >= 1, n <= Len(d), m <= n + 1
    PROVE  /\ SubSeq(d, m, n) \in Seq(Bytes)
           /\ Len(SubSeq(d, m, n)) = n - m + 1
           /\ \A i \in 1..(n - m + 1) : SubSeq(d, m, n)[i] = d[m + i - 1]
<1>1. \A i \in m..n : d[i] \in Bytes
  BY ElementOfSeq
<1>2. Len(d) \in Nat
  BY LenProperties
<1> QED BY <1>1, <1>2, SubSeqProperties

\* The same for the first n bytes and for those after n.
LEMMA HeadAndRest ==
    ASSUME NEW d \in Seq(Bytes), NEW n \in Nat, n <= Len(d)
    PROVE  /\ SubSeq(d, 1, n) \in Seq(Bytes)
           /\ Len(SubSeq(d, 1, n)) = n
           /\ \A i \in 1..n : SubSeq(d, 1, n)[i] = d[i]
           /\ SubSeq(d, n + 1, Len(d)) \in Seq(Bytes)
           /\ Len(SubSeq(d, n + 1, Len(d))) = Len(d) - n
           /\ \A i \in 1..(Len(d) - n) : SubSeq(d, n + 1, Len(d))[i] = d[n + i]
<1>1. Len(d) \in Nat
  BY LenProperties
<1>2. /\ SubSeq(d, 1, n) \in Seq(Bytes)
      /\ Len(SubSeq(d, 1, n)) = n - 1 + 1
      /\ \A i \in 1..(n - 1 + 1) : SubSeq(d, 1, n)[i] = d[1 + i - 1]
  BY PieceIs
<1>3. /\ SubSeq(d, n + 1, Len(d)) \in Seq(Bytes)
      /\ Len(SubSeq(d, n + 1, Len(d))) = Len(d) - (n + 1) + 1
      /\ \A i \in 1..(Len(d) - (n + 1) + 1) : SubSeq(d, n + 1, Len(d))[i] = d[(n + 1) + i - 1]
  <2> DEFINE m == n + 1
  <2>1. m \in Nat /\ m >= 1 /\ m <= Len(d) + 1 /\ Len(d) <= Len(d)
    BY <1>1
  <2> HIDE DEF m
  <2>2. /\ SubSeq(d, m, Len(d)) \in Seq(Bytes)
        /\ Len(SubSeq(d, m, Len(d))) = Len(d) - m + 1
        /\ \A i \in 1..(Len(d) - m + 1) : SubSeq(d, m, Len(d))[i] = d[m + i - 1]
    BY <1>1, <2>1, PieceIs
  <2> QED BY <2>2 DEF m
<1>4. \A i \in 1..n : 1 + i - 1 = i
  OBVIOUS
<1>5. /\ Len(d) - (n + 1) + 1 = Len(d) - n
      /\ \A i \in 1..(Len(d) - n) : (n + 1) + i - 1 = n + i
  BY <1>1
<1>6. n - 1 + 1 = n
  OBVIOUS
<1>7. \A i \in 1..n : SubSeq(d, 1, n)[i] = d[i]
  BY <1>2, <1>4, <1>6
<1>8. \A i \in 1..(Len(d) - n) : SubSeq(d, n + 1, Len(d))[i] = d[n + i]
  <2> SUFFICES ASSUME NEW i \in 1..(Len(d) - n) PROVE SubSeq(d, n + 1, Len(d))[i] = d[n + i]
    OBVIOUS
  <2>1. SubSeq(d, n + 1, Len(d))[i] = d[(n + 1) + i - 1]
    BY <1>3, <1>5
  <2> QED BY <2>1, <1>5
<1> QED BY <1>2, <1>3, <1>5, <1>6, <1>7, <1>8

\* A sequence is its first n bytes and the others.
LEMMA Split ==
    ASSUME NEW d \in Seq(Bytes), NEW n \in Nat, n <= Len(d)
    PROVE  d = SubSeq(d, 1, n) \o SubSeq(d, n + 1, Len(d))
<1>1. Len(d) \in Nat
  BY LenProperties
<1>2. 1 \in 1..(Len(d) + 1) /\ n \in (1 - 1)..Len(d) /\ Len(d) \in n..Len(d)
  BY <1>1
<1>3. SubSeq(d, 1, n) \o SubSeq(d, n + 1, Len(d)) = SubSeq(d, 1, Len(d))
  BY <1>2, ConcatAdjacentSubSeq
<1>5. SubSeq(d, 1, Len(d)) = d
  BY SubSeqFull
<1> QED BY <1>3, <1>5

\* With nothing in buf, whole blocks of data are processed and the rest is kept.
LEMMA TailedParts ==
    ASSUME Block = 64, NEW p \in State, NEW d \in Seq(Bytes), Len(p.absorbed) % Block = 0
    PROVE  /\ Tailed(p, d) \in State
           /\ Tailed(p, d).count = p.count
           /\ Parts(Tailed(p, d), p.absorbed \o d)
<1> DEFINE rest  == Len(d) % Block
           full  == Len(d) - rest
           first == SubSeq(d, 1, full)
           last  == SubSeq(d, full + 1, Len(d))
           q     == Tailed(p, d)
           a     == p.absorbed
<1>1. /\ a \in Seq(Bytes) /\ p.buf \in [1..Block -> Bytes] /\ p.count \in [0..1 -> 0..(Word - 1)]
      /\ p = [count |-> p.count, buf |-> p.buf, absorbed |-> a]
  BY DEF State
<1>2. Len(a) \in Nat /\ Len(d) \in Nat
  BY <1>1, LenProperties
<1>3. rest \in Nat /\ rest < Block /\ full \in Nat /\ full <= Len(d) /\ Len(d) = full + rest
  <2>1. full \in Nat /\ full <= Len(d) /\ rest \in Nat /\ rest < 64
    BY <1>2, Whole
  <2> HIDE DEF rest
  <2> QED BY <2>1, <1>2
<1>4. /\ q.absorbed = a \o first /\ q.buf = Memcpy(p.buf, 0, last) /\ q.count = p.count
      /\ q = [count |-> p.count, buf |-> Memcpy(p.buf, 0, last), absorbed |-> a \o first]
  <2>1. q = [p EXCEPT !.absorbed = a \o first, !.buf = Memcpy(p.buf, 0, last)]
    BY DEF Tailed
  <2> HIDE DEF q, first, last, a
  <2>2. q = [count |-> p.count, buf |-> Memcpy(p.buf, 0, last), absorbed |-> a \o first]
    BY <1>1, <2>1
  <2> QED BY <2>2
<1>5. (Len(a) + Len(d)) % Block = rest
  BY <1>2, AddWhole
<1> HIDE DEF rest, full, a
<1>6. /\ first \in Seq(Bytes) /\ Len(first) = full
      /\ \A i \in 1..full : first[i] = d[i]
      /\ last \in Seq(Bytes) /\ Len(last) = Len(d) - full
      /\ \A i \in 1..(Len(d) - full) : last[i] = d[full + i]
  BY <1>3, HeadAndRest
<1> HIDE DEF first, last, q
<1>7. Len(d) - full = rest
  BY <1>2, <1>3
<1>8. /\ a \o first \in Seq(Bytes) /\ Len(a \o first) = Len(a) + full
      /\ \A i \in 1..(Len(a) + full) : (a \o first)[i] =
            IF i <= Len(a) THEN a[i] ELSE first[i - Len(a)]
  BY <1>1, <1>6, ConcatProperties
<1>9. q.buf \in [1..Block -> Bytes]
  <2> DEFINE b == p.buf
             z == 0
  <2>1. z \in Nat /\ b \in [1..Block -> Bytes] /\ last \in Seq(Bytes)
    BY <1>1, <1>6
  <2> HIDE DEF b, z
  <2>2. Memcpy(b, z, last) \in [1..Block -> Bytes]
    BY <2>1, MemcpyIs
  <2> QED BY <2>2, <1>4 DEF b, z
<1>10. \A i \in 1..rest : q.buf[i] = d[full + i]
  <2> SUFFICES ASSUME NEW i \in 1..rest PROVE q.buf[i] = d[full + i]
    OBVIOUS
  <2>1. i \in 1..Block /\ i \in (0 + 1)..(0 + Len(last)) /\ i - 0 = i
    BY <1>3, <1>6, <1>7
  <2>2. q.buf[i] = last[i]
    BY <2>1, <1>4 DEF Memcpy
  <2> QED BY <2>2, <1>6, <1>7
<1>11. /\ a \o d \in Seq(Bytes) /\ Len(a \o d) = Len(a) + Len(d)
       /\ \A i \in 1..(Len(a) + Len(d)) : (a \o d)[i] = IF i <= Len(a) THEN a[i] ELSE d[i - Len(a)]
  BY <1>1, ConcatProperties
<1>12. q \in State
  BY <1>1, <1>4, <1>8, <1>9 DEF State
<1>13. Len(q.absorbed) = Len(a) + full /\ Len(a \o d) % Block = rest
  BY <1>4, <1>5, <1>8, <1>11
<1>14. Len(q.absorbed) = Len(a \o d) - (Len(a \o d) % Block)
  <2>1. Len(a) + full = (Len(a) + Len(d)) - rest
    BY <1>2, <1>3
  <2> QED BY <2>1, <1>11, <1>13
<1>15. \A i \in 1..Len(q.absorbed) : q.absorbed[i] = (a \o d)[i]
  <2> SUFFICES ASSUME NEW i \in 1..(Len(a) + full) PROVE (a \o first)[i] = (a \o d)[i]
    BY <1>4, <1>13
  <2>1. i \in 1..(Len(a) + Len(d))
    BY <1>2, <1>3
  <2>2. CASE i <= Len(a)
    BY <2>1, <2>2, <1>8, <1>11
  <2>3. CASE ~(i <= Len(a))
    <3>1. i - Len(a) \in 1..full
      BY <2>3, <1>2, <1>3
    <3> QED BY <3>1, <2>1, <2>3, <1>6, <1>8, <1>11
  <2> QED BY <2>2, <2>3
<1>16. \A i \in 1..(Len(a \o d) % Block) : q.buf[i] = (a \o d)[Len(q.absorbed) + i]
  <2> SUFFICES ASSUME NEW i \in 1..rest PROVE q.buf[i] = (a \o d)[(Len(a) + full) + i]
    BY <1>13
  <2> DEFINE j == (Len(a) + full) + i
  <2>1. j \in 1..(Len(a) + Len(d)) /\ ~(j <= Len(a)) /\ j - Len(a) = full + i
    BY <1>2, <1>3
  <2> HIDE DEF j
  <2>2. (a \o d)[j] = d[full + i]
    BY <2>1, <1>11
  <2> QED BY <2>2, <1>10 DEF j
<1> QED BY <1>4, <1>12, <1>14, <1>15, <1>16 DEF Parts, q, a

-----------------------------------------------------------------------------
\* The low word of count tells where in its block the message ends.
LEMMA OffsetIs ==
    ASSUME RealSizes, NEW p \in State, NEW m \in Seq(Bytes), CountedLow(p, m)
    PROVE  Offset(p) = Len(m) % Block
<1>1. \A n \in Nat : (((8 * n) % 4294967296) \div 8) % 64 = n % 64
  BY SMT
<1>2. Len(m) \in Nat
  BY LenProperties
<1> QED BY <1>1, <1>2, SMTT(30) DEF Offset, CountedLow, RealSizes

\* A remainder is below what it is taken of.
LEMMA ModRange ==
    ASSUME NEW x \in Nat, NEW w \in Nat, w > 0
    PROVE  x % w \in 0..(w - 1) /\ x % w \in Nat /\ x \div w \in Nat
OBVIOUS

\* The width of a word, and adding modulo it.
LEMMA WordFacts ==
    ASSUME RealSizes, NEW l \in Nat, NEW n \in Nat
    PROVE  /\ Word \in Nat /\ Word > 0 /\ (Word \div 8) \in Nat /\ (Word \div 8) > 0
           /\ (((8 * l) % Word) + ((8 * n) % Word)) % Word = (8 * (l + n)) % Word
<1>1. Word \in Nat /\ Word > 0 /\ (Word \div 8) \in Nat /\ (Word \div 8) > 0
  BY SMT DEF RealSizes
<1>2. (((8 * l) % Word) + ((8 * n) % Word)) % Word = (8 * (l + n)) % Word
  BY SMT DEF RealSizes
<1> QED BY <1>1, <1>2

\* Counting wraps and carries, and stays in step with the length.
LEMMA CountedIs ==
    ASSUME RealSizes, NEW count \in [0..1 -> 0..(Word - 1)], NEW l \in Nat, NEW n \in Nat,
           count[0] = (8 * l) % Word
    PROVE  /\ Counted(count, n) \in [0..1 -> 0..(Word - 1)]
           /\ Counted(count, n)[0] = (8 * (l + n)) % Word
<1> DEFINE nbits == (8 * n) % Word
           low   == (count[0] + nbits) % Word
           carry == IF low < nbits THEN 1 ELSE 0
           k     == n \div (Word \div 8)
           high  == (count[1] + k + carry) % Word
<1>1. Counted(count, n) = [w \in 0..1 |-> IF w = 0 THEN low ELSE high]
  BY DEF Counted
<1>2. low = (8 * (l + n)) % Word
  BY WordFacts
<1>3. Word \in Nat /\ Word > 0 /\ (Word \div 8) \in Nat /\ (Word \div 8) > 0
  <2> HIDE DEF nbits, low, carry, k, high
  <2> QED BY WordFacts
<1>4. count[0] \in Nat /\ count[1] \in Nat /\ carry \in Nat
  <2>1. 0 \in 0..1 /\ 1 \in 0..1
    OBVIOUS
  <2> QED BY <1>3, <2>1
<1>5. 8 * n \in Nat
  OBVIOUS
<1>6. nbits \in Nat /\ k \in Nat
  BY <1>3, <1>5, ModRange
<1> HIDE DEF nbits, carry, k
<1>7. (count[0] + nbits) \in Nat /\ (count[1] + k + carry) \in Nat
  BY <1>4, <1>6
<1>8. low \in 0..(Word - 1) /\ high \in 0..(Word - 1)
  BY <1>3, <1>7, ModRange
<1> HIDE DEF low, high
<1> QED BY <1>1, <1>2, <1>8

\* With a whole number of blocks nothing is in buf.
LEMMA WholeAbsorbed ==
    ASSUME Block = 64, NEW p \in State, NEW m \in Seq(Bytes), Parts(p, m), Len(m) % Block = 0
    PROVE  p.absorbed = m
<1>1. Len(m) \in Nat /\ p.absorbed \in Seq(Bytes)
  BY LenProperties DEF State
<1>3. Len(m) - 0 = Len(m)
  BY <1>1
<1>2. Len(p.absorbed) = Len(m) /\ \A i \in 1..Len(p.absorbed) : p.absorbed[i] = m[i]
  BY <1>3 DEF Parts
<1> QED BY <1>1, <1>2, SeqEqual

\* Where byte j behind o bytes is.
LEMMA Behind ==
    ASSUME NEW o \in Nat, NEW n \in Nat, NEW j \in 1..n
    PROVE  /\ o + j \in 1..(o + n) /\ o + j \in (o + 1)..(o + n) /\ (o + j) - o = j
           /\ \A b \in Nat : o + n <= b => o + j \in 1..b
OBVIOUS

\* A difference taken back.
LEMMA Taken ==
    ASSUME NEW l \in Nat, NEW m \in Nat, NEW o \in Nat, l = m - o
    PROVE  m = l + o
OBVIOUS

\* A piece that does not fill buf is put behind what is there.
LEMMA FilledParts ==
    ASSUME Block = 64, NEW p \in State, NEW m \in Seq(Bytes), NEW d \in Seq(Bytes), NEW o \in Nat,
           Parts(p, m), o = Len(m) % Block, o + Len(d) <= Block
    PROVE  /\ o + Len(d) < Block =>
                 Parts([p EXCEPT !.buf = Memcpy(@, o, d)], m \o d)
           /\ o + Len(d) = Block => p.absorbed \o Memcpy(p.buf, o, d) = m \o d
<1> DEFINE a == p.absorbed
           b == Memcpy(p.buf, o, d)
           l == Len(a)
           n == Len(d)
<1>1. a \in Seq(Bytes) /\ l \in Nat /\ n \in Nat /\ Len(m) \in Nat /\ p.buf \in [1..Block -> Bytes]
  BY LenProperties DEF State
<1>0. l \in Nat /\ n \in Nat /\ Len(m) \in Nat
  BY <1>1
<1>2. /\ l = Len(m) - o
      /\ \A i \in 1..l : a[i] = m[i]
      /\ \A i \in 1..o : p.buf[i] = m[l + i]
  BY DEF Parts
<1>3. Len(m) = l + o /\ l % Block = 0
  <2>1. (Len(m) - (Len(m) % Block)) % Block = 0
    BY <1>1, Whole
  <2>2. l % Block = 0
    BY <2>1, <1>2
  <2>3. Len(m) = l + o
    <3> HIDE DEF l
    <3> QED BY <1>0, <1>2, Taken
  <2> QED BY <2>2, <2>3
<1>4. b \in [1..Block -> Bytes]
  BY <1>1, MemcpyIs
<1>5. \A i \in 1..o : b[i] = p.buf[i]
  <2> SUFFICES ASSUME NEW i \in 1..o PROVE b[i] = p.buf[i]
    OBVIOUS
  <2>1. i \in 1..Block /\ i \notin (o + 1)..(o + n)
    BY <1>0
  <2> HIDE DEF n
  <2> QED BY <2>1 DEF Memcpy, n
<1>6. \A j \in 1..n : b[o + j] = d[j]
  <2> SUFFICES ASSUME NEW j \in 1..n PROVE b[o + j] = d[j]
    OBVIOUS
  <2> DEFINE i == o + j
  <2>1. i \in 1..Block /\ i \in (o + 1)..(o + n) /\ i - o = j
    <3>1. n \in Nat /\ o + n <= Block /\ Block \in Nat
      BY <1>0
    <3> HIDE DEF n, a, b, l
    <3>2. o + j \in (o + 1)..(o + n) /\ (o + j) - o = j
      BY <3>1, Behind
    <3>3. o + j \in 1..Block
      BY <3>1, Behind
    <3> QED BY <3>2, <3>3
  <2> HIDE DEF n, i
  <2>2. b[i] = d[i - o]
    BY <2>1 DEF Memcpy, n
  <2> QED BY <2>1, <2>2 DEF i
<1>7. /\ m \o d \in Seq(Bytes) /\ Len(m \o d) = Len(m) + n
      /\ \A i \in 1..(Len(m) + n) : (m \o d)[i] = IF i <= Len(m) THEN m[i] ELSE d[i - Len(m)]
  BY <1>1, ConcatProperties
<1> HIDE DEF a, b, l, n
<1>8. \A i \in 1..l : a[i] = (m \o d)[i]
  <2> SUFFICES ASSUME NEW i \in 1..l PROVE a[i] = (m \o d)[i]
    OBVIOUS
  <2>1. i \in 1..(Len(m) + n) /\ i <= Len(m)
    BY <1>0, <1>3
  <2> QED BY <2>1, <1>2, <1>7
<1>9. \A i \in 1..(o + n) : b[i] = (m \o d)[l + i]
  <2> SUFFICES ASSUME NEW i \in 1..(o + n) PROVE b[i] = (m \o d)[l + i]
    OBVIOUS
  <2> DEFINE k == l + i
  <2>1. k \in 1..(Len(m) + n)
    BY <1>1, <1>3
  <2>2. CASE i <= o
    <3>1. k <= Len(m)
      BY <2>2, <1>1, <1>3
    <3>2. i \in 1..o
      BY <2>2, <1>1
    <3> QED BY <3>1, <3>2, <2>1, <1>2, <1>5, <1>7
  <2>3. CASE ~(i <= o)
    <3> DEFINE j == i - o
    <3>1. ~(k <= Len(m)) /\ k - Len(m) = j /\ j \in 1..n /\ o + j = i
      BY <2>3, <1>0, <1>3, SMTT(20)
    <3> HIDE DEF k, j
    <3>2. b[i] = d[j]
      BY <3>1, <1>6
    <3>3. (m \o d)[k] = d[j]
      BY <3>1, <2>1, <1>7
    <3> QED BY <3>2, <3>3 DEF k
  <2> QED BY <2>2, <2>3
<1>10. ASSUME o + n < Block PROVE Parts([p EXCEPT !.buf = b], m \o d)
  <2> DEFINE q == [p EXCEPT !.buf = b]
  <2>1. q.absorbed = a /\ q.buf = b
    BY DEF State, a
  <2>2. o + n \in Nat /\ (o + n) % 64 = o + n /\ Len(m \o d) = l + (o + n)
    <3>1. o + n \in Nat /\ o + n < 64
      BY <1>0, <1>10
    <3>2. (o + n) % 64 = o + n
      BY <3>1
    <3>3. Len(m) + n = l + (o + n)
      BY <1>0, <1>3, SMTT(20)
    <3> QED BY <3>1, <3>2, <3>3, <1>7
  <2>3. Len(m \o d) % Block = o + n
    BY <2>2, <1>0, <1>3, AddWhole, SMTT(20)
  <2>4. l = Len(m \o d) - (Len(m \o d) % Block)
    BY <2>2, <2>3, <1>0
  <2> HIDE DEF q
  <2>5. Len(q.absorbed) = l
    BY <2>1 DEF l
  <2>6. \A i \in 1..Len(q.absorbed) : q.absorbed[i] = (m \o d)[i]
    BY <2>1, <2>5, <1>8
  <2>7. \A i \in 1..(Len(m \o d) % Block) : q.buf[i] = (m \o d)[Len(q.absorbed) + i]
    BY <2>1, <2>3, <2>5, <1>9
  <2> QED BY <2>4, <2>5, <2>6, <2>7 DEF Parts, q
<1>11. ASSUME o + n = Block PROVE a \o b = m \o d
  <2>1. b \in Seq(Bytes) /\ Len(b) = Block
    <3>1. b \in Seq(Bytes)
      <4>1. 64 \in Nat /\ b \in [1..64 -> Bytes]
        BY <1>4
      <4> QED BY <4>1, SeqDef
    <3>2. DOMAIN b = 1..64
      BY <1>4
    <3> QED BY <3>1, <3>2, LenProperties
  <2>5. /\ a \o b \in Seq(Bytes) /\ Len(a \o b) = Len(a) + Len(b)
        /\ \A i \in 1..(Len(a) + Len(b)) : (a \o b)[i] = IF i <= Len(a) THEN a[i] ELSE b[i - Len(a)]
    <3>1. a \in Seq(Bytes)
      BY <1>1
    <3>2. b \in Seq(Bytes)
      BY <2>1
    <3> QED BY <3>1, <3>2, ConcatProperties, Zenon
  <2>2. /\ a \o b \in Seq(Bytes) /\ Len(a \o b) = l + Block
        /\ \A i \in 1..(l + Block) : (a \o b)[i] = IF i <= l THEN a[i] ELSE b[i - l]
    BY <2>1, <2>5, Zenon DEF l
  <2>3. Len(m \o d) = l + Block
    <3>1. Len(m) + n = l + (o + n)
      BY <1>0, <1>3, SMTT(20)
    <3> QED BY <3>1, <1>7, <1>11
  <2>4. \A i \in 1..(l + Block) : (a \o b)[i] = (m \o d)[i]
    <3> SUFFICES ASSUME NEW i \in 1..(l + Block) PROVE (a \o b)[i] = (m \o d)[i]
      OBVIOUS
    <3>1. CASE i <= l
      <4>1. i \in 1..l
        BY <3>1, <1>1
      <4> QED BY <4>1, <3>1, <2>2, <1>8
    <3>2. CASE ~(i <= l)
      <4> DEFINE j == i - l
      <4>1. j \in 1..(o + n) /\ l + j = i
        BY <3>2, <1>1, <1>11
      <4> HIDE DEF j
      <4>2. b[j] = (m \o d)[i]
        BY <4>1, <1>9
      <4> QED BY <4>2, <3>2, <2>2 DEF j
    <3> QED BY <3>1, <3>2
  <2> QED BY <2>2, <2>3, <2>4, <1>7, SeqEqual
<1> QED BY <1>10, <1>11 DEF a, b, n

\* md5_append puts data behind m, wherever in a block m ends.
LEMMA AppendedParts ==
    ASSUME RealSizes, NEW p \in State, NEW m \in Seq(Bytes), NEW d \in Seq(Bytes),
           Parts(p, m), CountedLow(p, m)
    PROVE  /\ Appended(p, d) \in State
           /\ Parts(Appended(p, d), m \o d)
           /\ CountedLow(Appended(p, d), m \o d)
<1> DEFINE o    == Offset(p)
           n    == Len(d)
           copy == IF o + n > Block THEN Block - o ELSE n
           c    == Counted(p.count, n)
           q    == [p EXCEPT !.count = c]
           head == SubSeq(d, 1, copy)
           b    == Memcpy(q.buf, o, head)
           r    == [q EXCEPT !.buf = b]
           t    == [r EXCEPT !.absorbed = @ \o r.buf]
           rest == Rest(d, copy)
<1>1. /\ p.absorbed \in Seq(Bytes) /\ p.buf \in [1..Block -> Bytes]
      /\ p.count \in [0..1 -> 0..(Word - 1)]
      /\ p = [count |-> p.count, buf |-> p.buf, absorbed |-> p.absorbed]
  BY DEF State
<1>2. Len(m) \in Nat /\ n \in Nat
  BY LenProperties
<1>3. Block = 64
  BY SMT DEF RealSizes
<1>4. o = Len(m) % Block /\ o \in Nat /\ o < Block
  <2>1. o = Len(m) % Block
    BY OffsetIs
  <2>2. Len(m) % Block \in Nat /\ Len(m) % Block < 64
    BY <1>2, <1>3, Whole
  <2> HIDE DEF o
  <2> QED BY <2>1, <2>2, <1>3
<1>5. c \in [0..1 -> 0..(Word - 1)] /\ c[0] = (8 * (Len(m) + n)) % Word
  <2> HIDE DEF n
  <2> QED BY <1>1, <1>2, CountedIs DEF CountedLow
<1>6. Appended(p, d) = IF n = 0 THEN p ELSE IF o = 0 THEN Tailed(q, d)
                       ELSE IF o + copy < Block THEN r ELSE Tailed(t, rest)
  BY DEF Appended, Offset
<1>7. m \o d \in Seq(Bytes) /\ Len(m \o d) = Len(m) + n
  BY <1>1, ConcatProperties
<1> HIDE DEF o, n, c
<1>8. copy \in Nat /\ copy <= n /\ o + copy <= Block /\ (o + copy < Block => copy = n)
  <2>1. n \in Nat /\ o \in Nat /\ o < 64
    BY <1>2, <1>3, <1>4
  <2> QED BY ONLY <2>1, <1>3
<1> HIDE DEF copy
<1>9. /\ head \in Seq(Bytes) /\ Len(head) = copy
      /\ rest \in Seq(Bytes)
  BY <1>8, HeadAndRest DEF Rest, n
<1>10. d = head \o rest
  <2>1. SubSeq(d, copy + 1, Len(d)) = rest
    BY DEF Rest
  <2>2. copy <= Len(d)
    BY <1>8 DEF n
  <2> HIDE DEF head, rest
  <2>3. d = SubSeq(d, 1, copy) \o SubSeq(d, copy + 1, Len(d))
    BY <1>8, <2>2, Split
  <2> QED BY <2>1, <2>3 DEF head
<1> HIDE DEF head
<1>11. b \in [1..Block -> Bytes]
  <2>1. q.buf \in [1..Block -> Bytes]
    BY <1>1
  <2> HIDE DEF q, head
  <2> QED BY <2>1, <1>4, <1>9, MemcpyIs
<1> HIDE DEF rest
<1>12. /\ q \in State /\ q.absorbed = p.absorbed /\ q.buf = p.buf /\ q.count = c
       /\ q = [count |-> c, buf |-> p.buf, absorbed |-> p.absorbed]
  <2> HIDE DEF b, r, t
  <2>1. q = [count |-> c, buf |-> p.buf, absorbed |-> p.absorbed]
    BY <1>1
  <2> HIDE DEF q
  <2> QED BY <2>1, <1>1, <1>5 DEF State
<1> HIDE DEF b
<1>13. /\ r \in State /\ r.absorbed = p.absorbed /\ r.buf = b /\ r.count = c
       /\ r = [count |-> c, buf |-> b, absorbed |-> p.absorbed]
  <2> HIDE DEF q
  <2>1. r = [count |-> c, buf |-> b, absorbed |-> p.absorbed]
    BY <1>12
  <2> QED BY <2>1, <1>1, <1>5, <1>11 DEF State
<1>14. b = Memcpy(p.buf, o, head)
  BY <1>12 DEF b
<1>15. Parts(q, m)
  BY <1>12 DEF Parts
<1> HIDE DEF q
<1>16. CASE n = 0
  <2>1. d = << >>
    BY <1>16, EmptySeq DEF n
  <2>2. m \o d = m
    BY <2>1, ConcatEmptySeq
  <2>3. Appended(p, d) = p
    BY <1>6, <1>16
  <2> QED BY <2>2, <2>3
<1>17. ASSUME NEW x \in State, x.count = c PROVE CountedLow(x, m \o d)
  BY <1>5, <1>7, <1>17 DEF CountedLow
<1>18. CASE n # 0 /\ o = 0
  <2>1. q.absorbed = m
    BY <1>3, <1>4, <1>12, <1>15, <1>18, WholeAbsorbed
  <2>2. Len(q.absorbed) % Block = 0
    BY <2>1, <1>4, <1>18
  <2>3. /\ Tailed(q, d) \in State /\ Tailed(q, d).count = q.count
        /\ Parts(Tailed(q, d), q.absorbed \o d)
    BY <2>2, <1>3, <1>12, TailedParts
  <2>4. Appended(p, d) = Tailed(q, d)
    BY <1>6, <1>18
  <2> QED BY <2>1, <2>3, <2>4, <1>12, <1>17
<1>19. CASE n # 0 /\ o # 0 /\ o + copy < Block
  <2>1. Appended(p, d) = r
    BY <1>6, <1>19
  <2>2. head = d
    <3>1. Len(head) = Len(d) /\ copy = Len(d)
      BY <1>8, <1>9, <1>19 DEF n
    <3>2. \A i \in 1..Len(head) : head[i] = d[i]
      <4>1. copy \in Nat /\ copy <= Len(d)
        BY <1>8, <3>1
      <4>2. \A i \in 1..copy : SubSeq(d, 1, copy)[i] = d[i]
        BY <4>1, HeadAndRest
      <4> QED BY <4>2, <3>1 DEF head
    <3> QED BY <3>1, <3>2, <1>9, SeqEqual
  <2>3. Parts([q EXCEPT !.buf = Memcpy(@, o, d)], m \o d)
    <3>1. o + Len(d) < Block /\ o + Len(d) <= Block
      BY <1>8, <1>19, <1>2, <1>3, <1>4 DEF n
    <3> QED BY <3>1, <1>3, <1>4, <1>12, <1>15, FilledParts
  <2>4. r = [q EXCEPT !.buf = Memcpy(@, o, d)]
    BY <2>2, <1>14, <1>12
  <2> QED BY <2>1, <2>3, <2>4, <1>13, <1>17
<1>20. CASE n # 0 /\ o # 0 /\ ~(o + copy < Block)
  <2>1. Appended(p, d) = Tailed(t, rest)
    BY <1>6, <1>20
  <2>2. o + Len(head) = Block /\ o + Len(head) <= Block
    BY <1>20, <1>8, <1>9, <1>3, <1>4
  <2>3. p.absorbed \o b = m \o head
    BY <2>2, <1>3, <1>4, <1>9, <1>14, FilledParts
  <2> HIDE DEF r
  <2>4. t = [count |-> c, buf |-> b, absorbed |-> m \o head]
    <3>1. r = [count |-> c, buf |-> b, absorbed |-> p.absorbed]
      BY <1>13
    <3>2. r.absorbed \o r.buf = m \o head
      BY <1>13, <2>3
    <3>3. t = [r EXCEPT !.absorbed = m \o head]
      BY <3>2
    <3> HIDE DEF t
    <3> QED BY <3>1, <3>3
  <2>5. m \o head \in Seq(Bytes) /\ Len(m \o head) = Len(m) + copy
    BY <1>9, ConcatProperties
  <2>6. t \in State /\ t.absorbed = m \o head /\ t.count = c
    BY <2>4, <2>5, <1>5, <1>11 DEF State
  <2>7. Len(t.absorbed) % Block = 0
    <3>1. (Len(m) + copy) % Block = 0
      <4>1. o + copy = 64 /\ o = Len(m) % 64
        BY <1>3, <1>4, <1>8, <1>20
      <4> HIDE DEF o, copy
      <4> QED BY <4>1, <1>2, <1>3, <1>8
    <3> QED BY <3>1, <2>5, <2>6
  <2> HIDE DEF t
  <2>8. /\ Tailed(t, rest) \in State /\ Tailed(t, rest).count = t.count
        /\ Parts(Tailed(t, rest), t.absorbed \o rest)
    BY <2>6, <2>7, <1>3, <1>9, TailedParts
  <2>9. (m \o head) \o rest = m \o d
    <3>1. (m \o head) \o rest = m \o (head \o rest)
      <4>1. m \in Seq(Bytes)
        OBVIOUS
      <4>2. head \in Seq(Bytes)
        BY <1>9
      <4>3. rest \in Seq(Bytes)
        BY <1>9
      <4> QED BY ONLY <4>1, <4>2, <4>3, ConcatAssociative, SMTT(20)
    <3> QED BY <3>1, <1>10
  <2> QED BY <2>1, <2>6, <2>8, <2>9, <1>17
<1> QED BY <1>16, <1>18, <1>19, <1>20

-----------------------------------------------------------------------------
\* The mark and the zeros, and the length, are bytes.
LEMMA PaddingIs ==
    ASSUME RealSizes, NEW p \in State
    PROVE  /\ PadLength(p) \in Nat /\ Pad(PadLength(p)) \in Seq(Bytes)
           /\ LengthBytes(p) \in Seq(Bytes)
<1>1. p.count \in [0..1 -> 0..(Word - 1)] /\ Word \in Nat /\ Block = 64 /\ LenBytes = 8 /\ Radix = 256
  <2>1. Word \in Nat /\ Block = 64 /\ LenBytes = 8 /\ Radix = 256
    BY SMT DEF RealSizes
  <2> QED BY <2>1 DEF State
<1>2. p.count[0] \in Nat /\ p.count[1] \in Nat
  <2>1. 0 \in 0..1 /\ 1 \in 0..1
    OBVIOUS
  <2> QED BY <1>1, <2>1
<1>3. PadLength(p) \in Nat
  <2> DEFINE k == p.count[0]
  <2>1. k \in Nat
    BY <1>2
  <2> HIDE DEF k
  <2>2. (((64 - 8 - 1) - (k \div 8)) % 64) + 1 \in Nat
    BY <2>1
  <2> QED BY <2>2, <1>1 DEF PadLength, k
<1>4. ASSUME NEW n \in Nat PROVE Pad(n) \in Seq(Bytes)
  <2>1. Mark \in Bytes /\ 0 \in Bytes
    BY <1>1 DEF Mark, Bytes
  <2>2. Pad(n) \in [1..n -> Bytes]
    BY <2>1 DEF Pad
  <2> QED BY <2>2, SeqDef
<1>5. LengthBytes(p) \in Seq(Bytes)
  <2>1. ASSUME NEW i \in 1..8
        PROVE  (p.count[(i - 1) \div 4] \div Place((i - 1) % 4)) % 256 \in 0..255
    <3> DEFINE c == p.count[(i - 1) \div 4]
               w == Place((i - 1) % 4)
    <3>1. (i - 1) \div 4 \in 0..1 /\ (i - 1) % 4 \in 0..3
      OBVIOUS
    <3>2. c \in Nat
      <4>1. \A j \in 0..1 : j = 0 \/ j = 1
        OBVIOUS
      <4> QED BY <4>1, <3>1, <1>2, Zenon
    <3>3. w \in Nat /\ w > 0
      <4>1. \A k \in 0..3 : k = 0 \/ k = 1 \/ k = 2 \/ k = 3
        OBVIOUS
      <4>2. \A k \in 0..3 : Place(k) \in Nat /\ Place(k) > 0
        BY <4>1, SMT DEF RealSizes
      <4> DEFINE j == (i - 1) % 4
      <4>3. j \in 0..3
        BY <3>1
      <4> HIDE DEF j
      <4>4. Place(j) \in Nat /\ Place(j) > 0
        BY <4>2, <4>3
      <4> QED BY <4>4 DEF j
    <3> HIDE DEF c, w
    <3>4. c \div w \in Nat
      BY ONLY <3>2, <3>3, ModRange
    <3> DEFINE x == c \div w
    <3> HIDE DEF x
    <3>5. x % 256 \in 0..255
      <4>1. x \in Nat
        BY <3>4 DEF x
      <4> QED BY ONLY <4>1
    <3> QED BY <3>5 DEF c, w, x
  <2>2. Half = 4 /\ Bytes = 0..255 /\ 8 \in Nat
    <3>1. Radix = 256 /\ LenBytes = 8
      BY <1>1
    <3> QED BY ONLY <3>1 DEF Half, Bytes
  <2>3. LengthBytes(p) \in [1..8 -> Bytes]
    BY <2>1, <2>2, <1>1, ZenonT(40) DEF LengthBytes
  <2> DEFINE bytes == LengthBytes(p)
  <2> HIDE DEF bytes
  <2>4. bytes \in [1..8 -> Bytes] /\ 8 \in Nat
    BY <2>2, <2>3 DEF bytes
  <2>5. bytes \in Seq(Bytes)
    BY ONLY <2>4, SeqDef
  <2> QED BY <2>5 DEF bytes
<1> QED BY <1>3, <1>4, <1>5

\* Nothing is behind nothing.
LEMMA ResetParts ==
    ASSUME RealSizes, NEW buf \in [1..Block -> Bytes]
    PROVE  Reset(buf) \in State /\ Parts(Reset(buf), << >>) /\ CountedLow(Reset(buf), << >>)
<1>1. << >> \in Seq(Bytes) /\ Len(<< >>) = 0
  BY EmptySeq
<1>2. Block = 64 /\ Word \in Nat /\ Word > 0
  BY SMT DEF RealSizes
<1>3. 8 * 0 = 0 /\ 0 % Word = 0 /\ 0 % Block = 0 /\ 0 \in 0..(Word - 1)
  BY <1>2
<1>4. /\ Reset(buf).absorbed = << >> /\ Reset(buf).count = [w \in 0..1 |-> 0]
      /\ Reset(buf).count[0] = 0
  BY DEF Reset
<1>5. Reset(buf) \in State
  <2>1. [w \in 0..1 |-> 0] \in [0..1 -> 0..(Word - 1)]
    BY <1>3
  <2> QED BY <2>1, <1>1 DEF Reset, State
<1>6. Parts(Reset(buf), << >>)
  BY <1>1, <1>3, <1>4 DEF Parts
<1>7. CountedLow(Reset(buf), << >>)
  BY <1>1, <1>3, <1>4 DEF CountedLow
<1> QED BY <1>5, <1>6, <1>7

\* The invariant holds of a new state.
LEMMA InitIInv == ASSUME RealSizes, Init PROVE IInv
<1>1. [i \in 1..Block |-> 0] \in [1..Block -> Bytes]
  BY SMT DEF RealSizes, Bytes
<1>2. << >> \in Seq(Bytes)
  BY EmptySeq
<1> QED BY <1>1, <1>2, ResetParts DEF Init, IInv, TypeOK

\* The invariant is kept by every call.
LEMMA NextIInv == ASSUME RealSizes, IInv, [Next]_vars PROVE IInv'
<1>1. pms \in State /\ msg \in Seq(Bytes) /\ finished \in BOOLEAN
  BY DEF IInv, TypeOK
<1>2. CASE md5_init
  <2>1. pms.buf \in [1..Block -> Bytes]
    BY <1>1 DEF State
  <2>2. << >> \in Seq(Bytes)
    BY EmptySeq
  <2>3. pms' = Reset(pms.buf) /\ msg' = << >> /\ finished' = FALSE
    BY <1>2 DEF md5_init
  <2>4. pms' \in State /\ Parts(pms', msg') /\ CountedLow(pms', msg')
    BY <2>1, <2>3, ResetParts
  <2> QED BY <2>2, <2>3, <2>4 DEF IInv, TypeOK, Parts, CountedLow
<1>3. ASSUME NEW data \in Pieces, md5_append(data) PROVE IInv'
  <2>1. data \in Seq(Bytes)
    BY Md5Assumption
  <2>2. ~finished /\ pms' = Appended(pms, data) /\ msg' = msg \o data /\ finished' = finished
    BY <1>3 DEF md5_append
  <2>3. pms' \in State /\ Parts(pms', msg') /\ CountedLow(pms', msg')
    BY <1>1, <2>1, <2>2, AppendedParts DEF IInv
  <2>4. msg' \in Seq(Bytes)
    BY <1>1, <2>1, <2>2, ConcatProperties
  <2> QED BY <1>1, <2>2, <2>3, <2>4 DEF IInv, TypeOK, Parts, CountedLow
<1>4. CASE md5_finish
  <2> DEFINE z == Pad(PadLength(pms))
             l == LengthBytes(pms)
             q == Appended(pms, z)
  <2>1. ~finished /\ pms' = Appended(q, l) /\ finished' = TRUE /\ msg' = msg
    BY <1>4 DEF md5_finish, Finished
  <2>2. z \in Seq(Bytes) /\ l \in Seq(Bytes)
    BY <1>1, PaddingIs
  <2> HIDE DEF z, l
  <2>3. q \in State /\ Parts(q, msg \o z) /\ CountedLow(q, msg \o z)
    BY <1>1, <2>1, <2>2, AppendedParts DEF IInv
  <2> HIDE DEF q
  <2>4. msg \o z \in Seq(Bytes)
    BY <1>1, <2>2, ConcatProperties
  <2>5. Appended(q, l) \in State
    BY <2>2, <2>3, <2>4, AppendedParts
  <2> QED BY <1>1, <2>1, <2>5 DEF IInv, TypeOK
<1>5. CASE UNCHANGED vars
  BY <1>5 DEF vars, IInv, TypeOK, Parts, CountedLow
<1> QED BY <1>2, <1>3, <1>4, <1>5 DEF Next

\* Type correctness at the sizes of the code: no word of count grows past its
\* width and buf is only written inside (CMd5.cpp 269-305).
THEOREM TypeCorrect == ASSUME RealSizes PROVE Spec => []TypeOK
<1>1. Init => IInv
  BY InitIInv
<1>2. IInv /\ [Next]_vars => IInv'
  BY NextIInv
<1>3. IInv => TypeOK
  BY DEF IInv
<1> QED BY <1>1, <1>2, <1>3, PTL DEF Spec

\* What the invariant says is Absorbs.
LEMMA AbsorbsFromIInv == ASSUME RealSizes, IInv PROVE Absorbs
<1> SUFFICES ASSUME ~finished PROVE
       /\ Len(pms.absorbed) = Len(msg) - (Len(msg) % Block)
       /\ Offset(pms) = Len(msg) % Block
       /\ pms.absorbed \o SubSeq(pms.buf, 1, Len(msg) % Block) = msg
  BY DEF Absorbs
<1> DEFINE a == pms.absorbed
           b == pms.buf
           l == Len(a)
           o == Len(msg) % Block
           s == SubSeq(b, 1, o)
<1>1. pms \in State /\ msg \in Seq(Bytes) /\ Parts(pms, msg) /\ CountedLow(pms, msg)
  BY DEF IInv, TypeOK
<1>2. Offset(pms) = o
  BY <1>1, OffsetIs
<1>3. /\ l = Len(msg) - o
      /\ \A i \in 1..l : a[i] = msg[i]
      /\ \A i \in 1..o : b[i] = msg[l + i]
  BY <1>1 DEF Parts
<1>4. a \in Seq(Bytes) /\ l \in Nat /\ Len(msg) \in Nat /\ b \in [1..Block -> Bytes]
  BY <1>1, LenProperties DEF State
<1>5. Block = 64
  BY SMT DEF RealSizes
<1>6. o \in Nat /\ o < 64
  BY <1>4, <1>5, Whole
<1>7. b \in Seq(Bytes) /\ Len(b) = 64
  <2>1. 64 \in Nat /\ b \in [1..64 -> Bytes]
    BY <1>4, <1>5
  <2>2. b \in Seq(Bytes)
    BY <2>1, SeqDef
  <2>3. DOMAIN b = 1..64
    BY <2>1
  <2> HIDE DEF b
  <2> QED BY <2>2, <2>3, LenProperties
<1> HIDE DEF a, b, l, o
<1>8. s \in Seq(Bytes) /\ Len(s) = o /\ \A i \in 1..o : s[i] = b[i]
  <2>1. o <= Len(b)
    BY <1>6, <1>7
  <2> QED BY <2>1, <1>6, <1>7, HeadAndRest
<1> HIDE DEF s
<1>9. /\ a \o s \in Seq(Bytes) /\ Len(a \o s) = Len(a) + Len(s)
      /\ \A i \in 1..(Len(a) + Len(s)) : (a \o s)[i] = IF i <= Len(a) THEN a[i] ELSE s[i - Len(a)]
  BY <1>4, <1>8, ConcatProperties
<1>10. Len(msg) = l + o
  BY <1>3, <1>4, <1>6, Taken
<1>11. Len(a) = l
  BY DEF l
<1>12. \A i \in 1..(l + o) : (a \o s)[i] = msg[i]
  <2> SUFFICES ASSUME NEW i \in 1..(l + o) PROVE (a \o s)[i] = msg[i]
    OBVIOUS
  <2>1. (a \o s)[i] = IF i <= l THEN a[i] ELSE s[i - l]
    BY <1>8, <1>9, <1>11
  <2>2. CASE i <= l
    <3>1. i \in 1..l
      BY <2>2, <1>4
    <3> QED BY <3>1, <2>1, <2>2, <1>3
  <2>3. CASE ~(i <= l)
    <3> DEFINE j == i - l
    <3>1. j \in 1..o /\ l + j = i
      BY <2>3, <1>4, <1>6
    <3> HIDE DEF j
    <3>2. s[j] = msg[i]
      BY <3>1, <1>3, <1>8
    <3> QED BY <3>2, <2>1, <2>3 DEF j
  <2> QED BY <2>2, <2>3
<1>13. a \o s = msg
  <2>1. Len(a \o s) = Len(msg) /\ Len(a \o s) = l + o
    BY <1>8, <1>9, <1>10, <1>11
  <2> QED BY <2>1, <1>1, <1>9, <1>12, SeqEqual
<1> QED BY <1>2, <1>3, <1>13 DEF a, b, l, o, s

\* However a message is split, what is hashed and what waits in buf are
\* together the message, for messages of every length and also after count
\* has wrapped (md5_append, CMd5.cpp 269-305).
THEOREM NothingLost == ASSUME RealSizes PROVE Spec => []Absorbs
<1>1. Init => IInv
  BY InitIInv
<1>2. IInv /\ [Next]_vars => IInv'
  BY NextIInv
<1>3. IInv => Absorbs
  BY AbsorbsFromIInv
<1> QED BY <1>1, <1>2, <1>3, PTL DEF Spec

-----------------------------------------------------------------------------
\* The high word counts how often the low one wrapped.
CountedHigh(p, m) == p.count[1] = ((8 * Len(m)) \div Word) % Word

\* What is known of a hash under way, and what of a finished one.
Hashed == (~finished => CountedHigh(pms, msg)) /\ HashesPadded

\* The bytes of a length are those of its two words.
LEMMA LowBytes ==
    ASSUME NEW x \in Nat
    PROVE  /\ (x % 4294967296) % 256 = x % 256
           /\ ((x % 4294967296) \div 256) % 256 = (x \div 256) % 256
           /\ ((x % 4294967296) \div 65536) % 256 = (x \div 65536) % 256
           /\ ((x % 4294967296) \div 16777216) % 256 = (x \div 16777216) % 256
<1>1. (x % 4294967296) % 256 = x % 256
  BY SMT
<1>2. ((x % 4294967296) \div 256) % 256 = (x \div 256) % 256
  BY SMT
<1>3. ((x % 4294967296) \div 65536) % 256 = (x \div 65536) % 256
  BY SMT
<1>4. ((x % 4294967296) \div 16777216) % 256 = (x \div 16777216) % 256
  <2> DEFINE q == x \div 4294967296
             r == x % 4294967296
  <2>1. q \in Nat /\ r \in Nat /\ r < 4294967296 /\ x = 4294967296 * q + r
    BY SMT
  <2> HIDE DEF q, r
  <2>2. x \div 16777216 = 256 * q + (r \div 16777216) /\ (r \div 16777216) \in Nat
    BY <2>1, SMT
  <2>3. \A y \in Nat : (256 * q + y) % 256 = y % 256
    BY <2>1, SMT
  <2> QED BY <2>2, <2>3, SMT DEF r
<1> QED BY <1>1, <1>2, <1>3, <1>4, SMT

\* So are those of the high word.
LEMMA HighBytes ==
    ASSUME NEW x \in Nat
    PROVE  LET h == (x \div 4294967296) % 4294967296
           IN  /\ h % 256 = (x \div 4294967296) % 256
               /\ (h \div 256) % 256 = (x \div 1099511627776) % 256
               /\ (h \div 65536) % 256 = (x \div 281474976710656) % 256
               /\ (h \div 16777216) % 256 = (x \div 72057594037927936) % 256
<1> DEFINE y == x \div 4294967296
<1>1. y \div 256 = x \div 1099511627776
  BY SMT
<1>2. y \div 65536 = x \div 281474976710656
  BY SMT
<1>3. y \div 16777216 = x \div 72057594037927936
  BY SMT
<1>4. y \in Nat
  BY SMT
<1>5. /\ (y % 4294967296) % 256 = y % 256
      /\ ((y % 4294967296) \div 256) % 256 = (y \div 256) % 256
      /\ ((y % 4294967296) \div 65536) % 256 = (y \div 65536) % 256
      /\ ((y % 4294967296) \div 16777216) % 256 = (y \div 16777216) % 256
  <2> HIDE DEF y
  <2> QED BY <1>4, LowBytes, SMT
<1> QED BY <1>1, <1>2, <1>3, <1>5, SMT

\* Adding with a carry: the low word wraps when it comes out below what was
\* added to it.
LEMMA Carries ==
    ASSUME NEW a \in Nat, NEW b \in Nat
    PROVE  /\ (a + b) \div 4294967296 =
                 (a \div 4294967296) + (b \div 4294967296)
                 + (IF ((a % 4294967296) + (b % 4294967296)) % 4294967296 < b % 4294967296 THEN 1 ELSE 0)
           /\ ((a % 4294967296) + b) % 4294967296 = (a + b) % 4294967296
<1>1. (a + b) \div 4294967296 =
         (a \div 4294967296) + (b \div 4294967296)
         + (IF ((a % 4294967296) + (b % 4294967296)) % 4294967296 < b % 4294967296 THEN 1 ELSE 0)
  BY SMT
<1>2. ((a % 4294967296) + b) % 4294967296 = (a + b) % 4294967296
  BY SMT
<1> QED BY <1>1, <1>2, SMT

\* So for words.
LEMMA WordCarries ==
    ASSUME RealSizes, NEW a \in Nat, NEW b \in Nat
    PROVE  /\ (a + b) \div Word =
                 (a \div Word) + (b \div Word)
                 + (IF ((a % Word) + (b % Word)) % Word < b % Word THEN 1 ELSE 0)
           /\ ((a % Word) + b) % Word = (a + b) % Word
           /\ a \div Word \in Nat /\ a % Word \in Nat
<1>1. Word = 4294967296
  BY SMT DEF RealSizes
<1>2. a \div Word \in Nat /\ a % Word \in Nat
  BY <1>1, SMT
<1> QED BY <1>1, <1>2, Carries, SMT

\* A word counts as many bits as an eighth of it bytes.
LEMMA WordOfBytes ==
    ASSUME RealSizes, NEW n \in Nat PROVE n \div (Word \div 8) = (8 * n) \div Word
<1>1. Word = 4294967296 /\ Word \div 8 = 536870912
  BY SMT DEF RealSizes
<1>2. n \div 536870912 = (8 * n) \div 4294967296
  BY SMT
<1> QED BY <1>1, <1>2, SMT

\* Counting keeps the high word in step with the length.
LEMMA CountedHighIs ==
    ASSUME RealSizes, NEW count \in [0..1 -> 0..(Word - 1)], NEW l \in Nat, NEW n \in Nat,
           count[0] = (8 * l) % Word, count[1] = ((8 * l) \div Word) % Word
    PROVE  Counted(count, n)[1] = ((8 * (l + n)) \div Word) % Word
<1> DEFINE a     == 8 * l
           b     == 8 * n
           h     == a \div Word
           k     == b \div Word
           low   == ((a % Word) + (b % Word)) % Word
           carry == IF low < b % Word THEN 1 ELSE 0
<1>1. a \in Nat /\ b \in Nat /\ a + b = 8 * (l + n)
  OBVIOUS
<1>2. n \div (Word \div 8) = k
  BY WordOfBytes
<1>3. Counted(count, n)[1] = ((h % Word) + k + carry) % Word
  <2>1. 1 \in 0..1 /\ 1 # 0
    OBVIOUS
  <2>2. count[0] = a % Word /\ count[1] = h % Word
    OBVIOUS
  <2>3. Counted(count, n) = [w \in 0..1 |-> IF w = 0 THEN low ELSE ((h % Word) + k + carry) % Word]
    BY <1>2, <2>2 DEF Counted
  <2> HIDE DEF low, h, k, carry
  <2> QED BY <2>1, <2>3
<1>4. count[0] = a % Word /\ count[1] = h % Word
  OBVIOUS
<1> HIDE DEF a, b
<1>5. (a + b) \div Word = h + k + carry
  BY <1>1, WordCarries
<1>6. h \in Nat /\ k \in Nat
  BY <1>1, WordCarries
<1> HIDE DEF h, k
<1>7. h % Word \in Nat /\ \A c \in Nat : ((h % Word) + c) % Word = (h + c) % Word
  BY <1>6, WordCarries
<1>8. carry \in Nat
  <2> HIDE DEF low
  <2> QED OBVIOUS
<1> HIDE DEF carry
<1>9. k + carry \in Nat /\ h + k + carry = h + (k + carry) /\ (h % Word) + k + carry = (h % Word) + (k + carry)
  BY <1>6, <1>7, <1>8
<1>10. Counted(count, n)[1] = (h + k + carry) % Word
  BY <1>3, <1>7, <1>9
<1>11. Counted(count, n)[1] = ((a + b) \div Word) % Word
  BY <1>5, <1>10
<1> QED BY <1>1, <1>11 DEF a, b

\* md5_append counts what it is given, and md5_process counts nothing.
LEMMA AppendedCount ==
    ASSUME NEW p \in State, NEW d \in Seq(Bytes)
    PROVE  Appended(p, d).count = IF Len(d) = 0 THEN p.count ELSE Counted(p.count, Len(d))
<1> DEFINE o    == Offset(p)
           n    == Len(d)
           copy == IF o + n > Block THEN Block - o ELSE n
           c    == Counted(p.count, n)
           q    == [p EXCEPT !.count = c]
           head == SubSeq(d, 1, copy)
           r    == [q EXCEPT !.buf = Memcpy(@, o, head)]
           t    == [r EXCEPT !.absorbed = @ \o r.buf]
           rest == Rest(d, copy)
<1>1. Appended(p, d) = IF n = 0 THEN p ELSE IF o = 0 THEN Tailed(q, d)
                       ELSE IF o + copy < Block THEN r ELSE Tailed(t, rest)
  BY DEF Appended, Offset
<1>2. q.count = c /\ q = [count |-> c, buf |-> q.buf, absorbed |-> q.absorbed]
  <2>1. p = [count |-> p.count, buf |-> p.buf, absorbed |-> p.absorbed]
    BY DEF State
  <2> HIDE DEF c
  <2> QED BY <2>1
<1> HIDE DEF q
<1>3. r.count = c /\ r = [count |-> c, buf |-> r.buf, absorbed |-> r.absorbed]
  <2> DEFINE b == Memcpy(q.buf, o, head)
  <2>1. r = [q EXCEPT !.buf = b]
    OBVIOUS
  <2> HIDE DEF b, c, r
  <2>2. r = [count |-> c, buf |-> b, absorbed |-> q.absorbed]
    BY <1>2, <2>1
  <2> QED BY <2>2
<1> HIDE DEF r
<1>4. t.count = c /\ t = [count |-> c, buf |-> t.buf, absorbed |-> t.absorbed]
  <2> DEFINE b == r.absorbed \o r.buf
  <2>1. t = [r EXCEPT !.absorbed = b]
    OBVIOUS
  <2> HIDE DEF b, c, t
  <2>2. t = [count |-> c, buf |-> r.buf, absorbed |-> b]
    BY <1>3, <2>1
  <2> QED BY <2>2
<1> HIDE DEF t, c, o, copy, n, rest
<1>5. ASSUME NEW u, u = [count |-> c, buf |-> u.buf, absorbed |-> u.absorbed], NEW e
      PROVE  Tailed(u, e).count = c
  <2> DEFINE full == Len(e) - (Len(e) % Block)
             a    == u.absorbed \o SubSeq(e, 1, full)
             b    == Memcpy(u.buf, 0, SubSeq(e, full + 1, Len(e)))
             w    == [u EXCEPT !.absorbed = a]
             v    == Tailed(u, e)
  <2>1. v = [w EXCEPT !.buf = b]
    BY DEF Tailed
  <2>2. u = [count |-> c, buf |-> u.buf, absorbed |-> u.absorbed]
    BY <1>5
  <2> HIDE DEF a, b, v
  <2>3. w = [count |-> c, buf |-> u.buf, absorbed |-> a]
    BY <2>2
  <2> HIDE DEF w
  <2>4. v.count = c
    BY <2>1, <2>3
  <2> QED BY <2>4 DEF v
<1>6. Appended(p, d).count = IF n = 0 THEN p.count ELSE c
  <2>1. Tailed(q, d).count = c
    BY <1>2, <1>5
  <2>2. Tailed(t, rest).count = c
    BY <1>4, <1>5
  <2> QED BY <1>1, <1>3, <2>1, <2>2
<1> QED BY <1>6 DEF c, n

\* The high word stays in step, wherever in a block m ends.
LEMMA AppendedHigh ==
    ASSUME RealSizes, NEW p \in State, NEW m \in Seq(Bytes), NEW d \in Seq(Bytes),
           CountedLow(p, m), CountedHigh(p, m)
    PROVE  CountedHigh(Appended(p, d), m \o d)
<1>1. Len(m) \in Nat /\ Len(d) \in Nat /\ Len(m \o d) = Len(m) + Len(d)
  BY LenProperties, ConcatProperties
<1>2. p.count \in [0..1 -> 0..(Word - 1)]
  BY DEF State
<1>3. Counted(p.count, Len(d))[1] = ((8 * (Len(m) + Len(d))) \div Word) % Word
  BY <1>1, <1>2, CountedHighIs DEF CountedLow, CountedHigh
<1>4. Appended(p, d).count = IF Len(d) = 0 THEN p.count ELSE Counted(p.count, Len(d))
  BY AppendedCount
<1>5. CASE Len(d) = 0
  <2>1. Len(m \o d) = Len(m)
    BY <1>1, <1>5
  <2> QED BY <1>4, <1>5, <2>1 DEF CountedHigh
<1>6. CASE Len(d) # 0
  BY <1>1, <1>3, <1>4, <1>6 DEF CountedHigh
<1> QED BY <1>5, <1>6

-----------------------------------------------------------------------------
\* The bytes md5_finish ends with are those of the length in bits.
LEMMA LengthIs ==
    ASSUME RealSizes, NEW p \in State, NEW m \in Seq(Bytes), CountedLow(p, m), CountedHigh(p, m)
    PROVE  LengthBytes(p) = [i \in 1..LenBytes |-> ((8 * Len(m)) \div Radix^(i - 1)) % Radix]
<1> DEFINE x  == 8 * Len(m)
           lo == p.count[0]
           hi == p.count[1]
<1>1. x \in Nat
  BY LenProperties
<1>2. Word = 4294967296 /\ LenBytes = 8 /\ Radix = 256 /\ Half = 4
  BY SMT DEF RealSizes, Half
<1>3. lo = x % 4294967296 /\ hi = (x \div 4294967296) % 4294967296
  BY <1>2, SMT DEF CountedLow, CountedHigh
<1> HIDE DEF x, lo, hi
<1>4. /\ lo % 256 = x % 256
      /\ (lo \div 256) % 256 = (x \div 256) % 256
      /\ (lo \div 65536) % 256 = (x \div 65536) % 256
      /\ (lo \div 16777216) % 256 = (x \div 16777216) % 256
  BY <1>1, <1>3, LowBytes, SMT
<1>5. /\ hi % 256 = (x \div 4294967296) % 256
      /\ (hi \div 256) % 256 = (x \div 1099511627776) % 256
      /\ (hi \div 65536) % 256 = (x \div 281474976710656) % 256
      /\ (hi \div 16777216) % 256 = (x \div 72057594037927936) % 256
  BY <1>1, <1>3, HighBytes, SMT
<1>6. lo \in Nat /\ hi \in Nat /\ lo \div 1 = lo /\ hi \div 1 = hi /\ x \div 1 = x
  <2>1. lo \in Nat /\ hi \in Nat
    BY <1>1, <1>3, SMT
  <2> QED BY <2>1, <1>1
<1>12. /\ Place(0) = 1 /\ Place(1) = 256 /\ Place(2) = 65536 /\ Place(3) = 16777216
       /\ Place(4) = 4294967296 /\ Place(5) = 1099511627776
       /\ Place(6) = 281474976710656 /\ Place(7) = 72057594037927936
  BY SMT DEF RealSizes
<1>7. /\ (lo \div Place(0)) % 256 = (x \div Place(0)) % 256
      /\ (lo \div Place(1)) % 256 = (x \div Place(1)) % 256
      /\ (lo \div Place(2)) % 256 = (x \div Place(2)) % 256
      /\ (lo \div Place(3)) % 256 = (x \div Place(3)) % 256
  <2>1. (lo \div Place(0)) % 256 = (x \div Place(0)) % 256
    BY ONLY <1>4, <1>6, <1>12, SMTT(30)
  <2>2. (lo \div Place(1)) % 256 = (x \div Place(1)) % 256
    BY ONLY <1>4, <1>12, SMT
  <2>3. (lo \div Place(2)) % 256 = (x \div Place(2)) % 256
    BY ONLY <1>4, <1>12, SMT
  <2>4. (lo \div Place(3)) % 256 = (x \div Place(3)) % 256
    BY ONLY <1>4, <1>12, SMT
  <2> QED BY <2>1, <2>2, <2>3, <2>4
<1>8. /\ (hi \div Place(0)) % 256 = (x \div Place(4)) % 256
      /\ (hi \div Place(1)) % 256 = (x \div Place(5)) % 256
      /\ (hi \div Place(2)) % 256 = (x \div Place(6)) % 256
      /\ (hi \div Place(3)) % 256 = (x \div Place(7)) % 256
  <2>1. (hi \div Place(0)) % 256 = (x \div Place(4)) % 256
    BY ONLY <1>5, <1>6, <1>12, SMTT(30)
  <2>2. (hi \div Place(1)) % 256 = (x \div Place(5)) % 256
    BY ONLY <1>5, <1>12, SMT
  <2>3. (hi \div Place(2)) % 256 = (x \div Place(6)) % 256
    BY ONLY <1>5, <1>12, SMT
  <2>4. (hi \div Place(3)) % 256 = (x \div Place(7)) % 256
    BY ONLY <1>5, <1>12, SMT
  <2> QED BY <2>1, <2>2, <2>3, <2>4
<1>9. ASSUME NEW i \in 1..8
      PROVE  (p.count[(i - 1) \div 4] \div Place((i - 1) % 4)) % 256 = (x \div Place(i - 1)) % 256
  <2>1. CASE i = 1
    <3>1. (i - 1) \div 4 = 0 /\ (i - 1) % 4 = 0 /\ i - 1 = 0
      BY <2>1
    <3> QED BY <1>7, <3>1 DEF lo
  <2>2. CASE i = 2
    <3>1. (i - 1) \div 4 = 0 /\ (i - 1) % 4 = 1 /\ i - 1 = 1
      BY <2>2
    <3> QED BY <1>7, <3>1 DEF lo
  <2>3. CASE i = 3
    <3>1. (i - 1) \div 4 = 0 /\ (i - 1) % 4 = 2 /\ i - 1 = 2
      BY <2>3
    <3> QED BY <1>7, <3>1 DEF lo
  <2>4. CASE i = 4
    <3>1. (i - 1) \div 4 = 0 /\ (i - 1) % 4 = 3 /\ i - 1 = 3
      BY <2>4
    <3> QED BY <1>7, <3>1 DEF lo
  <2>5. CASE i = 5
    <3>1. (i - 1) \div 4 = 1 /\ (i - 1) % 4 = 0 /\ i - 1 = 4
      BY <2>5
    <3> QED BY <1>8, <3>1 DEF hi
  <2>6. CASE i = 6
    <3>1. (i - 1) \div 4 = 1 /\ (i - 1) % 4 = 1 /\ i - 1 = 5
      BY <2>6
    <3> QED BY <1>8, <3>1 DEF hi
  <2>7. CASE i = 7
    <3>1. (i - 1) \div 4 = 1 /\ (i - 1) % 4 = 2 /\ i - 1 = 6
      BY <2>7
    <3> QED BY <1>8, <3>1 DEF hi
  <2>8. CASE i = 8
    <3>1. (i - 1) \div 4 = 1 /\ (i - 1) % 4 = 3 /\ i - 1 = 7
      BY <2>8
    <3> QED BY <1>8, <3>1 DEF hi
  <2> QED BY <2>1, <2>2, <2>3, <2>4, <2>5, <2>6, <2>7, <2>8
<1>10. LengthBytes(p) =
         [i \in 1..8 |-> (p.count[(i - 1) \div 4] \div Place((i - 1) % 4)) % 256]
  BY <1>2 DEF LengthBytes
<1>11. [i \in 1..LenBytes |-> ((8 * Len(m)) \div Radix^(i - 1)) % Radix] =
         [i \in 1..8 |-> (x \div Place(i - 1)) % 256]
  BY <1>2 DEF x, Place
<1> QED BY <1>9, <1>10, <1>11, ZenonT(40)

\* The mark and the zeros: what count says is what the length of m asks for.
LEMMA PadLengthIs ==
    ASSUME RealSizes, NEW p \in State, NEW m \in Seq(Bytes), CountedLow(p, m)
    PROVE  PadLength(p) = ((55 - Len(m)) % 64) + 1
<1>1. Len(m) \in Nat
  BY LenProperties
<1>2. Block = 64 /\ LenBytes = 8
  BY SMT DEF RealSizes
<1>3. PadLength(p) = ((55 - (p.count[0] \div 8)) % 64) + 1
  <2> DEFINE k == p.count[0] \div 8
  <2>1. PadLength(p) = (((64 - 8 - 1) - k) % 64) + 1
    BY <1>2, Zenon DEF PadLength
  <2> HIDE DEF k
  <2>2. 64 - 8 - 1 = 55
    OBVIOUS
  <2> QED BY <2>1, <2>2, Zenon DEF k
<1>4. p.count[0] = (8 * Len(m)) % 4294967296
  BY SMT DEF CountedLow, RealSizes
<1>6. (55 - (((8 * Len(m)) % 4294967296) \div 8)) % 64 = (55 - Len(m)) % 64
  <2>1. \A n \in Nat : (55 - (((8 * n) % 4294967296) \div 8)) % 64 = (55 - n) % 64
    BY SMT
  <2> QED BY ONLY <1>1, <2>1, SMT
<1> QED BY <1>3, <1>4, <1>6, SMT

\* The zeros of RFC 1321.
LEMMA PaddingZeros ==
    ASSUME RealSizes, NEW n \in Nat
    PROVE  (CHOOSE z \in 0..(Block - 1) : (n + 1 + z + LenBytes) % Block = 0) = (55 - n) % 64
<1>1. Block = 64 /\ LenBytes = 8
  BY SMT DEF RealSizes
<1> DEFINE P(z) == (n + 1 + z + 8) % 64 = 0
           w    == (55 - n) % 64
<1>2. w \in 0..63
  BY SMT
<1>3. ASSUME NEW z \in 0..63 PROVE P(z) <=> z = w
  BY SMT
<1> HIDE DEF P, w
<1>4. \E z \in 0..63 : P(z)
  BY <1>2, <1>3
<1>5. (CHOOSE z \in 0..63 : P(z)) \in 0..63 /\ P(CHOOSE z \in 0..63 : P(z))
  BY <1>4, Zenon
<1>6. (CHOOSE z \in 0..63 : P(z)) = w
  BY <1>3, <1>5, Zenon
<1>7. 64 - 1 = 63
  OBVIOUS
<1> QED BY <1>1, <1>6, <1>7, Zenon DEF P, w

\* The mark and n zeros.
LEMMA PadIs ==
    ASSUME Mark \in Bytes, 0 \in Bytes, NEW n \in Nat
    PROVE  /\ Pad(n + 1) = <<Mark>> \o [i \in 1..n |-> 0]
           /\ Pad(n + 1) \in Seq(Bytes) /\ Len(Pad(n + 1)) = n + 1
<1> DEFINE z == [i \in 1..n |-> 0]
           a == <<Mark>>
           l == Pad(n + 1)
<1>1. z \in [1..n -> Bytes]
  OBVIOUS
<1>2. z \in Seq(Bytes) /\ Len(z) = n
  <2>1. DOMAIN z = 1..n
    OBVIOUS
  <2>2. z \in Seq(Bytes)
    BY <1>1, SeqDef
  <2> HIDE DEF z
  <2> QED BY <2>1, <2>2, LenProperties
<1>3. a \in Seq(Bytes) /\ Len(a) = 1 /\ a[1] = Mark
  OBVIOUS
<1>4. l \in [1..(n + 1) -> Bytes] /\ \A i \in 1..(n + 1) : l[i] = IF i = 1 THEN Mark ELSE 0
  BY DEF Pad
<1>5. l \in Seq(Bytes) /\ Len(l) = n + 1
  <2>1. n + 1 \in Nat
    OBVIOUS
  <2> HIDE DEF l
  <2>2. l \in Seq(Bytes)
    BY <2>1, <1>4, SeqDef
  <2>3. DOMAIN l = 1..(n + 1)
    BY <1>4
  <2> QED BY <2>1, <2>2, <2>3, LenProperties
<1>6. \A i \in 1..n : z[i] = 0
  OBVIOUS
<1> HIDE DEF z, a, l
<1>7. /\ a \o z \in Seq(Bytes) /\ Len(a \o z) = Len(a) + Len(z)
      /\ \A i \in 1..(Len(a) + Len(z)) : (a \o z)[i] = IF i <= Len(a) THEN a[i] ELSE z[i - Len(a)]
  BY <1>2, <1>3, ConcatProperties
<1>8. Len(a \o z) = n + 1
  BY <1>2, <1>3, <1>7
<1>9. ASSUME NEW i \in 1..(n + 1) PROVE (a \o z)[i] = l[i]
  <2>0. i \in 1..(1 + n) /\ (a \o z)[i] = IF i <= 1 THEN a[i] ELSE z[i - 1]
    <3>1. i \in 1..(1 + n)
      OBVIOUS
    <3> QED BY <3>1, <1>2, <1>3, <1>7
  <2>1. CASE i = 1
    BY <2>0, <2>1, <1>3, <1>4
  <2>2. CASE i # 1
    <3>1. ~(i <= 1) /\ i - 1 \in 1..n
      BY <2>2
    <3> QED BY <3>1, <2>0, <2>2, <1>4, <1>6
  <2> QED BY <2>1, <2>2
<1>10. l = a \o z
  BY <1>5, <1>7, <1>8, <1>9, SeqEqual
<1> QED BY <1>5, <1>10 DEF a, z, l

\* What md5_finish appends is what RFC 1321 asks for.
LEMMA PaddingOf ==
    ASSUME RealSizes, NEW p \in State, NEW m \in Seq(Bytes), CountedLow(p, m), CountedHigh(p, m)
    PROVE  /\ Pad(PadLength(p)) \in Seq(Bytes) /\ LengthBytes(p) \in Seq(Bytes)
           /\ Padding(Len(m)) = Pad(PadLength(p)) \o LengthBytes(p)
           /\ (Len(m) + Len(Pad(PadLength(p))) + Len(LengthBytes(p))) % 64 = 0
<1> DEFINE n  == Len(m)
           z  == (55 - n) % 64
           lb == LengthBytes(p)
<1>1. n \in Nat
  BY LenProperties
<1>2. z \in 0..63 /\ z \in Nat /\ (n + (z + 1) + 8) % 64 = 0
  <2> HIDE DEF n
  <2>1. z \in 0..63 /\ z \in Nat
    BY <1>1, SMT
  <2>2. (n + 1 + z + 8) % 64 = 0
    BY <1>1, SMT
  <2>3. n + 1 + z + 8 = n + (z + 1) + 8
    <3> HIDE DEF z
    <3> QED BY <1>1, <2>1
  <2> QED BY <2>1, <2>2, <2>3, Zenon
<1>3. PadLength(p) = z + 1
  BY PadLengthIs
<1>4. Mark \in Bytes /\ 0 \in Bytes /\ LenBytes = 8
  <2>1. Radix = 256 /\ LenBytes = 8
    BY SMT DEF RealSizes
  <2> QED BY <2>1 DEF Mark, Bytes
<1>5. (CHOOSE y \in 0..(Block - 1) : (n + 1 + y + LenBytes) % Block = 0) = z
  <2> HIDE DEF n
  <2> QED BY <1>1, PaddingZeros
<1>6. lb \in Seq(Bytes)
  BY PaddingIs
<1>7. Len(lb) = 8
  <2>1. DOMAIN lb = 1..8
    BY <1>4 DEF LengthBytes
  <2> HIDE DEF lb
  <2>2. 8 \in Nat
    OBVIOUS
  <2> QED BY <2>1, <2>2, <1>6, LenProperties
<1>8. lb = [i \in 1..LenBytes |-> ((8 * n) \div Radix^(i - 1)) % Radix]
  BY LengthIs
<1>9. Padding(n) = <<Mark>> \o [i \in 1..z |-> 0] \o lb
  <2> HIDE DEF lb, z, n
  <2> QED BY <1>5, <1>8, Zenon DEF Padding
<1> HIDE DEF z, lb
<1>10. /\ Pad(z + 1) = <<Mark>> \o [i \in 1..z |-> 0]
       /\ Pad(z + 1) \in Seq(Bytes) /\ Len(Pad(z + 1)) = z + 1
  BY <1>2, <1>4, PadIs
<1>11. Padding(n) = Pad(z + 1) \o lb
  BY <1>9, <1>10, Zenon
<1>12. (n + Len(Pad(z + 1)) + Len(lb)) % 64 = 0
  BY <1>2, <1>7, <1>10, Zenon
<1> QED BY <1>3, <1>6, <1>10, <1>11, <1>12, Zenon DEF n, lb

\* A message that ends with a block once padded is wholly processed.
LEMMA FinishedIs ==
    ASSUME RealSizes, NEW p \in State, NEW m \in Seq(Bytes), Parts(p, m),
           CountedLow(p, m), CountedHigh(p, m)
    PROVE  Finished(p).absorbed = m \o Padding(Len(m))
<1> DEFINE z == Pad(PadLength(p))
           l == LengthBytes(p)
           q == Appended(p, z)
           r == Appended(q, l)
<1>1. /\ z \in Seq(Bytes) /\ l \in Seq(Bytes)
      /\ Padding(Len(m)) = z \o l
      /\ (Len(m) + Len(z) + Len(l)) % 64 = 0
  BY PaddingOf
<1>2. Finished(p) = r
  BY DEF Finished
<1> HIDE DEF z, l
<1>3. q \in State /\ Parts(q, m \o z) /\ CountedLow(q, m \o z)
  BY <1>1, AppendedParts
<1> HIDE DEF q
<1>4. m \o z \in Seq(Bytes) /\ Len(m \o z) = Len(m) + Len(z)
  BY <1>1, ConcatProperties
<1>5. r \in State /\ Parts(r, (m \o z) \o l)
  BY <1>1, <1>3, <1>4, AppendedParts
<1> HIDE DEF r
<1>6. (m \o z) \o l \in Seq(Bytes) /\ Len((m \o z) \o l) = Len(m) + Len(z) + Len(l)
  <2> DEFINE mz == m \o z
  <2>1. mz \in Seq(Bytes) /\ Len(mz) = Len(m) + Len(z)
    BY <1>4
  <2> HIDE DEF mz
  <2>2. mz \o l \in Seq(Bytes) /\ Len(mz \o l) = Len(mz) + Len(l)
    BY <1>1, <2>1, ConcatProperties
  <2> QED BY <2>1, <2>2, Zenon DEF mz
<1>7. Block = 64
  BY SMT DEF RealSizes
<1>8. Len((m \o z) \o l) % Block = 0
  BY <1>1, <1>6, <1>7, Zenon
<1>9. r.absorbed = (m \o z) \o l
  BY <1>5, <1>6, <1>7, <1>8, WholeAbsorbed
<1>10. (m \o z) \o l = m \o (z \o l)
  <2>1. m \in Seq(Bytes) /\ z \in Seq(Bytes) /\ l \in Seq(Bytes)
    BY <1>1
  <2> QED BY ONLY <2>1, ConcatAssociative
<1> QED BY <1>1, <1>2, <1>9, <1>10, Zenon

\* A new state has counted nothing and finished nothing.
LEMMA HashedInit == ASSUME RealSizes, Init PROVE Hashed
<1>1. pms.count[1] = 0 /\ msg = << >> /\ ~finished
  BY DEF Init, Reset
<1>2. Len(msg) = 0
  BY <1>1
<1>3. ((8 * 0) \div Word) % Word = 0
  BY SMT DEF RealSizes
<1> QED BY <1>1, <1>2, <1>3 DEF Hashed, HashesPadded, CountedHigh

\* Every call keeps count in step and md5_finish pads.
LEMMA HashedStep == ASSUME RealSizes, IInv, Hashed, [Next]_vars PROVE Hashed'
<1>1. pms \in State /\ msg \in Seq(Bytes)
  BY DEF IInv, TypeOK
<1>2. CASE md5_init
  <2>1. pms'.count[1] = 0 /\ msg' = << >> /\ finished' = FALSE
    BY <1>2 DEF md5_init, Reset
  <2>2. Len(msg') = 0
    BY <2>1
  <2>3. ((8 * 0) \div Word) % Word = 0
    BY SMT DEF RealSizes
  <2> QED BY <2>1, <2>2, <2>3 DEF Hashed, HashesPadded, CountedHigh
<1>3. ASSUME NEW data \in Pieces, md5_append(data) PROVE Hashed'
  <2>1. data \in Seq(Bytes)
    BY Md5Assumption
  <2>2. ~finished /\ pms' = Appended(pms, data) /\ msg' = msg \o data /\ finished' = finished
    BY <1>3 DEF md5_append
  <2>3. CountedHigh(Appended(pms, data), msg \o data)
    BY <1>1, <2>1, <2>2, AppendedHigh DEF IInv, Hashed
  <2>4. pms'.count[1] = ((8 * Len(msg')) \div Word) % Word
    BY <2>2, <2>3 DEF CountedHigh
  <2> QED BY <2>2, <2>4 DEF Hashed, HashesPadded, CountedHigh
<1>4. CASE md5_finish
  <2>1. ~finished /\ pms' = Finished(pms) /\ finished' = TRUE /\ msg' = msg
    BY <1>4 DEF md5_finish
  <2>2. Finished(pms).absorbed = msg \o Padding(Len(msg))
    BY <1>1, <2>1, FinishedIs DEF IInv, Hashed
  <2>3. pms'.absorbed = msg' \o Padding(Len(msg'))
    BY <2>1, <2>2
  <2> QED BY <2>1, <2>3 DEF Hashed, HashesPadded
<1>5. CASE UNCHANGED vars
  BY <1>5 DEF vars, Hashed, HashesPadded, CountedHigh
<1> QED BY <1>2, <1>3, <1>4, <1>5 DEF Next

\* What md5_process is given is the padded message of RFC 1321 3.1, 3.2, for
\* messages of every length and however they were split, also once the length
\* has outgrown a word or both (md5_finish, CMd5.cpp 307-328).
THEOREM PaddedAlike == ASSUME RealSizes PROVE Spec => []HashesPadded
<1>1. Init => IInv /\ Hashed
  BY InitIInv, HashedInit
<1>2. IInv /\ Hashed /\ [Next]_vars => (IInv /\ Hashed)'
  BY NextIInv, HashedStep
<1>3. Hashed => HashesPadded
  BY DEF Hashed
<1> QED BY <1>1, <1>2, <1>3, PTL DEF Spec

=============================================================================
