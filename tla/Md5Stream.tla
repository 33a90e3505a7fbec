------------------------------ MODULE Md5Stream ------------------------------
(***************************************************************************)
(* How conhash/CMd5.cpp cuts a message into blocks: md5_init, md5_append   *)
(* called any number of times, md5_finish. What md5_process makes of the   *)
(* blocks is abstracted to the bytes it has been given, in order; the      *)
(* digest is a function of these.                                          *)
(*                                                                         *)
(* The sizes are constants, so that TLC can let words overflow soon; the   *)
(* code's are Block = 64, LenBytes = 8, Radix = 256, Word = 2^32.          *)
(***************************************************************************)
EXTENDS Integers, Sequences

CONSTANTS
    Block,      \* bytes of a block
    LenBytes,   \* bytes of the length that ends the message
    Radix,      \* values of a byte
    Word,       \* values of a word of count, which is half of the length
    Pieces,     \* what md5_append may be given
    MaxLen      \* bound: bytes of a message

Bytes == 0..(Radix - 1)
Half  == LenBytes \div 2
Mark  == 128 % Radix         \* 0x80

ASSUME Md5Assumption ==
    /\ Radix \in Nat /\ Radix > 1 /\ LenBytes \in Nat /\ Block \in Nat
    /\ LenBytes % 2 = 0 /\ LenBytes > 0 /\ LenBytes < Block
    /\ Word = Radix^Half /\ Word % (8 * Block) = 0
    /\ Pieces \subseteq Seq(Bytes)
    /\ MaxLen \in Nat

VARIABLES
    pms,       \* md5_state_t
    msg,       \* all that was appended since md5_init
    finished   \* whether md5_finish was called

vars == <<pms, msg, finished>>

State == [count : [0..1 -> 0..(Word - 1)], buf : [1..Block -> Bytes], absorbed : Seq(Bytes)]

\* buf is not initialised: it holds what was there before.
Reset(buf) == [count |-> [w \in 0..1 |-> 0], buf |-> buf, absorbed |-> << >>]

Init ==
    /\ pms = Reset([i \in 1..Block |-> 0])
    /\ msg = << >>
    /\ finished = FALSE

-----------------------------------------------------------------------------
Memcpy(buf, at, bytes) ==
    [i \in 1..Block |-> IF i \in (at + 1)..(at + Len(bytes)) THEN bytes[i - at] ELSE buf[i]]

\* Mutant: words that do not wrap.
CountedUnwrapped(count, nbytes) == [count EXCEPT ![0] = @ + 8 * nbytes]

\* The length in bits, in two words, with a carry.
Counted(count, nbytes) ==
    LET nbits == (8 * nbytes) % Word
        low   == (count[0] + nbits) % Word
        carry == IF low < nbits THEN 1 ELSE 0
    IN  [w \in 0..1 |-> IF w = 0 THEN low
                        ELSE (count[1] + (nbytes \div (Word \div 8)) + carry) % Word]

Offset(p) == (p.count[0] \div 8) % Block

\* Mutant: the pointer does not move past what was copied.
RestFromStart(data, copy) == SubSeq(data, 1, Len(data) - copy)

Rest(data, copy) == SubSeq(data, copy + 1, Len(data))

\* Full blocks go to md5_process as they are, what is left to buf.
Tailed(p, data) ==
    LET full == Len(data) - (Len(data) % Block)
    IN  [p EXCEPT !.absorbed = @ \o SubSeq(data, 1, full),
                  !.buf = Memcpy(@, 0, SubSeq(data, full + 1, Len(data)))]

Appended(p, data) ==
    LET offset == Offset(p)
        copy   == IF offset + Len(data) > Block THEN Block - offset ELSE Len(data)
        q      == [p EXCEPT !.count = Counted(@, Len(data))]
        r      == [q EXCEPT !.buf = Memcpy(@, offset, SubSeq(data, 1, copy))]
    IN  IF Len(data) = 0 THEN p
        ELSE IF offset = 0 THEN Tailed(q, data)
        ELSE IF offset + copy < Block THEN r
        ELSE Tailed([r EXCEPT !.absorbed = @ \o r.buf], Rest(data, copy))

\* Mutant: one byte short when the message ends just before the length.
PadLengthShort(p) == (((Block - LenBytes) - (p.count[0] \div 8)) % Block) + 1

PadLength(p) == (((Block - LenBytes - 1) - (p.count[0] \div 8)) % Block) + 1

Pad(n) == [i \in 1..n |-> IF i = 1 THEN Mark ELSE 0]

\* What a byte of a word counts for.
Place(k) == Radix^k

\* The bytes of count, least significant first.
LengthBytes(p) ==
    [i \in 1..LenBytes |-> (p.count[(i - 1) \div Half] \div Place((i - 1) % Half)) % Radix]

Finished(p) == Appended(Appended(p, Pad(PadLength(p))), LengthBytes(p))

-----------------------------------------------------------------------------
\* A new md5_state_t, where the last one was
md5_init ==
    /\ pms' = Reset(pms.buf)
    /\ msg' = << >>
    /\ finished' = FALSE

md5_append(data) ==
    /\ ~finished
    /\ Len(msg) + Len(data) <= MaxLen
    /\ pms' = Appended(pms, data)
    /\ msg' = msg \o data
    /\ UNCHANGED finished

md5_finish ==
    /\ ~finished
    /\ pms' = Finished(pms)
    /\ finished' = TRUE
    /\ UNCHANGED msg

Next == md5_init \/ (\E data \in Pieces : md5_append(data)) \/ md5_finish

Spec == Init /\ [][Next]_vars

-----------------------------------------------------------------------------
\* The words of count stay words, buf keeps its size, blocks are made of bytes.
TypeOK == pms \in State /\ msg \in Seq(Bytes) /\ finished \in BOOLEAN

\* Every byte of the message is in the blocks processed or in buf, once and in
\* order, however the message was split: none is lost, doubled or stale.
Absorbs ==
    ~finished =>
        /\ Len(pms.absorbed) = Len(msg) - (Len(msg) % Block)
        /\ Offset(pms) = Len(msg) % Block
        /\ pms.absorbed \o SubSeq(pms.buf, 1, Len(msg) % Block) = msg

\* RFC 1321 3.1, 3.2: the mark, the fewest zeros that leave room for the length
\* in the last block, the length in bits modulo its size.
Padding(n) ==
    LET zeros == CHOOSE z \in 0..(Block - 1) : (n + 1 + z + LenBytes) % Block = 0
    IN  <<Mark>> \o [i \in 1..zeros |-> 0]
        \o [i \in 1..LenBytes |-> ((8 * n) \div Radix^(i - 1)) % Radix]

\* What is hashed is the padded message and nothing else, so that the digest of
\* a string does not depend on what buf held or on the splitting.
HashesPadded == finished => pms.absorbed = msg \o Padding(Len(msg))

=============================================================================
