--------------------------- MODULE RtuFrame_proofs ---------------------------
(***************************************************************************)
(* For any frame: the tables of crc16 compute the checksum of the Modbus   *)
(* specification, what noise has changed in at most two bits, or in two    *)
(* bytes next to each other, is refused, and a float that arrives is the   *)
(* one that was set.                                                       *)
(*                                                                         *)
(* The argument: bytes with Xor are a group, and both tables are linear in *)
(* it.  The registers that crc16 keeps for two frames therefore differ by  *)
(* what it would keep for the difference of the frames, which is zero but  *)
(* for the damaged bytes.  A byte is looked up in table_crc_lo for zero    *)
(* only if it is zero, so that a difference that has come up does not go   *)
(* away before the second damaged byte.                                    *)
(***************************************************************************)
EXTENDS RtuFrame, SequenceTheorems, WellFoundedInduction, TLAPS

-----------------------------------------------------------------------------
(***************************************************************************)
(* Exclusive or, bit by bit.                                               *)
(***************************************************************************)

B == {0, 1}

HalfByte == 0..15

(* The nibble, and the byte, of some bits, the lowest first.               *)
Nibble(p, q, r, s) == p + 2 * q + 4 * r + 8 * s

Octet(p, q, r, s, t, u, v, w) == p + 2 * q + 4 * r + 8 * s + 16 * t + 32 * u + 64 * v + 128 * w

(* What x(i) adds up to in the definition of XorNibble. *)
Plus(p, q) == (p + q) % 2

LEMMA PlusLaws ==
  /\ \A p, q \in B : Plus(p, q) \in B /\ Plus(p, q) = Plus(q, p)
  /\ \A p, q, r \in B : Plus(Plus(p, q), r) = Plus(p, Plus(q, r))
  /\ \A p \in B : Plus(p, p) = 0 /\ Plus(p, 0) = p /\ Plus(0, p) = p
BY DEF B, Plus

LEMMA PlusSwap ==
  ASSUME NEW p \in B, NEW q \in B, NEW r \in B, NEW s \in B
  PROVE  Plus(Plus(p, q), Plus(r, s)) = Plus(Plus(p, r), Plus(q, s))
BY DEF B, Plus

LEMMA PowersOfTwo ==
  /\ 2^0 = 1 /\ 2^1 = 2 /\ 2^2 = 4 /\ 2^3 = 8
  /\ 2^4 = 16 /\ 2^5 = 32 /\ 2^6 = 64 /\ 2^7 = 128
OBVIOUS

LEMMA BitsOfNibble ==
  ASSUME NEW p \in B, NEW q \in B, NEW r \in B, NEW s \in B
  PROVE  /\ Nibble(p, q, r, s) \in HalfByte
         /\ Bit(Nibble(p, q, r, s), 0) = p /\ Bit(Nibble(p, q, r, s), 1) = q
         /\ Bit(Nibble(p, q, r, s), 2) = r /\ Bit(Nibble(p, q, r, s), 3) = s
<1> DEFINE n == Nibble(p, q, r, s)
<1>1. n \in HalfByte /\ n = p + 2 * q + 4 * r + 8 * s
  BY DEF B, Nibble, HalfByte
<1>2. /\ (n \div 1) % 2 = p /\ (n \div 2) % 2 = q
      /\ (n \div 4) % 2 = r /\ (n \div 8) % 2 = s
  <2> HIDE DEF n
  <2> QED
    BY <1>1 DEF B, HalfByte
<1> HIDE DEF n
<1>3. Bit(n, 0) = p /\ Bit(n, 1) = q /\ Bit(n, 2) = r /\ Bit(n, 3) = s
  BY <1>2, PowersOfTwo DEF Bit
<1> QED
  BY <1>1, <1>3 DEF n

(* a is the byte of these bits. *)
HasBits(a, p, q, r, s, t, u, v, w) ==
  /\ a \in Byte /\ a \div 16 = Nibble(t, u, v, w) /\ a % 16 = Nibble(p, q, r, s)
  /\ Bit(a, 0) = p /\ Bit(a, 1) = q /\ Bit(a, 2) = r /\ Bit(a, 3) = s
  /\ Bit(a, 4) = t /\ Bit(a, 5) = u /\ Bit(a, 6) = v /\ Bit(a, 7) = w

LEMMA BitsOfOctet ==
  ASSUME NEW p \in B, NEW q \in B, NEW r \in B, NEW s \in B,
         NEW t \in B, NEW u \in B, NEW v \in B, NEW w \in B
  PROVE  HasBits(Octet(p, q, r, s, t, u, v, w), p, q, r, s, t, u, v, w)
<1> DEFINE a == Octet(p, q, r, s, t, u, v, w)
<1>1. /\ a \in Byte
      /\ a = p + 2 * q + 4 * r + 8 * s + 16 * t + 32 * u + 64 * v + 128 * w
  BY DEF B, Octet, Byte
<1> HIDE DEF a
<1>2. a \div 16 = Nibble(t, u, v, w) /\ a % 16 = Nibble(p, q, r, s)
  BY <1>1 DEF B, Nibble
<1>3. /\ (a \div 1) % 2 = p /\ (a \div 2) % 2 = q
      /\ (a \div 4) % 2 = r /\ (a \div 8) % 2 = s
  BY <1>1 DEF B
<1>4. /\ (a \div 16) % 2 = t /\ (a \div 32) % 2 = u
      /\ (a \div 64) % 2 = v /\ (a \div 128) % 2 = w
  BY <1>1 DEF B
<1>5. /\ Bit(a, 0) = p /\ Bit(a, 1) = q /\ Bit(a, 2) = r /\ Bit(a, 3) = s
      /\ Bit(a, 4) = t /\ Bit(a, 5) = u /\ Bit(a, 6) = v /\ Bit(a, 7) = w
  BY <1>3, <1>4, PowersOfTwo DEF Bit
<1> QED
  BY <1>1, <1>2, <1>5 DEF a, HasBits

LEMMA OctetOfBits ==
  ASSUME NEW a \in Byte
  PROVE  /\ Bit(a, 0) \in B /\ Bit(a, 1) \in B /\ Bit(a, 2) \in B /\ Bit(a, 3) \in B
         /\ Bit(a, 4) \in B /\ Bit(a, 5) \in B /\ Bit(a, 6) \in B /\ Bit(a, 7) \in B
         /\ a = Octet(Bit(a, 0), Bit(a, 1), Bit(a, 2), Bit(a, 3),
                      Bit(a, 4), Bit(a, 5), Bit(a, 6), Bit(a, 7))
<1> DEFINE p == a % 2           q == (a \div 2) % 2
           r == (a \div 4) % 2  s == (a \div 8) % 2
           t == (a \div 16) % 2 u == (a \div 32) % 2
           v == (a \div 64) % 2 w == (a \div 128) % 2
<1>1. a \in 0..255
  BY DEF Byte
<1>2. /\ p \in B /\ q \in B /\ r \in B /\ s \in B
      /\ t \in B /\ u \in B /\ v \in B /\ w \in B
  BY <1>1 DEF B
<1>3. a = p + 2 * q + 4 * r + 8 * s + 16 * t + 32 * u + 64 * v + 128 * w
  BY <1>1
<1> HIDE DEF p, q, r, s, t, u, v, w
<1>4. a = Octet(p, q, r, s, t, u, v, w)
  BY <1>3 DEF Octet
<1>5. /\ Bit(a, 0) = p /\ Bit(a, 1) = q /\ Bit(a, 2) = r /\ Bit(a, 3) = s
      /\ Bit(a, 4) = t /\ Bit(a, 5) = u /\ Bit(a, 6) = v /\ Bit(a, 7) = w
  <2>1. HasBits(Octet(p, q, r, s, t, u, v, w), p, q, r, s, t, u, v, w)
    BY <1>2, BitsOfOctet
  <2> QED
    BY <1>4, <2>1 DEF HasBits
<1> QED
  BY <1>2, <1>4, <1>5

(* A byte is determined by its bits. *)
LEMMA ByteExt ==
  ASSUME NEW a \in Byte, NEW b \in Byte,
         Bit(a, 0) = Bit(b, 0), Bit(a, 1) = Bit(b, 1),
         Bit(a, 2) = Bit(b, 2), Bit(a, 3) = Bit(b, 3),
         Bit(a, 4) = Bit(b, 4), Bit(a, 5) = Bit(b, 5),
         Bit(a, 6) = Bit(b, 6), Bit(a, 7) = Bit(b, 7)
  PROVE  a = b
BY OctetOfBits

(* The exclusive or of two nibbles, by their bits. *)
XorIsPlus(p, q, r, s, t, u, v, w) ==
  XorNibble[Nibble(p, q, r, s)][Nibble(t, u, v, w)]
    = Nibble(Plus(p, t), Plus(q, u), Plus(r, v), Plus(s, w))

LEMMA XorOfNibbles ==
  ASSUME NEW p \in B, NEW q \in B, NEW r \in B, NEW s \in B,
         NEW t \in B, NEW u \in B, NEW v \in B, NEW w \in B
  PROVE  XorIsPlus(p, q, r, s, t, u, v, w)
<1> DEFINE a == Nibble(p, q, r, s)
           b == Nibble(t, u, v, w)
<1>1. /\ a \in HalfByte /\ b \in HalfByte
      /\ Bit(a, 0) = p /\ Bit(a, 1) = q /\ Bit(a, 2) = r /\ Bit(a, 3) = s
      /\ Bit(b, 0) = t /\ Bit(b, 1) = u /\ Bit(b, 2) = v /\ Bit(b, 3) = w
  BY BitsOfNibble
<1> HIDE DEF a, b
<1>2. XorNibble[a][b] =
        ((Bit(a, 0) + Bit(b, 0)) % 2) * 2^0 + ((Bit(a, 1) + Bit(b, 1)) % 2) * 2^1
          + ((Bit(a, 2) + Bit(b, 2)) % 2) * 2^2 + ((Bit(a, 3) + Bit(b, 3)) % 2) * 2^3
  BY <1>1 DEF XorNibble, HalfByte
<1>3. XorNibble[a][b] =
        Plus(p, t) * 2^0 + Plus(q, u) * 2^1 + Plus(r, v) * 2^2 + Plus(s, w) * 2^3
  BY <1>1, <1>2 DEF Plus
<1>4. Plus(p, t) \in B /\ Plus(q, u) \in B /\ Plus(r, v) \in B /\ Plus(s, w) \in B
  BY PlusLaws
<1>5. XorNibble[a][b] = Plus(p, t) * 1 + Plus(q, u) * 2 + Plus(r, v) * 4 + Plus(s, w) * 8
  BY <1>3, PowersOfTwo
<1>6. XorNibble[a][b] = Nibble(Plus(p, t), Plus(q, u), Plus(r, v), Plus(s, w))
  BY <1>4, <1>5 DEF Nibble, B
<1> QED
  BY <1>6 DEF a, b, XorIsPlus

(* The bits of an exclusive or. *)
LEMMA XorBits ==
  ASSUME NEW a \in Byte, NEW b \in Byte
  PROVE  /\ Xor(a, b) \in Byte
         /\ Bit(Xor(a, b), 0) = Plus(Bit(a, 0), Bit(b, 0))
         /\ Bit(Xor(a, b), 1) = Plus(Bit(a, 1), Bit(b, 1))
         /\ Bit(Xor(a, b), 2) = Plus(Bit(a, 2), Bit(b, 2))
         /\ Bit(Xor(a, b), 3) = Plus(Bit(a, 3), Bit(b, 3))
         /\ Bit(Xor(a, b), 4) = Plus(Bit(a, 4), Bit(b, 4))
         /\ Bit(Xor(a, b), 5) = Plus(Bit(a, 5), Bit(b, 5))
         /\ Bit(Xor(a, b), 6) = Plus(Bit(a, 6), Bit(b, 6))
         /\ Bit(Xor(a, b), 7) = Plus(Bit(a, 7), Bit(b, 7))
<1> DEFINE d0 == Plus(Bit(a, 0), Bit(b, 0))
           d1 == Plus(Bit(a, 1), Bit(b, 1))
           d2 == Plus(Bit(a, 2), Bit(b, 2))
           d3 == Plus(Bit(a, 3), Bit(b, 3))
           d4 == Plus(Bit(a, 4), Bit(b, 4))
           d5 == Plus(Bit(a, 5), Bit(b, 5))
           d6 == Plus(Bit(a, 6), Bit(b, 6))
           d7 == Plus(Bit(a, 7), Bit(b, 7))
<1>1. /\ Bit(a, 0) \in B /\ Bit(a, 1) \in B /\ Bit(a, 2) \in B /\ Bit(a, 3) \in B
      /\ Bit(a, 4) \in B /\ Bit(a, 5) \in B /\ Bit(a, 6) \in B /\ Bit(a, 7) \in B
      /\ Bit(b, 0) \in B /\ Bit(b, 1) \in B /\ Bit(b, 2) \in B /\ Bit(b, 3) \in B
      /\ Bit(b, 4) \in B /\ Bit(b, 5) \in B /\ Bit(b, 6) \in B /\ Bit(b, 7) \in B
  BY OctetOfBits
<1>2. /\ a % 16 = Nibble(Bit(a, 0), Bit(a, 1), Bit(a, 2), Bit(a, 3))
      /\ a \div 16 = Nibble(Bit(a, 4), Bit(a, 5), Bit(a, 6), Bit(a, 7))
  <2> DEFINE n == Octet(Bit(a, 0), Bit(a, 1), Bit(a, 2), Bit(a, 3),
                        Bit(a, 4), Bit(a, 5), Bit(a, 6), Bit(a, 7))
  <2>1. HasBits(n, Bit(a, 0), Bit(a, 1), Bit(a, 2), Bit(a, 3),
                Bit(a, 4), Bit(a, 5), Bit(a, 6), Bit(a, 7))
    BY <1>1, BitsOfOctet
  <2>2. n = a
    BY OctetOfBits
  <2> QED
    BY <2>1, <2>2 DEF HasBits
<1>3. /\ b % 16 = Nibble(Bit(b, 0), Bit(b, 1), Bit(b, 2), Bit(b, 3))
      /\ b \div 16 = Nibble(Bit(b, 4), Bit(b, 5), Bit(b, 6), Bit(b, 7))
  <2> DEFINE n == Octet(Bit(b, 0), Bit(b, 1), Bit(b, 2), Bit(b, 3),
                        Bit(b, 4), Bit(b, 5), Bit(b, 6), Bit(b, 7))
  <2>1. HasBits(n, Bit(b, 0), Bit(b, 1), Bit(b, 2), Bit(b, 3),
                Bit(b, 4), Bit(b, 5), Bit(b, 6), Bit(b, 7))
    BY <1>1, BitsOfOctet
  <2>2. n = b
    BY OctetOfBits
  <2> QED
    BY <2>1, <2>2 DEF HasBits
<1>4. XorNibble[a % 16][b % 16] = Nibble(d0, d1, d2, d3)
  <2>1. XorIsPlus(Bit(a, 0), Bit(a, 1), Bit(a, 2), Bit(a, 3),
                  Bit(b, 0), Bit(b, 1), Bit(b, 2), Bit(b, 3))
    BY <1>1, XorOfNibbles
  <2> QED
    BY <1>2, <1>3, <2>1 DEF XorIsPlus
<1>5. XorNibble[a \div 16][b \div 16] = Nibble(d4, d5, d6, d7)
  <2>1. XorIsPlus(Bit(a, 4), Bit(a, 5), Bit(a, 6), Bit(a, 7),
                  Bit(b, 4), Bit(b, 5), Bit(b, 6), Bit(b, 7))
    BY <1>1, XorOfNibbles
  <2> QED
    BY <1>2, <1>3, <2>1 DEF XorIsPlus
<1>6. /\ d0 \in B /\ d1 \in B /\ d2 \in B /\ d3 \in B
      /\ d4 \in B /\ d5 \in B /\ d6 \in B /\ d7 \in B
  BY <1>1, PlusLaws
<1>7. Xor(a, b) = 16 * Nibble(d4, d5, d6, d7) + Nibble(d0, d1, d2, d3)
  BY <1>4, <1>5 DEF Xor
<1> HIDE DEF d0, d1, d2, d3, d4, d5, d6, d7
<1>8. Xor(a, b) = Octet(d0, d1, d2, d3, d4, d5, d6, d7)
  BY <1>6, <1>7 DEF Nibble, Octet, B
<1>9. HasBits(Octet(d0, d1, d2, d3, d4, d5, d6, d7), d0, d1, d2, d3, d4, d5, d6, d7)
  BY <1>6, BitsOfOctet
<1>10. /\ Xor(a, b) \in Byte
       /\ Bit(Xor(a, b), 0) = d0 /\ Bit(Xor(a, b), 1) = d1
       /\ Bit(Xor(a, b), 2) = d2 /\ Bit(Xor(a, b), 3) = d3
       /\ Bit(Xor(a, b), 4) = d4 /\ Bit(Xor(a, b), 5) = d5
       /\ Bit(Xor(a, b), 6) = d6 /\ Bit(Xor(a, b), 7) = d7
  BY <1>8, <1>9 DEF HasBits
<1> QED
  BY <1>10 DEF d0, d1, d2, d3, d4, d5, d6, d7

LEMMA BitsOfZero ==
  /\ 0 \in Byte
  /\ Bit(0, 0) = 0 /\ Bit(0, 1) = 0 /\ Bit(0, 2) = 0 /\ Bit(0, 3) = 0
  /\ Bit(0, 4) = 0 /\ Bit(0, 5) = 0 /\ Bit(0, 6) = 0 /\ Bit(0, 7) = 0
<1>1. 0 = Octet(0, 0, 0, 0, 0, 0, 0, 0) /\ 0 \in B
  BY DEF Octet, B
<1>2. HasBits(Octet(0, 0, 0, 0, 0, 0, 0, 0), 0, 0, 0, 0, 0, 0, 0, 0)
  BY <1>1, BitsOfOctet
<1> QED
  BY <1>1, <1>2 DEF HasBits

(* Bytes with Xor are a group in which every byte is its own inverse.      *)
LEMMA XorLaws ==
  /\ \A a, b \in Byte : Xor(a, b) \in Byte /\ Xor(a, b) = Xor(b, a)
  /\ \A a, b, c \in Byte : Xor(Xor(a, b), c) = Xor(a, Xor(b, c))
  /\ \A a \in Byte : Xor(a, a) = 0 /\ Xor(a, 0) = a /\ Xor(0, a) = a
<1>1. \A a, b \in Byte : Xor(a, b) \in Byte
  BY XorBits
<1>2. ASSUME NEW a \in Byte, NEW b \in Byte PROVE Xor(a, b) = Xor(b, a)
  BY <1>1, XorBits, OctetOfBits, PlusLaws, ByteExt
<1>3. ASSUME NEW a \in Byte, NEW b \in Byte, NEW c \in Byte
      PROVE  Xor(Xor(a, b), c) = Xor(a, Xor(b, c))
  <2> DEFINE x == Xor(Xor(a, b), c)
             y == Xor(a, Xor(b, c))
  <2>1. x \in Byte /\ y \in Byte /\ Xor(a, b) \in Byte /\ Xor(b, c) \in Byte
    BY <1>1
  <2>2. Bit(x, 0) = Bit(y, 0)
    <3>1. Bit(x, 0) = Plus(Plus(Bit(a, 0), Bit(b, 0)), Bit(c, 0))
      BY <2>1, XorBits
    <3>2. Bit(y, 0) = Plus(Bit(a, 0), Plus(Bit(b, 0), Bit(c, 0)))
      BY <2>1, XorBits
    <3> QED
      BY <3>1, <3>2, OctetOfBits, PlusLaws
  <2>3. Bit(x, 1) = Bit(y, 1)
    <3>1. Bit(x, 1) = Plus(Plus(Bit(a, 1), Bit(b, 1)), Bit(c, 1))
      BY <2>1, XorBits
    <3>2. Bit(y, 1) = Plus(Bit(a, 1), Plus(Bit(b, 1), Bit(c, 1)))
      BY <2>1, XorBits
    <3> QED
      BY <3>1, <3>2, OctetOfBits, PlusLaws
  <2>4. Bit(x, 2) = Bit(y, 2)
    <3>1. Bit(x, 2) = Plus(Plus(Bit(a, 2), Bit(b, 2)), Bit(c, 2))
      BY <2>1, XorBits
    <3>2. Bit(y, 2) = Plus(Bit(a, 2), Plus(Bit(b, 2), Bit(c, 2)))
      BY <2>1, XorBits
    <3> QED
      BY <3>1, <3>2, OctetOfBits, PlusLaws
  <2>5. Bit(x, 3) = Bit(y, 3)
    <3>1. Bit(x, 3) = Plus(Plus(Bit(a, 3), Bit(b, 3)), Bit(c, 3))
      BY <2>1, XorBits
    <3>2. Bit(y, 3) = Plus(Bit(a, 3), Plus(Bit(b, 3), Bit(c, 3)))
      BY <2>1, XorBits
    <3> QED
      BY <3>1, <3>2, OctetOfBits, PlusLaws
  <2>6. Bit(x, 4) = Bit(y, 4)
    <3>1. Bit(x, 4) = Plus(Plus(Bit(a, 4), Bit(b, 4)), Bit(c, 4))
      BY <2>1, XorBits
    <3>2. Bit(y, 4) = Plus(Bit(a, 4), Plus(Bit(b, 4), Bit(c, 4)))
      BY <2>1, XorBits
    <3> QED
      BY <3>1, <3>2, OctetOfBits, PlusLaws
  <2>7. Bit(x, 5) = Bit(y, 5)
    <3>1. Bit(x, 5) = Plus(Plus(Bit(a, 5), Bit(b, 5)), Bit(c, 5))
      BY <2>1, XorBits
    <3>2. Bit(y, 5) = Plus(Bit(a, 5), Plus(Bit(b, 5), Bit(c, 5)))
      BY <2>1, XorBits
    <3> QED
      BY <3>1, <3>2, OctetOfBits, PlusLaws
  <2>8. Bit(x, 6) = Bit(y, 6)
    <3>1. Bit(x, 6) = Plus(Plus(Bit(a, 6), Bit(b, 6)), Bit(c, 6))
      BY <2>1, XorBits
    <3>2. Bit(y, 6) = Plus(Bit(a, 6), Plus(Bit(b, 6), Bit(c, 6)))
      BY <2>1, XorBits
    <3> QED
      BY <3>1, <3>2, OctetOfBits, PlusLaws
  <2>9. Bit(x, 7) = Bit(y, 7)
    <3>1. Bit(x, 7) = Plus(Plus(Bit(a, 7), Bit(b, 7)), Bit(c, 7))
      BY <2>1, XorBits
    <3>2. Bit(y, 7) = Plus(Bit(a, 7), Plus(Bit(b, 7), Bit(c, 7)))
      BY <2>1, XorBits
    <3> QED
      BY <3>1, <3>2, OctetOfBits, PlusLaws
  <2> QED
    BY <2>1, <2>2, <2>3, <2>4, <2>5, <2>6, <2>7, <2>8, <2>9, ByteExt
<1>4. ASSUME NEW a \in Byte PROVE Xor(a, a) = 0
  BY <1>1, XorBits, OctetOfBits, PlusLaws, ByteExt, BitsOfZero
<1>5. ASSUME NEW a \in Byte PROVE Xor(a, 0) = a
  BY <1>1, XorBits, OctetOfBits, PlusLaws, ByteExt, BitsOfZero
<1>6. ASSUME NEW a \in Byte PROVE Xor(0, a) = a
  BY <1>1, <1>2, <1>5, BitsOfZero
<1> QED
  BY <1>1, <1>2, <1>3, <1>4, <1>5, <1>6

(* Bytes are equal when their exclusive or is zero, and only then.         *)
LEMMA XorZero ==
  ASSUME NEW a \in Byte, NEW b \in Byte
  PROVE  Xor(a, b) = 0 <=> a = b
<1>1. Xor(Xor(a, b), b) = a
  BY XorLaws
<1> QED
  BY <1>1, XorLaws

(* The order of four bytes does not matter. *)
LEMMA XorSwap ==
  ASSUME NEW a \in Byte, NEW b \in Byte, NEW c \in Byte, NEW d \in Byte
  PROVE  Xor(Xor(a, b), Xor(c, d)) = Xor(Xor(a, c), Xor(b, d))
<1>1. Xor(Xor(a, b), Xor(c, d)) = Xor(a, Xor(b, Xor(c, d)))
  BY XorLaws
<1>2. Xor(b, Xor(c, d)) = Xor(c, Xor(b, d))
  BY XorLaws
<1>3. Xor(a, Xor(c, Xor(b, d))) = Xor(Xor(a, c), Xor(b, d))
  BY XorLaws
<1> QED
  BY <1>1, <1>2, <1>3

-----------------------------------------------------------------------------
(***************************************************************************)
(* The tables.                                                             *)
(***************************************************************************)

Hi(i) == table_crc_hi[i + 1]
Lo(i) == table_crc_lo[i + 1]

PlusAll(p, q, r, s, t, u, v, w) ==
  Plus(Plus(Plus(p, q), Plus(r, s)), Plus(Plus(t, u), Plus(v, w)))

Parity(a) ==
  PlusAll(Bit(a, 0), Bit(a, 1), Bit(a, 2), Bit(a, 3), Bit(a, 4), Bit(a, 5), Bit(a, 6), Bit(a, 7))

(* The entries of a byte, by its bits.                                     *)
EntryBits(a) ==
  /\ Lo(a) = Octet(Plus(Bit(a, 1), Bit(a, 2)), Plus(Bit(a, 2), Bit(a, 3)),
                   Plus(Bit(a, 3), Bit(a, 4)), Plus(Bit(a, 4), Bit(a, 5)),
                   Plus(Bit(a, 5), Bit(a, 6)), Plus(Bit(a, 6), Bit(a, 7)),
                   Plus(Bit(a, 7), Parity(a)), Parity(a))
  /\ Hi(a) = Octet(Parity(a), 0, 0, 0, 0, 0,
                   Bit(a, 0), Plus(Bit(a, 0), Bit(a, 1)))

(* All of the 256 entries of the two tables.                               *)
LEMMA EntriesOfByte ==
  ASSUME NEW a \in Byte
  PROVE  EntryBits(a)
<1> DEFINE p == Bit(a, 0)
           q == Bit(a, 1)
           r == Bit(a, 2)
           s == Bit(a, 3)
           t == Bit(a, 4)
           u == Bit(a, 5)
           v == Bit(a, 6)
           w == Bit(a, 7)
           z == Parity(a)
<1>1. /\ p \in B /\ q \in B /\ r \in B /\ s \in B
      /\ t \in B /\ u \in B /\ v \in B /\ w \in B
      /\ a = Octet(p, q, r, s, t, u, v, w)
  BY OctetOfBits
<1>2. z = PlusAll(p, q, r, s, t, u, v, w)
  BY DEF Parity
<1> HIDE DEF p, q, r, s, t, u, v, w, z
<1>3. z = (p + q + r + s + t + u + v + w) % 2 /\ z \in B
  BY <1>1, <1>2 DEF PlusAll, Plus, B
<1>4. a + 1 = 1 + p + 2 * q + 4 * r + 8 * s + 16 * t + 32 * u + 64 * v + 128 * w
  BY <1>1 DEF Octet, B
<1>5. Lo(a) =
          ((q + r) % 2) + 2 * ((r + s) % 2) + 4 * ((s + t) % 2) + 8 * ((t + u) % 2)
            + 16 * ((u + v) % 2) + 32 * ((v + w) % 2) + 64 * ((w + z) % 2) + 128 * z
  <2>1. table_crc_lo[1 + p + 2 * q + 4 * r + 8 * s + 16 * t + 32 * u + 64 * v + 128 * w] =
          ((q + r) % 2) + 2 * ((r + s) % 2) + 4 * ((s + t) % 2) + 8 * ((t + u) % 2)
            + 16 * ((u + v) % 2) + 32 * ((v + w) % 2) + 64 * ((w + z) % 2) + 128 * z
    BY <1>1, <1>3, SMTT(60) DEF table_crc_lo, B
  <2> QED
    BY <1>4, <2>1 DEF Lo
<1>6. Hi(a) = z + 64 * p + 128 * ((p + q) % 2)
  <2>1. table_crc_hi[1 + p + 2 * q + 4 * r + 8 * s + 16 * t + 32 * u + 64 * v + 128 * w] =
          z + 64 * p + 128 * ((p + q) % 2)
    BY <1>1, <1>3, SMTT(60) DEF table_crc_hi, B
  <2> QED
    BY <1>4, <2>1 DEF Hi
<1>7. Lo(a) = Octet(Plus(q, r), Plus(r, s), Plus(s, t), Plus(t, u),
                    Plus(u, v), Plus(v, w), Plus(w, z), z)
  BY <1>1, <1>3, <1>5 DEF Octet, Plus, B
<1>8. Hi(a) = Octet(z, 0, 0, 0, 0, 0, p, Plus(p, q))
  BY <1>1, <1>3, <1>6 DEF Octet, Plus, B
<1> QED
  BY <1>7, <1>8 DEF EntryBits, p, q, r, s, t, u, v, w, z

LEMMA EntriesByBits ==
  ASSUME NEW a \in Byte
  PROVE  /\ Lo(a) \in Byte /\ Hi(a) \in Byte /\ Parity(a) \in B
         /\ Bit(Lo(a), 0) = Plus(Bit(a, 1), Bit(a, 2))
         /\ Bit(Lo(a), 1) = Plus(Bit(a, 2), Bit(a, 3))
         /\ Bit(Lo(a), 2) = Plus(Bit(a, 3), Bit(a, 4))
         /\ Bit(Lo(a), 3) = Plus(Bit(a, 4), Bit(a, 5))
         /\ Bit(Lo(a), 4) = Plus(Bit(a, 5), Bit(a, 6))
         /\ Bit(Lo(a), 5) = Plus(Bit(a, 6), Bit(a, 7))
         /\ Bit(Lo(a), 6) = Plus(Bit(a, 7), Parity(a))
         /\ Bit(Lo(a), 7) = Parity(a)
         /\ Bit(Hi(a), 0) = Parity(a)
         /\ Bit(Hi(a), 1) = 0
         /\ Bit(Hi(a), 2) = 0
         /\ Bit(Hi(a), 3) = 0
         /\ Bit(Hi(a), 4) = 0
         /\ Bit(Hi(a), 5) = 0
         /\ Bit(Hi(a), 6) = Bit(a, 0)
         /\ Bit(Hi(a), 7) = Plus(Bit(a, 0), Bit(a, 1))
<1>1. /\ Bit(a, 0) \in B /\ Bit(a, 1) \in B /\ Bit(a, 2) \in B /\ Bit(a, 3) \in B
      /\ Bit(a, 4) \in B /\ Bit(a, 5) \in B /\ Bit(a, 6) \in B /\ Bit(a, 7) \in B
  BY OctetOfBits
<1>2. Parity(a) \in B
  <2> DEFINE p == Plus(Bit(a, 0), Bit(a, 1))  q == Plus(Bit(a, 2), Bit(a, 3))
             r == Plus(Bit(a, 4), Bit(a, 5))  s == Plus(Bit(a, 6), Bit(a, 7))
  <2>1. p \in B /\ q \in B
    BY <1>1, PlusLaws
  <2>2. r \in B /\ s \in B
    BY <1>1, PlusLaws
  <2>3. Parity(a) = Plus(Plus(p, q), Plus(r, s))
    BY DEF Parity, PlusAll
  <2> HIDE DEF p, q, r, s
  <2>4. Plus(p, q) \in B /\ Plus(r, s) \in B
    BY <2>1, <2>2, PlusLaws
  <2> QED
    BY <2>3, <2>4, PlusLaws
<1> DEFINE d0 == Plus(Bit(a, 1), Bit(a, 2))
           d1 == Plus(Bit(a, 2), Bit(a, 3))
           d2 == Plus(Bit(a, 3), Bit(a, 4))
           d3 == Plus(Bit(a, 4), Bit(a, 5))
           d4 == Plus(Bit(a, 5), Bit(a, 6))
           d5 == Plus(Bit(a, 6), Bit(a, 7))
           d6 == Plus(Bit(a, 7), Parity(a))
<1>3. /\ d0 \in B /\ d1 \in B /\ d2 \in B /\ d3 \in B
      /\ d4 \in B /\ d5 \in B /\ d6 \in B
  BY <1>1, <1>2, PlusLaws
<1>4. Plus(Bit(a, 0), Bit(a, 1)) \in B /\ 0 \in B
  BY <1>1, PlusLaws DEF B
<1>5. HasBits(Octet(d0, d1, d2, d3, d4, d5, d6, Parity(a)), d0, d1, d2, d3, d4, d5, d6, Parity(a))
  BY <1>2, <1>3, BitsOfOctet
<1>6. HasBits(Octet(Parity(a), 0, 0, 0, 0, 0, Bit(a, 0), Plus(Bit(a, 0), Bit(a, 1))),
              Parity(a), 0, 0, 0, 0, 0, Bit(a, 0), Plus(Bit(a, 0), Bit(a, 1)))
  BY <1>1, <1>2, <1>4, BitsOfOctet
<1>7. /\ Lo(a) = Octet(d0, d1, d2, d3, d4, d5, d6, Parity(a))
      /\ Hi(a) = Octet(Parity(a), 0, 0, 0, 0, 0, Bit(a, 0), Plus(Bit(a, 0), Bit(a, 1)))
  BY EntriesOfByte DEF EntryBits
<1> QED
  BY <1>2, <1>5, <1>6, <1>7 DEF HasBits

LEMMA ParityOfXor ==
  ASSUME NEW a \in Byte, NEW b \in Byte
  PROVE  Parity(Xor(a, b)) = Plus(Parity(a), Parity(b))
<1> DEFINE e0 == Plus(Bit(a, 0), Bit(a, 1))
           e1 == Plus(Bit(a, 2), Bit(a, 3))
           e2 == Plus(Bit(a, 4), Bit(a, 5))
           e3 == Plus(Bit(a, 6), Bit(a, 7))
           f0 == Plus(Bit(b, 0), Bit(b, 1))
           f1 == Plus(Bit(b, 2), Bit(b, 3))
           f2 == Plus(Bit(b, 4), Bit(b, 5))
           f3 == Plus(Bit(b, 6), Bit(b, 7))
           g0 == Plus(Bit(Xor(a, b), 0), Bit(Xor(a, b), 1))
           g1 == Plus(Bit(Xor(a, b), 2), Bit(Xor(a, b), 3))
           g2 == Plus(Bit(Xor(a, b), 4), Bit(Xor(a, b), 5))
           g3 == Plus(Bit(Xor(a, b), 6), Bit(Xor(a, b), 7))
<1>1. /\ Bit(a, 0) \in B /\ Bit(a, 1) \in B /\ Bit(a, 2) \in B /\ Bit(a, 3) \in B
      /\ Bit(a, 4) \in B /\ Bit(a, 5) \in B /\ Bit(a, 6) \in B /\ Bit(a, 7) \in B
      /\ Bit(b, 0) \in B /\ Bit(b, 1) \in B /\ Bit(b, 2) \in B /\ Bit(b, 3) \in B
      /\ Bit(b, 4) \in B /\ Bit(b, 5) \in B /\ Bit(b, 6) \in B /\ Bit(b, 7) \in B
  BY OctetOfBits
<1>2. g0 = Plus(e0, f0) /\ g1 = Plus(e1, f1) /\ g2 = Plus(e2, f2) /\ g3 = Plus(e3, f3)
  BY <1>1, XorBits, PlusSwap
<1>3. /\ e0 \in B /\ e1 \in B /\ e2 \in B /\ e3 \in B
      /\ f0 \in B /\ f1 \in B /\ f2 \in B /\ f3 \in B
  BY <1>1, PlusLaws
<1>4. /\ Parity(a) = Plus(Plus(e0, e1), Plus(e2, e3))
      /\ Parity(b) = Plus(Plus(f0, f1), Plus(f2, f3))
      /\ Parity(Xor(a, b)) = Plus(Plus(g0, g1), Plus(g2, g3))
  BY DEF Parity, PlusAll
<1> HIDE DEF e0, e1, e2, e3, f0, f1, f2, f3, g0, g1, g2, g3
<1>5. Plus(g0, g1) = Plus(Plus(e0, e1), Plus(f0, f1))
  BY <1>2, <1>3, PlusSwap
<1>6. Plus(g2, g3) = Plus(Plus(e2, e3), Plus(f2, f3))
  BY <1>2, <1>3, PlusSwap
<1>7. /\ Plus(e0, e1) \in B /\ Plus(e2, e3) \in B
      /\ Plus(f0, f1) \in B /\ Plus(f2, f3) \in B
  BY <1>3, PlusLaws
<1> QED
  BY <1>4, <1>5, <1>6, <1>7, PlusSwap

(* The tables of crc16 are linear.                                         *)
LEMMA TablesAreLinear ==
  ASSUME NEW a \in Byte, NEW b \in Byte
  PROVE  Lo(Xor(a, b)) = Xor(Lo(a), Lo(b)) /\ Hi(Xor(a, b)) = Xor(Hi(a), Hi(b))
<1> DEFINE c == Xor(a, b)
           x == Xor(Lo(a), Lo(b))
           y == Xor(Hi(a), Hi(b))
<1>1. c \in Byte /\ x \in Byte /\ y \in Byte /\ Lo(c) \in Byte /\ Hi(c) \in Byte
  BY XorLaws, EntriesByBits
<1>2. Parity(c) = Plus(Parity(a), Parity(b)) /\ Parity(a) \in B /\ Parity(b) \in B
  BY ParityOfXor, EntriesByBits
<1>3. /\ Bit(a, 0) \in B /\ Bit(a, 1) \in B /\ Bit(a, 2) \in B /\ Bit(a, 3) \in B
      /\ Bit(a, 4) \in B /\ Bit(a, 5) \in B /\ Bit(a, 6) \in B /\ Bit(a, 7) \in B
      /\ Bit(b, 0) \in B /\ Bit(b, 1) \in B /\ Bit(b, 2) \in B /\ Bit(b, 3) \in B
      /\ Bit(b, 4) \in B /\ Bit(b, 5) \in B /\ Bit(b, 6) \in B /\ Bit(b, 7) \in B
  BY OctetOfBits
<1>4. /\ Bit(c, 0) = Plus(Bit(a, 0), Bit(b, 0))
      /\ Bit(c, 1) = Plus(Bit(a, 1), Bit(b, 1))
      /\ Bit(c, 2) = Plus(Bit(a, 2), Bit(b, 2))
      /\ Bit(c, 3) = Plus(Bit(a, 3), Bit(b, 3))
      /\ Bit(c, 4) = Plus(Bit(a, 4), Bit(b, 4))
      /\ Bit(c, 5) = Plus(Bit(a, 5), Bit(b, 5))
      /\ Bit(c, 6) = Plus(Bit(a, 6), Bit(b, 6))
      /\ Bit(c, 7) = Plus(Bit(a, 7), Bit(b, 7))
  BY XorBits
<1>5. /\ Bit(x, 0) = Plus(Bit(Lo(a), 0), Bit(Lo(b), 0))
      /\ Bit(x, 1) = Plus(Bit(Lo(a), 1), Bit(Lo(b), 1))
      /\ Bit(x, 2) = Plus(Bit(Lo(a), 2), Bit(Lo(b), 2))
      /\ Bit(x, 3) = Plus(Bit(Lo(a), 3), Bit(Lo(b), 3))
      /\ Bit(x, 4) = Plus(Bit(Lo(a), 4), Bit(Lo(b), 4))
      /\ Bit(x, 5) = Plus(Bit(Lo(a), 5), Bit(Lo(b), 5))
      /\ Bit(x, 6) = Plus(Bit(Lo(a), 6), Bit(Lo(b), 6))
      /\ Bit(x, 7) = Plus(Bit(Lo(a), 7), Bit(Lo(b), 7))
  BY XorBits, EntriesByBits
<1>6. /\ Bit(y, 0) = Plus(Bit(Hi(a), 0), Bit(Hi(b), 0))
      /\ Bit(y, 1) = Plus(Bit(Hi(a), 1), Bit(Hi(b), 1))
      /\ Bit(y, 2) = Plus(Bit(Hi(a), 2), Bit(Hi(b), 2))
      /\ Bit(y, 3) = Plus(Bit(Hi(a), 3), Bit(Hi(b), 3))
      /\ Bit(y, 4) = Plus(Bit(Hi(a), 4), Bit(Hi(b), 4))
      /\ Bit(y, 5) = Plus(Bit(Hi(a), 5), Bit(Hi(b), 5))
      /\ Bit(y, 6) = Plus(Bit(Hi(a), 6), Bit(Hi(b), 6))
      /\ Bit(y, 7) = Plus(Bit(Hi(a), 7), Bit(Hi(b), 7))
  BY XorBits, EntriesByBits
<1> HIDE DEF c, x, y
<1>7. Bit(Lo(c), 0) = Bit(x, 0)
  <2>1. Bit(Lo(c), 0) = Plus(Bit(c, 1), Bit(c, 2))
    BY <1>1, EntriesByBits
  <2>2. Plus(Bit(c, 1), Bit(c, 2))
          = Plus(Plus(Bit(a, 1), Bit(b, 1)), Plus(Bit(a, 2), Bit(b, 2)))
    BY <1>2, <1>4
  <2>3. Plus(Plus(Bit(a, 1), Bit(b, 1)), Plus(Bit(a, 2), Bit(b, 2)))
          = Plus(Plus(Bit(a, 1), Bit(a, 2)), Plus(Bit(b, 1), Bit(b, 2)))
    BY <1>2, <1>3, PlusSwap
  <2>4. Bit(x, 0) = Plus(Plus(Bit(a, 1), Bit(a, 2)), Plus(Bit(b, 1), Bit(b, 2)))
    BY <1>5, EntriesByBits
  <2> QED
    BY <2>1, <2>2, <2>3, <2>4
<1>8. Bit(Lo(c), 1) = Bit(x, 1)
  <2>1. Bit(Lo(c), 1) = Plus(Bit(c, 2), Bit(c, 3))
    BY <1>1, EntriesByBits
  <2>2. Plus(Bit(c, 2), Bit(c, 3))
          = Plus(Plus(Bit(a, 2), Bit(b, 2)), Plus(Bit(a, 3), Bit(b, 3)))
    BY <1>2, <1>4
  <2>3. Plus(Plus(Bit(a, 2), Bit(b, 2)), Plus(Bit(a, 3), Bit(b, 3)))
          = Plus(Plus(Bit(a, 2), Bit(a, 3)), Plus(Bit(b, 2), Bit(b, 3)))
    BY <1>2, <1>3, PlusSwap
  <2>4. Bit(x, 1) = Plus(Plus(Bit(a, 2), Bit(a, 3)), Plus(Bit(b, 2), Bit(b, 3)))
    BY <1>5, EntriesByBits
  <2> QED
    BY <2>1, <2>2, <2>3, <2>4
<1>9. Bit(Lo(c), 2) = Bit(x, 2)
  <2>1. Bit(Lo(c), 2) = Plus(Bit(c, 3), Bit(c, 4))
    BY <1>1, EntriesByBits
  <2>2. Plus(Bit(c, 3), Bit(c, 4))
          = Plus(Plus(Bit(a, 3), Bit(b, 3)), Plus(Bit(a, 4), Bit(b, 4)))
    BY <1>2, <1>4
  <2>3. Plus(Plus(Bit(a, 3), Bit(b, 3)), Plus(Bit(a, 4), Bit(b, 4)))
          = Plus(Plus(Bit(a, 3), Bit(a, 4)), Plus(Bit(b, 3), Bit(b, 4)))
    BY <1>2, <1>3, PlusSwap
  <2>4. Bit(x, 2) = Plus(Plus(Bit(a, 3), Bit(a, 4)), Plus(Bit(b, 3), Bit(b, 4)))
    BY <1>5, EntriesByBits
  <2> QED
    BY <2>1, <2>2, <2>3, <2>4
<1>10. Bit(Lo(c), 3) = Bit(x, 3)
  <2>1. Bit(Lo(c), 3) = Plus(Bit(c, 4), Bit(c, 5))
    BY <1>1, EntriesByBits
  <2>2. Plus(Bit(c, 4), Bit(c, 5))
          = Plus(Plus(Bit(a, 4), Bit(b, 4)), Plus(Bit(a, 5), Bit(b, 5)))
    BY <1>2, <1>4
  <2>3. Plus(Plus(Bit(a, 4), Bit(b, 4)), Plus(Bit(a, 5), Bit(b, 5)))
          = Plus(Plus(Bit(a, 4), Bit(a, 5)), Plus(Bit(b, 4), Bit(b, 5)))
    BY <1>2, <1>3, PlusSwap
  <2>4. Bit(x, 3) = Plus(Plus(Bit(a, 4), Bit(a, 5)), Plus(Bit(b, 4), Bit(b, 5)))
    BY <1>5, EntriesByBits
  <2> QED
    BY <2>1, <2>2, <2>3, <2>4
<1>11. Bit(Lo(c), 4) = Bit(x, 4)
  <2>1. Bit(Lo(c), 4) = Plus(Bit(c, 5), Bit(c, 6))
    BY <1>1, EntriesByBits
  <2>2. Plus(Bit(c, 5), Bit(c, 6))
          = Plus(Plus(Bit(a, 5), Bit(b, 5)), Plus(Bit(a, 6), Bit(b, 6)))
    BY <1>2, <1>4
  <2>3. Plus(Plus(Bit(a, 5), Bit(b, 5)), Plus(Bit(a, 6), Bit(b, 6)))
          = Plus(Plus(Bit(a, 5), Bit(a, 6)), Plus(Bit(b, 5), Bit(b, 6)))
    BY <1>2, <1>3, PlusSwap
  <2>4. Bit(x, 4) = Plus(Plus(Bit(a, 5), Bit(a, 6)), Plus(Bit(b, 5), Bit(b, 6)))
    BY <1>5, EntriesByBits
  <2> QED
    BY <2>1, <2>2, <2>3, <2>4
<1>12. Bit(Lo(c), 5) = Bit(x, 5)
  <2>1. Bit(Lo(c), 5) = Plus(Bit(c, 6), Bit(c, 7))
    BY <1>1, EntriesByBits
  <2>2. Plus(Bit(c, 6), Bit(c, 7))
          = Plus(Plus(Bit(a, 6), Bit(b, 6)), Plus(Bit(a, 7), Bit(b, 7)))
    BY <1>2, <1>4
  <2>3. Plus(Plus(Bit(a, 6), Bit(b, 6)), Plus(Bit(a, 7), Bit(b, 7)))
          = Plus(Plus(Bit(a, 6), Bit(a, 7)), Plus(Bit(b, 6), Bit(b, 7)))
    BY <1>2, <1>3, PlusSwap
  <2>4. Bit(x, 5) = Plus(Plus(Bit(a, 6), Bit(a, 7)), Plus(Bit(b, 6), Bit(b, 7)))
    BY <1>5, EntriesByBits
  <2> QED
    BY <2>1, <2>2, <2>3, <2>4
<1>13. Bit(Lo(c), 6) = Bit(x, 6)
  <2>1. Bit(Lo(c), 6) = Plus(Bit(c, 7), Parity(c))
    BY <1>1, EntriesByBits
  <2>2. Plus(Bit(c, 7), Parity(c))
          = Plus(Plus(Bit(a, 7), Bit(b, 7)), Plus(Parity(a), Parity(b)))
    BY <1>2, <1>4
  <2>3. Plus(Plus(Bit(a, 7), Bit(b, 7)), Plus(Parity(a), Parity(b)))
          = Plus(Plus(Bit(a, 7), Parity(a)), Plus(Bit(b, 7), Parity(b)))
    BY <1>2, <1>3, PlusSwap
  <2>4. Bit(x, 6) = Plus(Plus(Bit(a, 7), Parity(a)), Plus(Bit(b, 7), Parity(b)))
    BY <1>5, EntriesByBits
  <2> QED
    BY <2>1, <2>2, <2>3, <2>4
<1>14. Bit(Lo(c), 7) = Bit(x, 7)
  BY <1>1, <1>2, <1>3, <1>4, <1>5, EntriesByBits, PlusLaws
<1>15. Bit(Hi(c), 0) = Bit(y, 0)
  BY <1>1, <1>2, <1>3, <1>4, <1>6, EntriesByBits, PlusLaws
<1>16. Bit(Hi(c), 1) = Bit(y, 1)
  BY <1>1, <1>2, <1>3, <1>4, <1>6, EntriesByBits, PlusLaws
<1>17. Bit(Hi(c), 2) = Bit(y, 2)
  BY <1>1, <1>2, <1>3, <1>4, <1>6, EntriesByBits, PlusLaws
<1>18. Bit(Hi(c), 3) = Bit(y, 3)
  BY <1>1, <1>2, <1>3, <1>4, <1>6, EntriesByBits, PlusLaws
<1>19. Bit(Hi(c), 4) = Bit(y, 4)
  BY <1>1, <1>2, <1>3, <1>4, <1>6, EntriesByBits, PlusLaws
<1>20. Bit(Hi(c), 5) = Bit(y, 5)
  BY <1>1, <1>2, <1>3, <1>4, <1>6, EntriesByBits, PlusLaws
<1>21. Bit(Hi(c), 6) = Bit(y, 6)
  BY <1>1, <1>2, <1>3, <1>4, <1>6, EntriesByBits, PlusLaws
<1>22. Bit(Hi(c), 7) = Bit(y, 7)
  <2>1. Bit(Hi(c), 7) = Plus(Bit(c, 0), Bit(c, 1))
    BY <1>1, EntriesByBits
  <2>2. Plus(Bit(c, 0), Bit(c, 1))
          = Plus(Plus(Bit(a, 0), Bit(b, 0)), Plus(Bit(a, 1), Bit(b, 1)))
    BY <1>2, <1>4
  <2>3. Plus(Plus(Bit(a, 0), Bit(b, 0)), Plus(Bit(a, 1), Bit(b, 1)))
          = Plus(Plus(Bit(a, 0), Bit(a, 1)), Plus(Bit(b, 0), Bit(b, 1)))
    BY <1>2, <1>3, PlusSwap
  <2>4. Bit(y, 7) = Plus(Plus(Bit(a, 0), Bit(a, 1)), Plus(Bit(b, 0), Bit(b, 1)))
    BY <1>6, EntriesByBits
  <2> QED
    BY <2>1, <2>2, <2>3, <2>4
<1>23. Lo(c) = x
  BY <1>1, <1>7, <1>8, <1>9, <1>10, <1>11, <1>12, <1>13, <1>14, ByteExt
<1>24. Hi(c) = y
  BY <1>1, <1>15, <1>16, <1>17, <1>18, <1>19, <1>20, <1>21, <1>22, ByteExt
<1> QED
  BY <1>23, <1>24 DEF c, x, y

(* Zero is the only byte with a zero in table_crc_lo.                      *)
LEMMA EntriesOfZero ==
  /\ Lo(0) = 0 /\ Hi(0) = 0
  /\ \A a \in Byte : Lo(a) = 0 => a = 0
<1>1. Lo(0) = 0 /\ Hi(0) = 0
  BY DEF Lo, Hi, table_crc_lo, table_crc_hi
<1>2. ASSUME NEW a \in Byte, Lo(a) = 0 PROVE a = 0
  <2> DEFINE p == Bit(a, 0)
             q == Bit(a, 1)
             r == Bit(a, 2)
             s == Bit(a, 3)
             t == Bit(a, 4)
             u == Bit(a, 5)
             v == Bit(a, 6)
             w == Bit(a, 7)
             z == Parity(a)
  <2>1. /\ p \in B /\ q \in B /\ r \in B /\ s \in B
        /\ t \in B /\ u \in B /\ v \in B /\ w \in B
        /\ a = Octet(p, q, r, s, t, u, v, w)
    BY OctetOfBits
  <2>2. /\ Plus(q, r) = 0 /\ Plus(r, s) = 0 /\ Plus(s, t) = 0 /\ Plus(t, u) = 0
        /\ Plus(u, v) = 0 /\ Plus(v, w) = 0 /\ Plus(w, z) = 0 /\ z = 0
    BY <1>2, EntriesByBits, BitsOfZero
  <2>3. z = PlusAll(p, q, r, s, t, u, v, w)
    BY DEF Parity
  <2> HIDE DEF p, q, r, s, t, u, v, w, z
  <2>4. z = (p + q + r + s + t + u + v + w) % 2
    BY <2>1, <2>3 DEF PlusAll, Plus, B
  <2>5. /\ p = 0 /\ q = 0 /\ r = 0 /\ s = 0 /\ t = 0 /\ u = 0 /\ v = 0 /\ w = 0
    BY <2>1, <2>2, <2>4 DEF Plus, B
  <2> QED
    BY <2>1, <2>5 DEF Octet
<1> QED
  BY <1>1, <1>2

-----------------------------------------------------------------------------
(***************************************************************************)
(* Induction and recursion up to a number, from the least counterexample.  *)
(***************************************************************************)

LEMMA InductionTo ==
  ASSUME NEW N \in Nat, NEW S, 0 \in S, \A n \in 0..(N - 1) : n \in S => n + 1 \in S
  PROVE  \A n \in 0..N : n \in S
<1> DEFINE T == {n \in 0..N : n \notin S}
           R == OpToRel(<, Nat)
<1>1. SUFFICES ASSUME T # {} PROVE FALSE
  OBVIOUS
<1>2. PICK x \in T : \A y \in T : <<y, x>> \notin R
  <2>1. T \subseteq Nat
    OBVIOUS
  <2> HIDE DEF T, R
  <2>2. IsWellFoundedOn(R, Nat)
    BY NatLessThanWellFounded DEF R
  <2> QED
    BY <1>1, <2>1, <2>2, WFMin
<1>3. x # 0 /\ x \in 0..N /\ x \notin S
  OBVIOUS
<1>4. x - 1 \in 0..(N - 1) /\ (x - 1) + 1 = x
  BY <1>3
<1>5. x - 1 \in T
  BY <1>3, <1>4
<1>6. <<x - 1, x>> \in R
  BY <1>3, <1>4 DEF OpToRel
<1> QED
  BY <1>2, <1>5, <1>6

(* f begins with d, and G[n] takes it from n - 1 to n. *)
Recurs(f, N, d, G) == f = [n \in 0..N |-> IF n = 0 THEN d ELSE G[n][f[n - 1]]]

LEMMA RecursionTo ==
  ASSUME NEW N \in Nat, NEW D, NEW d \in D, NEW G,
         \A n \in 1..N, x \in D : G[n][x] \in D
  PROVE  \E f : Recurs(f, N, d, G)
<1> DEFINE IsRun(f, k) == f \in [0..k -> D] /\ f[0] = d /\ \A n \in 1..k : f[n] = G[n][f[n - 1]]
           S == {k \in 0..N : \E f : IsRun(f, k)}
<1>1. 0 \in S
  <2>1. IsRun([n \in 0..0 |-> d], 0)
    OBVIOUS
  <2> HIDE DEF IsRun
  <2>2. 0 \in 0..N /\ \E f : IsRun(f, 0)
    BY <2>1
  <2> QED
    BY <2>2
<1>2. ASSUME NEW k \in 0..(N - 1), k \in S PROVE k + 1 \in S
  <2>1. PICK f : IsRun(f, k)
    BY <1>2
  <2> DEFINE g == [n \in 0..(k + 1) |-> IF n = k + 1 THEN G[k + 1][f[k]] ELSE f[n]]
  <2>2. f[k] \in D /\ G[k + 1][f[k]] \in D
    BY <2>1
  <2>3. g \in [0..(k + 1) -> D]
    BY <2>1, <2>2
  <2>4. g[0] = d
    BY <2>1
  <2>5. ASSUME NEW n \in 1..(k + 1) PROVE g[n] = G[n][g[n - 1]]
    <3>1. CASE n = k + 1
      <4>1. g[n] = G[n][f[k]] /\ g[n - 1] = f[k]
        BY <3>1
      <4> QED
        BY <4>1
    <3>2. CASE n # k + 1
      <4>1. n \in 1..k /\ n - 1 \in 0..k /\ n - 1 # k + 1
        BY <3>2
      <4>2. g[n] = f[n] /\ g[n - 1] = f[n - 1]
        BY <4>1
      <4> QED
        BY <2>1, <4>1, <4>2
    <3> QED
      BY <3>1, <3>2
  <2>6. IsRun(g, k + 1)
    BY <2>3, <2>4, <2>5
  <2> HIDE DEF IsRun
  <2>7. k + 1 \in 0..N /\ \E h : IsRun(h, k + 1)
    BY <2>6
  <2> QED
    BY <2>7
<1>3. N \in S
  <2> HIDE DEF S
  <2>1. \A n \in 0..N : n \in S
    BY <1>1, <1>2, InductionTo
  <2> QED
    BY <2>1
<1>4. PICK f : IsRun(f, N)
  BY <1>3
<1>5. f = [n \in 0..N |-> IF n = 0 THEN d ELSE G[n][f[n - 1]]]
  <2>1. \A n \in 0..N : f[n] = IF n = 0 THEN d ELSE G[n][f[n - 1]]
    BY <1>4
  <2>2. f \in [0..N -> D]
    BY <1>4
  <2> HIDE DEF IsRun
  <2> QED
    BY <2>1, <2>2
<1> QED
  BY <1>5 DEF Recurs

-----------------------------------------------------------------------------
(***************************************************************************)
(* The checksum, byte by byte.                                             *)
(***************************************************************************)

Register == [lo : Byte, hi : Byte]

Ones == [hi |-> 255, lo |-> 255]

LEMMA StepInRegister ==
  ASSUME NEW c \in Register, NEW e \in Byte
  PROVE  /\ CrcStep(c, e) \in Register
         /\ CrcStep(c, e).lo = Xor(c.hi, Hi(Xor(c.lo, e)))
         /\ CrcStep(c, e).hi = Lo(Xor(c.lo, e))
<1>1. c.lo \in Byte /\ c.hi \in Byte
  BY DEF Register
<1>2. Xor(c.lo, e) \in Byte
  BY <1>1, XorLaws
<1>3. Xor(c.hi, Hi(Xor(c.lo, e))) \in Byte /\ Lo(Xor(c.lo, e)) \in Byte
  BY <1>1, <1>2, EntriesByBits, XorLaws
<1>4. CrcStep(c, e) = [lo |-> Xor(c.hi, Hi(Xor(c.lo, e))), hi |-> Lo(Xor(c.lo, e))]
  BY DEF CrcStep, Hi, Lo
<1> QED
  BY <1>3, <1>4 DEF Register

(* The loop of crc16 goes through the buffer. *)
LEMMA CrcRun ==
  ASSUME NEW b \in Seq(Byte)
  PROVE  \E f : /\ crc16(b) = f[Len(b)] /\ f[0] = Ones
                /\ \A n \in 0..Len(b) : f[n] \in Register
                /\ \A n \in 1..Len(b) : f[n] = CrcStep(f[n - 1], b[n])
<1> DEFINE N == Len(b)
           f == CHOOSE f : f = [n \in 0..N |-> IF n = 0 THEN [hi |-> 255, lo |-> 255]
                                               ELSE CrcStep(f[n - 1], b[n])]
           G == [n \in 1..N |-> [c \in Register |-> CrcStep(c, b[n])]]
<1>1. N \in Nat /\ \A n \in 1..N : b[n] \in Byte
  OBVIOUS
<1>2. Ones \in Register
  BY DEF Ones, Register, Byte
<1>3. \A n \in 1..N, c \in Register : G[n][c] = CrcStep(c, b[n]) /\ G[n][c] \in Register
  BY <1>1, StepInRegister
<1>4. crc16(b) = f[N]
  BY DEF crc16
<1>5. f = [n \in 0..N |-> IF n = 0 THEN [hi |-> 255, lo |-> 255] ELSE CrcStep(f[n - 1], b[n])]
  <2>1. PICK g : g = [n \in 0..N |-> IF n = 0 THEN Ones ELSE G[n][g[n - 1]]]
    <3> HIDE DEF G, N
    <3>1. \E g : Recurs(g, N, Ones, G)
      BY <1>1, <1>2, <1>3, RecursionTo
    <3> QED
      BY <3>1 DEF Recurs
  <2> DEFINE S == {n \in 0..N : g[n] \in Register}
  <2>2. 0 \in S
    BY <1>1, <1>2, <2>1
  <2>3. ASSUME NEW n \in 0..(N - 1), n \in S PROVE n + 1 \in S
    <3>1. n + 1 \in 1..N /\ n + 1 # 0 /\ (n + 1) - 1 = n /\ n + 1 \in 0..N
      BY <1>1
    <3>2. g[n + 1] = G[n + 1][g[n]]
      BY <2>1, <3>1
    <3>3. g[n] \in Register
      BY <2>3
    <3> HIDE DEF G
    <3> QED
      BY <1>3, <3>1, <3>2, <3>3
  <2>4. \A n \in 0..N : g[n] \in Register
    <3>1. \A n \in 0..N : n \in S
      <4> HIDE DEF S
      <4> QED
        BY <1>1, <2>2, <2>3, InductionTo
    <3> QED
      BY <3>1
  <2>5. ASSUME NEW n \in 1..N PROVE G[n][g[n - 1]] = CrcStep(g[n - 1], b[n])
    <3>1. n - 1 \in 0..N
      BY <1>1
    <3> HIDE DEF G
    <3> QED
      BY <1>3, <2>4, <3>1
  <2>6. g = [n \in 0..N |-> IF n = 0 THEN [hi |-> 255, lo |-> 255] ELSE CrcStep(g[n - 1], b[n])]
    <3>1. ASSUME NEW n \in 0..N
          PROVE  g[n] = IF n = 0 THEN [hi |-> 255, lo |-> 255] ELSE CrcStep(g[n - 1], b[n])
      <4> HIDE DEF G
      <4>1. CASE n = 0
        BY <2>1, <4>1 DEF Ones
      <4>2. CASE n # 0
        <5>1. n \in 1..N
          BY <1>1, <4>2
        <5>2. g[n] = G[n][g[n - 1]]
          BY <2>1, <4>2
        <5> QED
          BY <2>5, <4>2, <5>1, <5>2
      <4> QED
        BY <4>1, <4>2
    <3> QED
      BY <2>1, <3>1
  <2> QED
    BY <2>6
<1> HIDE DEF f
<1>6. f[0] = Ones
  BY <1>1, <1>5 DEF Ones
<1>7. ASSUME NEW n \in 1..N PROVE f[n] = CrcStep(f[n - 1], b[n])
  <2>1. n \in 0..N /\ n # 0
    BY <1>1
  <2> QED
    BY <1>5, <2>1
<1>8. \A n \in 0..N : f[n] \in Register
  <2> DEFINE S == {n \in 0..N : f[n] \in Register}
  <2>1. 0 \in S
    BY <1>1, <1>2, <1>6
  <2>2. ASSUME NEW n \in 0..(N - 1), n \in S PROVE n + 1 \in S
    <3>1. n + 1 \in 1..N /\ (n + 1) - 1 = n /\ n + 1 \in 0..N
      BY <1>1
    <3>2. f[n + 1] = CrcStep(f[n], b[n + 1]) /\ f[n] \in Register
      BY <1>7, <2>2, <3>1
    <3>3. f[n + 1] \in Register
      BY <1>1, <3>1, <3>2, StepInRegister
    <3> QED
      BY <3>1, <3>3
  <2>3. \A n \in 0..N : n \in S
    <3> HIDE DEF S
    <3> QED
      BY <1>1, <2>1, <2>2, InductionTo
  <2> QED
    BY <2>3
<1> QED
  BY <1>4, <1>6, <1>7, <1>8

(* The register after the first n bytes of b. *)
After(b, n) == crc16(SubSeq(b, 1, n))

LEMMA AfterBytes ==
  ASSUME NEW b \in Seq(Byte)
  PROVE  /\ After(b, 0) = Ones
         /\ After(b, Len(b)) = crc16(b)
         /\ \A n \in 0..Len(b) : After(b, n) \in Register
         /\ \A n \in 1..Len(b) : After(b, n) = CrcStep(After(b, n - 1), b[n])
<1> DEFINE N == Len(b)
<1>1. N \in Nat /\ \A n \in 1..N : b[n] \in Byte
  OBVIOUS
<1>2. PICK f : /\ crc16(b) = f[N] /\ f[0] = Ones
               /\ \A n \in 0..N : f[n] \in Register
               /\ \A n \in 1..N : f[n] = CrcStep(f[n - 1], b[n])
  BY CrcRun
<1>3. ASSUME NEW k \in 0..N PROVE After(b, k) = f[k]
  <2> DEFINE c == SubSeq(b, 1, k)
  <2>1. c \in Seq(Byte) /\ Len(c) = k /\ \A n \in 1..k : c[n] = b[n]
    BY <1>1
  <2> HIDE DEF c
  <2>2. PICK g : /\ crc16(c) = g[k] /\ g[0] = Ones
                 /\ \A n \in 1..k : g[n] = CrcStep(g[n - 1], c[n])
    BY <2>1, CrcRun
  <2> DEFINE S == {n \in 0..k : g[n] = f[n]}
  <2>3. 0 \in S
    BY <1>1, <1>2, <2>2
  <2>4. ASSUME NEW n \in 0..(k - 1), n \in S PROVE n + 1 \in S
    <3>1. n + 1 \in 1..k /\ n + 1 \in 1..N /\ (n + 1) - 1 = n /\ n + 1 \in 0..k
      BY <1>1
    <3>2. g[n] = f[n]
      BY <2>4
    <3>3. g[n + 1] = CrcStep(f[n], b[n + 1])
      BY <2>1, <2>2, <3>1, <3>2
    <3>4. f[n + 1] = CrcStep(f[n], b[n + 1])
      BY <1>2, <3>1
    <3> QED
      BY <3>1, <3>3, <3>4
  <2>5. k \in Nat /\ k \in 0..k
    BY <1>1
  <2>6. \A n \in 0..k : n \in S
    <3> HIDE DEF S
    <3> QED
      BY <2>3, <2>4, <2>5, InductionTo
  <2>7. g[k] = f[k]
    BY <2>5, <2>6
  <2> QED
    BY <2>2, <2>7 DEF After, c
<1>4. After(b, 0) = Ones /\ After(b, N) = crc16(b)
  BY <1>1, <1>2, <1>3
<1>5. \A n \in 0..N : After(b, n) \in Register
  BY <1>2, <1>3
<1>6. ASSUME NEW n \in 1..N PROVE After(b, n) = CrcStep(After(b, n - 1), b[n])
  <2>1. n \in 0..N /\ n - 1 \in 0..N
    BY <1>1
  <2> QED
    BY <1>2, <1>3, <2>1
<1> QED
  BY <1>4, <1>5, <1>6

-----------------------------------------------------------------------------
(***************************************************************************)
(* The difference between the registers of two buffers.                    *)
(***************************************************************************)

Zero == [lo |-> 0, hi |-> 0]

Difference(c, d) == [lo |-> Xor(c.lo, d.lo), hi |-> Xor(c.hi, d.hi)]

LEMMA DifferenceInRegister ==
  ASSUME NEW c \in Register, NEW d \in Register
  PROVE  /\ Difference(c, d) \in Register
         /\ Difference(c, d) = Zero <=> c = d
<1>1. c.lo \in Byte /\ c.hi \in Byte /\ d.lo \in Byte /\ d.hi \in Byte
  BY DEF Register
<1>2. Xor(c.lo, d.lo) \in Byte /\ Xor(c.hi, d.hi) \in Byte
  BY <1>1, XorLaws
<1>3. (Xor(c.lo, d.lo) = 0 <=> c.lo = d.lo) /\ (Xor(c.hi, d.hi) = 0 <=> c.hi = d.hi)
  BY <1>1, XorZero
<1>4. c = d <=> c.lo = d.lo /\ c.hi = d.hi
  BY DEF Register
<1>5. Difference(c, d) = Zero <=> Xor(c.lo, d.lo) = 0 /\ Xor(c.hi, d.hi) = 0
  BY DEF Difference, Zero
<1> QED
  BY <1>2, <1>3, <1>4, <1>5 DEF Difference, Register

(* A byte takes the difference of two registers to another one that        *)
(* depends on the difference of the bytes alone.                           *)
LEMMA StepOfDifference ==
  ASSUME NEW c \in Register, NEW d \in Register, NEW x \in Byte, NEW y \in Byte
  PROVE  Difference(CrcStep(c, x), CrcStep(d, y)) = CrcStep(Difference(c, d), Xor(x, y))
<1> DEFINE i == Xor(c.lo, x)
           j == Xor(d.lo, y)
           k == Xor(Xor(c.lo, d.lo), Xor(x, y))
<1>1. c.lo \in Byte /\ c.hi \in Byte /\ d.lo \in Byte /\ d.hi \in Byte
  BY DEF Register
<1>2. i \in Byte /\ j \in Byte /\ k = Xor(i, j)
  <2>1. i \in Byte /\ j \in Byte
    BY <1>1, XorLaws
  <2>2. k = Xor(i, j)
    BY <1>1, XorSwap
  <2> QED
    BY <2>1, <2>2
<1>3. /\ CrcStep(c, x) = [lo |-> Xor(c.hi, Hi(i)), hi |-> Lo(i)]
      /\ CrcStep(d, y) = [lo |-> Xor(d.hi, Hi(j)), hi |-> Lo(j)]
  BY DEF CrcStep, Hi, Lo
<1>4. CrcStep(Difference(c, d), Xor(x, y)) = [lo |-> Xor(Xor(c.hi, d.hi), Hi(k)), hi |-> Lo(k)]
  BY DEF CrcStep, Hi, Lo, Difference
<1>5. Difference(CrcStep(c, x), CrcStep(d, y))
        = [lo |-> Xor(Xor(c.hi, Hi(i)), Xor(d.hi, Hi(j))), hi |-> Xor(Lo(i), Lo(j))]
  BY <1>3 DEF Difference
<1> HIDE DEF i, j, k
<1>6. /\ Lo(k) = Xor(Lo(i), Lo(j)) /\ Hi(k) = Xor(Hi(i), Hi(j))
      /\ Hi(i) \in Byte /\ Hi(j) \in Byte
  BY <1>2, TablesAreLinear, EntriesByBits
<1>7. Xor(Xor(c.hi, Hi(i)), Xor(d.hi, Hi(j))) = Xor(Xor(c.hi, d.hi), Xor(Hi(i), Hi(j)))
  BY <1>1, <1>6, XorSwap
<1> QED
  BY <1>4, <1>5, <1>6, <1>7

(* The only step to zero. *)
LEMMA StepToZero ==
  ASSUME NEW c \in Register, NEW e \in Byte
  PROVE  CrcStep(c, e) = Zero <=> c.lo = e /\ c.hi = 0
<1> DEFINE i == Xor(c.lo, e)
<1>1. c.lo \in Byte /\ c.hi \in Byte
  BY DEF Register
<1>2. i \in Byte /\ (i = 0 <=> c.lo = e)
  BY <1>1, XorLaws, XorZero
<1>3. CrcStep(c, e) = [lo |-> Xor(c.hi, Hi(i)), hi |-> Lo(i)]
  BY DEF CrcStep, Hi, Lo
<1> HIDE DEF i
<1>4. Lo(i) = 0 <=> i = 0
  BY <1>2, EntriesOfZero
<1>5. CASE i = 0
  <2>1. Xor(c.hi, Hi(i)) = c.hi
    BY <1>1, <1>5, EntriesOfZero, XorLaws
  <2> QED
    BY <1>2, <1>3, <1>4, <1>5, <2>1 DEF Zero
<1>6. CASE i # 0
  BY <1>2, <1>3, <1>4, <1>6 DEF Zero
<1> QED
  BY <1>5, <1>6

(* The high byte of the difference tells whether a byte was damaged.       *)
LEMMA StepFromZero ==
  ASSUME NEW e \in Byte
  PROVE  /\ Zero \in Register
         /\ CrcStep(Zero, e) = [lo |-> Hi(e), hi |-> Lo(e)]
         /\ CrcStep(Zero, e).hi = 0 <=> e = 0
         /\ CrcStep(Zero, 0) = Zero
<1>1. Zero \in Register /\ Zero.lo = 0 /\ Zero.hi = 0
  BY BitsOfZero DEF Zero, Register
<1>2. Xor(0, e) = e /\ Xor(0, Hi(e)) = Hi(e)
  BY XorLaws, EntriesByBits
<1>3. CrcStep(Zero, e) = [lo |-> Hi(e), hi |-> Lo(e)]
  BY <1>1, <1>2 DEF CrcStep, Hi, Lo
<1>4. Lo(e) = 0 <=> e = 0
  BY EntriesOfZero
<1>5. CrcStep(Zero, 0) = Zero
  BY <1>1, BitsOfZero, StepToZero
<1> QED
  BY <1>1, <1>3, <1>4, <1>5

(* The bytes with one bit. *)
Masks == {1, 2, 4, 8, 16, 32, 64, 128}

(* A way to compute an exclusive or. *)
XorSum(a, b) ==
  ((a + b) % 2)
    + 2 * (((a \div 2) + (b \div 2)) % 2)
    + 4 * (((a \div 4) + (b \div 4)) % 2)
    + 8 * (((a \div 8) + (b \div 8)) % 2)
    + 16 * (((a \div 16) + (b \div 16)) % 2)
    + 32 * (((a \div 32) + (b \div 32)) % 2)
    + 64 * (((a \div 64) + (b \div 64)) % 2)
    + 128 * (((a \div 128) + (b \div 128)) % 2)

LEMMA XorValue ==
  ASSUME NEW a \in Byte, NEW b \in Byte
  PROVE  Xor(a, b) = XorSum(a, b)
<1>1. Bit(Xor(a, b), 0) = ((a \div 1) + (b \div 1)) % 2
  <2>1. Bit(Xor(a, b), 0) = (((a \div 1) % 2) + ((b \div 1) % 2)) % 2
    BY XorBits, PowersOfTwo DEF Bit, Plus
  <2>2. a \div 1 \in Int /\ b \div 1 \in Int
    BY DEF Byte
  <2> QED
    BY <2>1, <2>2
<1>2. Bit(Xor(a, b), 1) = ((a \div 2) + (b \div 2)) % 2
  <2>1. Bit(Xor(a, b), 1) = (((a \div 2) % 2) + ((b \div 2) % 2)) % 2
    BY XorBits, PowersOfTwo DEF Bit, Plus
  <2>2. a \div 2 \in Int /\ b \div 2 \in Int
    BY DEF Byte
  <2> QED
    BY <2>1, <2>2
<1>3. Bit(Xor(a, b), 2) = ((a \div 4) + (b \div 4)) % 2
  <2>1. Bit(Xor(a, b), 2) = (((a \div 4) % 2) + ((b \div 4) % 2)) % 2
    BY XorBits, PowersOfTwo DEF Bit, Plus
  <2>2. a \div 4 \in Int /\ b \div 4 \in Int
    BY DEF Byte
  <2> QED
    BY <2>1, <2>2
<1>4. Bit(Xor(a, b), 3) = ((a \div 8) + (b \div 8)) % 2
  <2>1. Bit(Xor(a, b), 3) = (((a \div 8) % 2) + ((b \div 8) % 2)) % 2
    BY XorBits, PowersOfTwo DEF Bit, Plus
  <2>2. a \div 8 \in Int /\ b \div 8 \in Int
    BY DEF Byte
  <2> QED
    BY <2>1, <2>2
<1>5. Bit(Xor(a, b), 4) = ((a \div 16) + (b \div 16)) % 2
  <2>1. Bit(Xor(a, b), 4) = (((a \div 16) % 2) + ((b \div 16) % 2)) % 2
    BY XorBits, PowersOfTwo DEF Bit, Plus
  <2>2. a \div 16 \in Int /\ b \div 16 \in Int
    BY DEF Byte
  <2> QED
    BY <2>1, <2>2
<1>6. Bit(Xor(a, b), 5) = ((a \div 32) + (b \div 32)) % 2
  <2>1. Bit(Xor(a, b), 5) = (((a \div 32) % 2) + ((b \div 32) % 2)) % 2
    BY XorBits, PowersOfTwo DEF Bit, Plus
  <2>2. a \div 32 \in Int /\ b \div 32 \in Int
    BY DEF Byte
  <2> QED
    BY <2>1, <2>2
<1>7. Bit(Xor(a, b), 6) = ((a \div 64) + (b \div 64)) % 2
  <2>1. Bit(Xor(a, b), 6) = (((a \div 64) % 2) + ((b \div 64) % 2)) % 2
    BY XorBits, PowersOfTwo DEF Bit, Plus
  <2>2. a \div 64 \in Int /\ b \div 64 \in Int
    BY DEF Byte
  <2> QED
    BY <2>1, <2>2
<1>8. Bit(Xor(a, b), 7) = ((a \div 128) + (b \div 128)) % 2
  <2>1. Bit(Xor(a, b), 7) = (((a \div 128) % 2) + ((b \div 128) % 2)) % 2
    BY XorBits, PowersOfTwo DEF Bit, Plus
  <2>2. a \div 128 \in Int /\ b \div 128 \in Int
    BY DEF Byte
  <2> QED
    BY <2>1, <2>2
<1>9. a \div 1 = a /\ b \div 1 = b
  BY DEF Byte
<1> DEFINE x == Xor(a, b)
<1>10. x = Octet(Bit(x, 0), Bit(x, 1), Bit(x, 2), Bit(x, 3), Bit(x, 4), Bit(x, 5), Bit(x, 6), Bit(x, 7))
  BY XorLaws, OctetOfBits
<1> QED
  BY <1>1, <1>2, <1>3, <1>4, <1>5, <1>6, <1>7, <1>8, <1>9, <1>10 DEF Octet, XorSum


(* A register. *)
R(l, h) == [lo |-> l, hi |-> h]

LEMMA StepOfZeros ==
  ASSUME NEW h \in Byte, NEW l \in Byte
  PROVE  /\ CrcStep(R(l, h), 0) = R(Xor(h, Hi(l)), Lo(l))
         /\ CrcStep(Zero, l) = R(Hi(l), Lo(l))
         /\ R(l, h).hi = h
<1>1. CrcStep(R(l, h), 0) = R(Xor(h, Hi(l)), Lo(l))
  BY XorLaws DEF CrcStep, Hi, Lo, R
<1>2. CrcStep(Zero, l) = R(Hi(l), Lo(l))
  BY StepFromZero DEF R
<1> QED
  BY <1>1, <1>2 DEF R

(* One flipped bit, and zeros after it: no byte can undo it.               *)
LEMMA FlippedBit ==
  ASSUME NEW e \in Masks, NEW d, d[1] = CrcStep(Zero, e),
         \A n \in 1..7 : d[n + 1] = CrcStep(d[n], 0)
  PROVE  \A n \in 1..8 : d[n].hi # 0
<1>1. /\ d[2] = CrcStep(d[1], 0) /\ d[3] = CrcStep(d[2], 0) /\ d[4] = CrcStep(d[3], 0)
      /\ d[5] = CrcStep(d[4], 0) /\ d[6] = CrcStep(d[5], 0) /\ d[7] = CrcStep(d[6], 0)
      /\ d[8] = CrcStep(d[7], 0)
  OBVIOUS
<1>2. CASE e = 1
  <2>1. /\ Hi(1) = 193 /\ Lo(1) = 192 /\ Hi(193) = 193 /\ Lo(193) = 144
        /\ Hi(81) = 193 /\ Lo(81) = 252 /\ Hi(61) = 193 /\ Lo(61) = 209
        /\ Hi(16) = 1 /\ Lo(16) = 204
    BY DEF Hi, Lo, table_crc_hi, table_crc_lo
  <2>2. /\ Xor(192, 193) = 1 /\ Xor(144, 193) = 81 /\ Xor(252, 193) = 61
        /\ Xor(209, 193) = 16 /\ Xor(192, 1) = 193
    <3>1. /\ XorSum(192, 193) = 1 /\ XorSum(144, 193) = 81 /\ XorSum(252, 193) = 61
          /\ XorSum(209, 193) = 16 /\ XorSum(192, 1) = 193
      BY DEF XorSum
    <3>2. /\ 192 \in Byte /\ 193 \in Byte /\ 144 \in Byte /\ 252 \in Byte /\ 209 \in Byte
          /\ 1 \in Byte
      BY DEF Byte
    <3> QED
      BY <3>1, <3>2, XorValue
  <2>3. /\ 1 \in Byte /\ 193 \in Byte /\ 192 \in Byte /\ 144 \in Byte /\ 81 \in Byte
        /\ 252 \in Byte /\ 61 \in Byte /\ 209 \in Byte /\ 16 \in Byte /\ 204 \in Byte
    BY DEF Byte
  <2>4. /\ CrcStep(Zero, 1) = R(193, 192) /\ CrcStep(R(193, 192), 0) = R(1, 144)
        /\ CrcStep(R(1, 144), 0) = R(81, 192) /\ CrcStep(R(81, 192), 0) = R(1, 252)
        /\ CrcStep(R(1, 252), 0) = R(61, 192) /\ CrcStep(R(61, 192), 0) = R(1, 209)
        /\ CrcStep(R(1, 209), 0) = R(16, 192) /\ CrcStep(R(16, 192), 0) = R(193, 204)
    BY <2>1, <2>2, <2>3, StepOfZeros
  <2>5. /\ d[1] = R(193, 192) /\ d[2] = R(1, 144) /\ d[3] = R(81, 192) /\ d[4] = R(1, 252)
        /\ d[5] = R(61, 192) /\ d[6] = R(1, 209) /\ d[7] = R(16, 192) /\ d[8] = R(193, 204)
    BY <1>1, <1>2, <2>4
  <2> QED
    BY <2>3, <2>5, StepOfZeros
<1>3. CASE e = 2
  <2>1. /\ Hi(2) = 129 /\ Lo(2) = 193 /\ Hi(129) = 192 /\ Lo(129) = 96
        /\ Hi(1) = 193 /\ Lo(1) = 192 /\ Hi(161) = 193 /\ Lo(161) = 184
        /\ Hi(121) = 193 /\ Lo(121) = 226 /\ Hi(35) = 65 /\ Lo(35) = 217
    BY DEF Hi, Lo, table_crc_hi, table_crc_lo
  <2>2. /\ Xor(193, 192) = 1 /\ Xor(96, 193) = 161 /\ Xor(192, 193) = 1
        /\ Xor(184, 193) = 121 /\ Xor(226, 193) = 35 /\ Xor(192, 65) = 129
    <3>1. /\ XorSum(193, 192) = 1 /\ XorSum(96, 193) = 161 /\ XorSum(192, 193) = 1
          /\ XorSum(184, 193) = 121 /\ XorSum(226, 193) = 35 /\ XorSum(192, 65) = 129
      BY DEF XorSum
    <3>2. /\ 193 \in Byte /\ 192 \in Byte /\ 96 \in Byte /\ 184 \in Byte /\ 226 \in Byte
          /\ 65 \in Byte
      BY DEF Byte
    <3> QED
      BY <3>1, <3>2, XorValue
  <2>3. /\ 2 \in Byte /\ 129 \in Byte /\ 193 \in Byte /\ 1 \in Byte /\ 96 \in Byte
        /\ 161 \in Byte /\ 192 \in Byte /\ 184 \in Byte /\ 121 \in Byte /\ 226 \in Byte
        /\ 35 \in Byte /\ 217 \in Byte
    BY DEF Byte
  <2>4. /\ CrcStep(Zero, 2) = R(129, 193) /\ CrcStep(R(129, 193), 0) = R(1, 96)
        /\ CrcStep(R(1, 96), 0) = R(161, 192) /\ CrcStep(R(161, 192), 0) = R(1, 184)
        /\ CrcStep(R(1, 184), 0) = R(121, 192) /\ CrcStep(R(121, 192), 0) = R(1, 226)
        /\ CrcStep(R(1, 226), 0) = R(35, 192) /\ CrcStep(R(35, 192), 0) = R(129, 217)
    BY <2>1, <2>2, <2>3, StepOfZeros
  <2>5. /\ d[1] = R(129, 193) /\ d[2] = R(1, 96) /\ d[3] = R(161, 192) /\ d[4] = R(1, 184)
        /\ d[5] = R(121, 192) /\ d[6] = R(1, 226) /\ d[7] = R(35, 192) /\ d[8] = R(129, 217)
    BY <1>1, <1>3, <2>4
  <2> QED
    BY <2>3, <2>5, StepOfZeros
<1>4. CASE e = 4
  <2>1. /\ Hi(4) = 1 /\ Lo(4) = 195 /\ Hi(1) = 193 /\ Lo(1) = 192
        /\ Hi(2) = 129 /\ Lo(2) = 193 /\ Hi(65) = 192 /\ Lo(65) = 48
        /\ Hi(241) = 193 /\ Lo(241) = 132 /\ Hi(69) = 193 /\ Lo(69) = 243
    BY DEF Hi, Lo, table_crc_hi, table_crc_lo
  <2>2. /\ Xor(195, 193) = 2 /\ Xor(192, 129) = 65 /\ Xor(193, 192) = 1
        /\ Xor(48, 193) = 241 /\ Xor(192, 193) = 1 /\ Xor(132, 193) = 69
    <3>1. /\ XorSum(195, 193) = 2 /\ XorSum(192, 129) = 65 /\ XorSum(193, 192) = 1
          /\ XorSum(48, 193) = 241 /\ XorSum(192, 193) = 1 /\ XorSum(132, 193) = 69
      BY DEF XorSum
    <3>2. /\ 195 \in Byte /\ 193 \in Byte /\ 192 \in Byte /\ 129 \in Byte /\ 48 \in Byte
          /\ 132 \in Byte
      BY DEF Byte
    <3> QED
      BY <3>1, <3>2, XorValue
  <2>3. /\ 4 \in Byte /\ 1 \in Byte /\ 195 \in Byte /\ 2 \in Byte /\ 192 \in Byte
        /\ 65 \in Byte /\ 193 \in Byte /\ 48 \in Byte /\ 241 \in Byte /\ 132 \in Byte
        /\ 69 \in Byte /\ 243 \in Byte
    BY DEF Byte
  <2>4. /\ CrcStep(Zero, 4) = R(1, 195) /\ CrcStep(R(1, 195), 0) = R(2, 192)
        /\ CrcStep(R(2, 192), 0) = R(65, 193) /\ CrcStep(R(65, 193), 0) = R(1, 48)
        /\ CrcStep(R(1, 48), 0) = R(241, 192) /\ CrcStep(R(241, 192), 0) = R(1, 132)
        /\ CrcStep(R(1, 132), 0) = R(69, 192) /\ CrcStep(R(69, 192), 0) = R(1, 243)
    BY <2>1, <2>2, <2>3, StepOfZeros
  <2>5. /\ d[1] = R(1, 195) /\ d[2] = R(2, 192) /\ d[3] = R(65, 193) /\ d[4] = R(1, 48)
        /\ d[5] = R(241, 192) /\ d[6] = R(1, 132) /\ d[7] = R(69, 192) /\ d[8] = R(1, 243)
    BY <1>1, <1>4, <2>4
  <2> QED
    BY <2>3, <2>5, StepOfZeros
<1>5. CASE e = 8
  <2>1. /\ Hi(8) = 1 /\ Lo(8) = 198 /\ Hi(1) = 193 /\ Lo(1) = 192
        /\ Hi(7) = 65 /\ Lo(7) = 194 /\ Hi(129) = 192 /\ Lo(129) = 96
        /\ Hi(2) = 129 /\ Lo(2) = 193 /\ Hi(225) = 192 /\ Lo(225) = 72
        /\ Hi(137) = 193 /\ Lo(137) = 166
    BY DEF Hi, Lo, table_crc_hi, table_crc_lo
  <2>2. /\ Xor(198, 193) = 7 /\ Xor(192, 65) = 129 /\ Xor(194, 192) = 2
        /\ Xor(96, 129) = 225 /\ Xor(193, 192) = 1 /\ Xor(72, 193) = 137
        /\ Xor(192, 193) = 1
    <3>1. /\ XorSum(198, 193) = 7 /\ XorSum(192, 65) = 129 /\ XorSum(194, 192) = 2
          /\ XorSum(96, 129) = 225 /\ XorSum(193, 192) = 1 /\ XorSum(72, 193) = 137
          /\ XorSum(192, 193) = 1
      BY DEF XorSum
    <3>2. /\ 198 \in Byte /\ 193 \in Byte /\ 192 \in Byte /\ 65 \in Byte /\ 194 \in Byte
          /\ 96 \in Byte /\ 129 \in Byte /\ 72 \in Byte
      BY DEF Byte
    <3> QED
      BY <3>1, <3>2, XorValue
  <2>3. /\ 8 \in Byte /\ 1 \in Byte /\ 198 \in Byte /\ 7 \in Byte /\ 192 \in Byte
        /\ 129 \in Byte /\ 194 \in Byte /\ 2 \in Byte /\ 96 \in Byte /\ 225 \in Byte
        /\ 193 \in Byte /\ 72 \in Byte /\ 137 \in Byte /\ 166 \in Byte
    BY DEF Byte
  <2>4. /\ CrcStep(Zero, 8) = R(1, 198) /\ CrcStep(R(1, 198), 0) = R(7, 192)
        /\ CrcStep(R(7, 192), 0) = R(129, 194) /\ CrcStep(R(129, 194), 0) = R(2, 96)
        /\ CrcStep(R(2, 96), 0) = R(225, 193) /\ CrcStep(R(225, 193), 0) = R(1, 72)
        /\ CrcStep(R(1, 72), 0) = R(137, 192) /\ CrcStep(R(137, 192), 0) = R(1, 166)
    BY <2>1, <2>2, <2>3, StepOfZeros
  <2>5. /\ d[1] = R(1, 198) /\ d[2] = R(7, 192) /\ d[3] = R(129, 194) /\ d[4] = R(2, 96)
        /\ d[5] = R(225, 193) /\ d[6] = R(1, 72) /\ d[7] = R(137, 192) /\ d[8] = R(1, 166)
    BY <1>1, <1>5, <2>4
  <2> QED
    BY <2>3, <2>5, StepOfZeros
<1>6. CASE e = 16
  <2>1. /\ Hi(16) = 1 /\ Lo(16) = 204 /\ Hi(1) = 193 /\ Lo(1) = 192
        /\ Hi(13) = 193 /\ Lo(13) = 197 /\ Hi(4) = 1 /\ Lo(4) = 195
        /\ Hi(193) = 193 /\ Lo(193) = 144 /\ Hi(2) = 129 /\ Lo(2) = 193
        /\ Hi(17) = 192 /\ Lo(17) = 12
    BY DEF Hi, Lo, table_crc_hi, table_crc_lo
  <2>2. /\ Xor(204, 193) = 13 /\ Xor(192, 193) = 1 /\ Xor(197, 193) = 4
        /\ Xor(192, 1) = 193 /\ Xor(195, 193) = 2 /\ Xor(144, 129) = 17
        /\ Xor(193, 192) = 1
    <3>1. /\ XorSum(204, 193) = 13 /\ XorSum(192, 193) = 1 /\ XorSum(197, 193) = 4
          /\ XorSum(192, 1) = 193 /\ XorSum(195, 193) = 2 /\ XorSum(144, 129) = 17
          /\ XorSum(193, 192) = 1
      BY DEF XorSum
    <3>2. /\ 204 \in Byte /\ 193 \in Byte /\ 192 \in Byte /\ 197 \in Byte /\ 1 \in Byte
          /\ 195 \in Byte /\ 144 \in Byte /\ 129 \in Byte
      BY DEF Byte
    <3> QED
      BY <3>1, <3>2, XorValue
  <2>3. /\ 16 \in Byte /\ 1 \in Byte /\ 204 \in Byte /\ 13 \in Byte /\ 192 \in Byte
        /\ 197 \in Byte /\ 4 \in Byte /\ 193 \in Byte /\ 195 \in Byte /\ 2 \in Byte
        /\ 144 \in Byte /\ 17 \in Byte /\ 12 \in Byte
    BY DEF Byte
  <2>4. /\ CrcStep(Zero, 16) = R(1, 204) /\ CrcStep(R(1, 204), 0) = R(13, 192)
        /\ CrcStep(R(13, 192), 0) = R(1, 197) /\ CrcStep(R(1, 197), 0) = R(4, 192)
        /\ CrcStep(R(4, 192), 0) = R(193, 195) /\ CrcStep(R(193, 195), 0) = R(2, 144)
        /\ CrcStep(R(2, 144), 0) = R(17, 193) /\ CrcStep(R(17, 193), 0) = R(1, 12)
    BY <2>1, <2>2, <2>3, StepOfZeros
  <2>5. /\ d[1] = R(1, 204) /\ d[2] = R(13, 192) /\ d[3] = R(1, 197) /\ d[4] = R(4, 192)
        /\ d[5] = R(193, 195) /\ d[6] = R(2, 144) /\ d[7] = R(17, 193) /\ d[8] = R(1, 12)
    BY <1>1, <1>6, <2>4
  <2> QED
    BY <2>3, <2>5, StepOfZeros
<1>7. CASE e = 32
  <2>1. /\ Hi(32) = 1 /\ Lo(32) = 216 /\ Hi(1) = 193 /\ Lo(1) = 192
        /\ Hi(25) = 193 /\ Lo(25) = 202 /\ Hi(11) = 65 /\ Lo(11) = 199
        /\ Hi(129) = 192 /\ Lo(129) = 96 /\ Hi(7) = 65 /\ Lo(7) = 194
        /\ Hi(33) = 192 /\ Lo(33) = 24
    BY DEF Hi, Lo, table_crc_hi, table_crc_lo
  <2>2. /\ Xor(216, 193) = 25 /\ Xor(192, 193) = 1 /\ Xor(202, 193) = 11
        /\ Xor(192, 65) = 129 /\ Xor(199, 192) = 7 /\ Xor(96, 65) = 33
        /\ Xor(194, 192) = 2
    <3>1. /\ XorSum(216, 193) = 25 /\ XorSum(192, 193) = 1 /\ XorSum(202, 193) = 11
          /\ XorSum(192, 65) = 129 /\ XorSum(199, 192) = 7 /\ XorSum(96, 65) = 33
          /\ XorSum(194, 192) = 2
      BY DEF XorSum
    <3>2. /\ 216 \in Byte /\ 193 \in Byte /\ 192 \in Byte /\ 202 \in Byte /\ 65 \in Byte
          /\ 199 \in Byte /\ 96 \in Byte /\ 194 \in Byte
      BY DEF Byte
    <3> QED
      BY <3>1, <3>2, XorValue
  <2>3. /\ 32 \in Byte /\ 1 \in Byte /\ 216 \in Byte /\ 25 \in Byte /\ 192 \in Byte
        /\ 202 \in Byte /\ 11 \in Byte /\ 129 \in Byte /\ 199 \in Byte /\ 7 \in Byte
        /\ 96 \in Byte /\ 33 \in Byte /\ 194 \in Byte /\ 2 \in Byte /\ 24 \in Byte
    BY DEF Byte
  <2>4. /\ CrcStep(Zero, 32) = R(1, 216) /\ CrcStep(R(1, 216), 0) = R(25, 192)
        /\ CrcStep(R(25, 192), 0) = R(1, 202) /\ CrcStep(R(1, 202), 0) = R(11, 192)
        /\ CrcStep(R(11, 192), 0) = R(129, 199) /\ CrcStep(R(129, 199), 0) = R(7, 96)
        /\ CrcStep(R(7, 96), 0) = R(33, 194) /\ CrcStep(R(33, 194), 0) = R(2, 24)
    BY <2>1, <2>2, <2>3, StepOfZeros
  <2>5. /\ d[1] = R(1, 216) /\ d[2] = R(25, 192) /\ d[3] = R(1, 202) /\ d[4] = R(11, 192)
        /\ d[5] = R(129, 199) /\ d[6] = R(7, 96) /\ d[7] = R(33, 194) /\ d[8] = R(2, 24)
    BY <1>1, <1>7, <2>4
  <2> QED
    BY <2>3, <2>5, StepOfZeros
<1>8. CASE e = 64
  <2>1. /\ Hi(64) = 1 /\ Lo(64) = 240 /\ Hi(1) = 193 /\ Lo(1) = 192
        /\ Hi(49) = 193 /\ Lo(49) = 212 /\ Hi(21) = 193 /\ Lo(21) = 207
        /\ Hi(14) = 129 /\ Lo(14) = 196 /\ Hi(65) = 192 /\ Lo(65) = 48
    BY DEF Hi, Lo, table_crc_hi, table_crc_lo
  <2>2. /\ Xor(240, 193) = 49 /\ Xor(192, 193) = 1 /\ Xor(212, 193) = 21
        /\ Xor(207, 193) = 14 /\ Xor(192, 129) = 65 /\ Xor(196, 192) = 4
    <3>1. /\ XorSum(240, 193) = 49 /\ XorSum(192, 193) = 1 /\ XorSum(212, 193) = 21
          /\ XorSum(207, 193) = 14 /\ XorSum(192, 129) = 65 /\ XorSum(196, 192) = 4
      BY DEF XorSum
    <3>2. /\ 240 \in Byte /\ 193 \in Byte /\ 192 \in Byte /\ 212 \in Byte /\ 207 \in Byte
          /\ 129 \in Byte /\ 196 \in Byte
      BY DEF Byte
    <3> QED
      BY <3>1, <3>2, XorValue
  <2>3. /\ 64 \in Byte /\ 1 \in Byte /\ 240 \in Byte /\ 49 \in Byte /\ 192 \in Byte
        /\ 212 \in Byte /\ 21 \in Byte /\ 207 \in Byte /\ 14 \in Byte /\ 65 \in Byte
        /\ 196 \in Byte /\ 4 \in Byte /\ 48 \in Byte
    BY DEF Byte
  <2>4. /\ CrcStep(Zero, 64) = R(1, 240) /\ CrcStep(R(1, 240), 0) = R(49, 192)
        /\ CrcStep(R(49, 192), 0) = R(1, 212) /\ CrcStep(R(1, 212), 0) = R(21, 192)
        /\ CrcStep(R(21, 192), 0) = R(1, 207) /\ CrcStep(R(1, 207), 0) = R(14, 192)
        /\ CrcStep(R(14, 192), 0) = R(65, 196) /\ CrcStep(R(65, 196), 0) = R(4, 48)
    BY <2>1, <2>2, <2>3, StepOfZeros
  <2>5. /\ d[1] = R(1, 240) /\ d[2] = R(49, 192) /\ d[3] = R(1, 212) /\ d[4] = R(21, 192)
        /\ d[5] = R(1, 207) /\ d[6] = R(14, 192) /\ d[7] = R(65, 196) /\ d[8] = R(4, 48)
    BY <1>1, <1>8, <2>4
  <2> QED
    BY <2>3, <2>5, StepOfZeros
<1>9. CASE e = 128
  <2>1. /\ Hi(128) = 1 /\ Lo(128) = 160 /\ Hi(1) = 193 /\ Lo(1) = 192
        /\ Hi(97) = 193 /\ Lo(97) = 232 /\ Hi(41) = 193 /\ Lo(41) = 222
        /\ Hi(31) = 65 /\ Lo(31) = 200 /\ Hi(129) = 192 /\ Lo(129) = 96
    BY DEF Hi, Lo, table_crc_hi, table_crc_lo
  <2>2. /\ Xor(160, 193) = 97 /\ Xor(192, 193) = 1 /\ Xor(232, 193) = 41
        /\ Xor(222, 193) = 31 /\ Xor(192, 65) = 129 /\ Xor(200, 192) = 8
    <3>1. /\ XorSum(160, 193) = 97 /\ XorSum(192, 193) = 1 /\ XorSum(232, 193) = 41
          /\ XorSum(222, 193) = 31 /\ XorSum(192, 65) = 129 /\ XorSum(200, 192) = 8
      BY DEF XorSum
    <3>2. /\ 160 \in Byte /\ 193 \in Byte /\ 192 \in Byte /\ 232 \in Byte /\ 222 \in Byte
          /\ 65 \in Byte /\ 200 \in Byte
      BY DEF Byte
    <3> QED
      BY <3>1, <3>2, XorValue
  <2>3. /\ 128 \in Byte /\ 1 \in Byte /\ 160 \in Byte /\ 97 \in Byte /\ 192 \in Byte
        /\ 232 \in Byte /\ 41 \in Byte /\ 222 \in Byte /\ 31 \in Byte /\ 129 \in Byte
        /\ 200 \in Byte /\ 8 \in Byte /\ 96 \in Byte
    BY DEF Byte
  <2>4. /\ CrcStep(Zero, 128) = R(1, 160) /\ CrcStep(R(1, 160), 0) = R(97, 192)
        /\ CrcStep(R(97, 192), 0) = R(1, 232) /\ CrcStep(R(1, 232), 0) = R(41, 192)
        /\ CrcStep(R(41, 192), 0) = R(1, 222) /\ CrcStep(R(1, 222), 0) = R(31, 192)
        /\ CrcStep(R(31, 192), 0) = R(129, 200) /\ CrcStep(R(129, 200), 0) = R(8, 96)
    BY <2>1, <2>2, <2>3, StepOfZeros
  <2>5. /\ d[1] = R(1, 160) /\ d[2] = R(97, 192) /\ d[3] = R(1, 232) /\ d[4] = R(41, 192)
        /\ d[5] = R(1, 222) /\ d[6] = R(31, 192) /\ d[7] = R(129, 200) /\ d[8] = R(8, 96)
    BY <1>1, <1>9, <2>4
  <2> QED
    BY <2>3, <2>5, StepOfZeros
<1> QED
  BY <1>2, <1>3, <1>4, <1>5, <1>6, <1>7, <1>8, <1>9 DEF Masks

-----------------------------------------------------------------------------
(***************************************************************************)
(* Two frames of nine bytes, the first of them with its checksum.          *)
(***************************************************************************)

FrameSize == 9

Frame == {b \in Seq(Byte) : Len(b) = FrameSize}

LEMMA ByteOfFrame ==
  ASSUME NEW b \in Frame
  PROVE  /\ b \in Seq(Byte) /\ Len(b) = 9
         /\ \A n \in 1..9 : b[n] \in Byte
         /\ After(b, 0) = Ones
         /\ \A n \in 0..9 : After(b, n) \in Register
         /\ \A n \in 1..9 : After(b, n) = CrcStep(After(b, n - 1), b[n])
<1>1. b \in Seq(Byte) /\ Len(b) = 9
  BY DEF Frame, FrameSize
<1>2. \A n \in 1..9 : b[n] \in Byte
  <2>1. \A n \in 1..Len(b) : b[n] \in Byte
    BY <1>1, ElementOfSeq
  <2> QED
    BY <1>1, <2>1
<1>3. /\ After(b, 0) = Ones
      /\ \A n \in 0..Len(b) : After(b, n) \in Register
      /\ \A n \in 1..Len(b) : After(b, n) = CrcStep(After(b, n - 1), b[n])
  BY <1>1, AfterBytes
<1> QED
  BY <1>1, <1>2, <1>3

(* _modbus_rtu_check_integrity: the checksum of a message and of its own   *)
(* checksum is zero.                                                       *)
LEMMA IntegrityIsZero ==
  ASSUME NEW b \in Frame
  PROVE  check_integrity(b) <=> After(b, 9) = Zero
<1> DEFINE c == After(b, 7)
           i == Xor(c.lo, b[8])
<1>1. /\ b[8] \in Byte /\ b[9] \in Byte /\ c \in Register /\ After(b, 8) \in Register
      /\ After(b, 8) = CrcStep(c, b[8]) /\ After(b, 9) = CrcStep(After(b, 8), b[9])
  BY ByteOfFrame
<1>2. check_integrity(b) <=> c = [lo |-> b[8], hi |-> b[9]]
  <2>1. Len(b) - 2 = 7 /\ Len(b) - 1 = 8 /\ Len(b) = 9
    BY ByteOfFrame
  <2> QED
    BY <2>1 DEF check_integrity, After
<1> HIDE DEF c
<1>3. c.lo \in Byte /\ c.hi \in Byte /\ i \in Byte
  BY <1>1, XorLaws DEF Register
<1>4. After(b, 8).lo = Xor(c.hi, Hi(i)) /\ After(b, 8).hi = Lo(i)
  BY <1>1, StepInRegister
<1>5. After(b, 9) = Zero <=> Xor(c.hi, Hi(i)) = b[9] /\ Lo(i) = 0
  BY <1>1, <1>4, StepToZero
<1>6. i = 0 <=> c.lo = b[8]
  BY <1>1, <1>3, XorZero
<1> HIDE DEF i
<1>7. Lo(i) = 0 <=> i = 0
  BY <1>3, EntriesOfZero
<1>8. i = 0 => Xor(c.hi, Hi(i)) = c.hi
  BY <1>3, EntriesOfZero, XorLaws
<1>9. c = [lo |-> b[8], hi |-> b[9]] <=> c.lo = b[8] /\ c.hi = b[9]
  BY <1>1 DEF Register
<1> QED
  BY <1>2, <1>5, <1>6, <1>7, <1>8, <1>9

(* The difference after n bytes of two frames. *)
Apart(a, b, n) == Difference(After(a, n), After(b, n))

LEMMA ApartBytes ==
  ASSUME NEW a \in Frame, NEW b \in Frame
  PROVE  /\ Apart(a, b, 0) = Zero
         /\ \A n \in 0..9 : Apart(a, b, n) \in Register
         /\ \A n \in 1..9 : Apart(a, b, n) = CrcStep(Apart(a, b, n - 1), Xor(a[n], b[n]))
         /\ \A n \in 1..9 : Xor(a[n], b[n]) \in Byte
<1>1. Apart(a, b, 0) = Zero
  <2>1. Ones \in Register
    BY DEF Ones, Register, Byte
  <2> QED
    BY <2>1, ByteOfFrame, DifferenceInRegister DEF Apart
<1>2. \A n \in 0..9 : Apart(a, b, n) \in Register
  BY ByteOfFrame, DifferenceInRegister DEF Apart
<1>3. ASSUME NEW n \in 1..9
      PROVE  Apart(a, b, n) = CrcStep(Apart(a, b, n - 1), Xor(a[n], b[n]))
  <2>1. n - 1 \in 0..9
    OBVIOUS
  <2>2. /\ After(a, n - 1) \in Register /\ After(b, n - 1) \in Register
        /\ a[n] \in Byte /\ b[n] \in Byte
    BY <2>1, ByteOfFrame
  <2>3. After(a, n) = CrcStep(After(a, n - 1), a[n]) /\ After(b, n) = CrcStep(After(b, n - 1), b[n])
    BY ByteOfFrame
  <2> QED
    BY <2>2, <2>3, StepOfDifference DEF Apart
<1>4. \A n \in 1..9 : Xor(a[n], b[n]) \in Byte
  BY ByteOfFrame, XorLaws
<1> QED
  BY <1>1, <1>2, <1>3, <1>4

(* Frames that are equal but for two bytes, next to each other, or the     *)
(* first of them by one bit.                                               *)
Near(a, b, i, k) ==
  /\ k = i + 1 \/ Xor(a[i], b[i]) \in Masks
  /\ \A n \in (1..9) \ {i, k} : a[n] = b[n]

(* Such damage is noticed. *)
LEMMA DamageIsNoticed ==
  ASSUME NEW a \in Frame, NEW b \in Frame, NEW i \in 1..8, NEW k \in (i + 1)..9,
         Near(a, b, i, k), After(a, 9) = Zero, After(b, 9) = Zero
  PROVE  a = b
<1> DEFINE E(n) == Xor(a[n], b[n])
           D(n) == Apart(a, b, n)
<1>1. /\ D(0) = Zero
      /\ \A n \in 0..9 : D(n) \in Register
      /\ \A n \in 1..9 : D(n) = CrcStep(D(n - 1), E(n))
      /\ \A n \in 1..9 : E(n) \in Byte
  BY ApartBytes
<1>2. \A n \in 1..9 : E(n) = 0 <=> a[n] = b[n]
  BY ByteOfFrame, XorZero
<1>3. \A n \in (1..9) \ {i, k} : E(n) = 0
  BY <1>2 DEF Near
<1>4. k = i + 1 \/ E(i) \in Masks
  BY DEF Near
<1>5. D(9) = Zero
  BY ByteOfFrame, DifferenceInRegister DEF Apart
<1>6. i \in 1..8 /\ k \in 2..9 /\ i < k /\ i \in Nat /\ k \in Nat
  OBVIOUS
<1> HIDE DEF E, D
<1>7. Zero \in Register /\ Zero.lo = 0 /\ Zero.hi = 0 /\ CrcStep(Zero, 0) = Zero
  BY BitsOfZero, StepFromZero DEF Zero
<1>8. \A c \in Register : CrcStep(c, 0) = Zero => c = Zero
  BY BitsOfZero, StepToZero DEF Register, Zero
<1>9. D(k) = Zero
  <2> DEFINE S == {n \in 0..(9 - k) : D(9 - n) = Zero}
  <2>1. 0 \in S
    BY <1>5, <1>6
  <2>2. ASSUME NEW n \in 0..((9 - k) - 1), n \in S PROVE n + 1 \in S
    <3>1. 9 - n \in (1..9) \ {i, k} /\ (9 - n) - 1 \in 0..9 /\ n + 1 \in 0..(9 - k)
      BY <1>6
    <3>2. D(9 - n) = Zero
      BY <2>2
    <3>3. CrcStep(D((9 - n) - 1), 0) = Zero
      BY <1>1, <1>3, <3>1, <3>2
    <3>4. D((9 - n) - 1) = Zero
      BY <1>1, <1>8, <3>1, <3>3
    <3>5. 9 - (n + 1) = (9 - n) - 1
      BY <3>1
    <3> QED
      BY <3>1, <3>4, <3>5
  <2>3. 9 - k \in Nat
    BY <1>6
  <2>4. \A n \in 0..(9 - k) : n \in S
    <3> HIDE DEF S
    <3> QED
      BY <2>1, <2>2, <2>3, InductionTo
  <2>5. D(9 - (9 - k)) = Zero
    BY <2>3, <2>4
  <2>6. 9 - (9 - k) = k
    BY <1>6
  <2> QED
    BY <2>5, <2>6
<1>10. D(k - 1).lo = E(k) /\ D(k - 1).hi = 0
  <2>1. k - 1 \in 0..9 /\ k \in 1..9
    BY <1>6
  <2>2. CrcStep(D(k - 1), E(k)) = Zero
    BY <1>1, <1>9, <2>1
  <2> QED
    BY <1>1, <2>1, <2>2, StepToZero
<1>11. D(i - 1) = Zero
  <2> DEFINE S == {n \in 0..(i - 1) : D(n) = Zero}
  <2>1. 0 \in S
    BY <1>1, <1>6
  <2>2. ASSUME NEW n \in 0..((i - 1) - 1), n \in S PROVE n + 1 \in S
    <3>1. n + 1 \in (1..9) \ {i, k} /\ (n + 1) - 1 = n /\ n + 1 \in 0..(i - 1) /\ n \in 0..9
      BY <1>6
    <3>2. D(n) = Zero
      BY <2>2
    <3>3. D(n + 1) = CrcStep(D(n), 0)
      BY <1>1, <1>3, <3>1
    <3> QED
      BY <1>7, <3>1, <3>2, <3>3
  <2>3. i - 1 \in Nat
    BY <1>6
  <2>4. \A n \in 0..(i - 1) : n \in S
    <3> HIDE DEF S
    <3> QED
      BY <2>1, <2>2, <2>3, InductionTo
  <2> QED
    BY <2>3, <2>4
<1>12. D(i) = CrcStep(Zero, E(i)) /\ E(i) \in Byte /\ E(k) \in Byte
  <2>1. i \in 1..9 /\ k \in 1..9
    BY <1>6
  <2> QED
    BY <1>1, <1>11, <2>1
<1>13. k = i + 1
  <2> SUFFICES ASSUME k # i + 1 PROVE FALSE
    OBVIOUS
  <2> DEFINE d1 == CrcStep(Zero, E(i))
             d2 == CrcStep(d1, 0)
             d3 == CrcStep(d2, 0)
             d4 == CrcStep(d3, 0)
             d5 == CrcStep(d4, 0)
             d6 == CrcStep(d5, 0)
             d7 == CrcStep(d6, 0)
             d8 == CrcStep(d7, 0)
             d == <<d1, d2, d3, d4, d5, d6, d7, d8>>
  <2>1. /\ d[1] = CrcStep(Zero, E(i)) /\ d[2] = CrcStep(d[1], 0) /\ d[3] = CrcStep(d[2], 0)
        /\ d[4] = CrcStep(d[3], 0) /\ d[5] = CrcStep(d[4], 0) /\ d[6] = CrcStep(d[5], 0)
        /\ d[7] = CrcStep(d[6], 0) /\ d[8] = CrcStep(d[7], 0)
    <3> HIDE DEF d1, d2, d3, d4, d5, d6, d7, d8
    <3>1. /\ d[1] = d1 /\ d[2] = d2 /\ d[3] = d3 /\ d[4] = d4
          /\ d[5] = d5 /\ d[6] = d6 /\ d[7] = d7 /\ d[8] = d8
      OBVIOUS
    <3> HIDE DEF d
    <3> QED
      BY <3>1 DEF d1, d2, d3, d4, d5, d6, d7, d8
  <2> HIDE DEF d
  <2>2. \A n \in 1..7 : d[n + 1] = CrcStep(d[n], 0)
    BY <2>1
  <2>3. \A n \in 1..8 : d[n].hi # 0
    BY <1>4, <2>1, <2>2, FlippedBit
  <2> DEFINE S == {n \in 0..(k - i - 1) : D(i + n) = d[n + 1]}
  <2>4. k - i - 1 \in Nat /\ k - i - 1 \in 0..7 /\ i + (k - i - 1) = k - 1 /\ (k - i - 1) + 1 \in 1..8
    BY <1>6
  <2>5. 0 \in S
    BY <1>6, <1>12, <2>1, <2>4
  <2>6. ASSUME NEW n \in 0..((k - i - 1) - 1), n \in S PROVE n + 1 \in S
    <3>1. /\ i + (n + 1) \in (1..9) \ {i, k} /\ (i + (n + 1)) - 1 = i + n
          /\ n + 1 \in 0..(k - i - 1) /\ n + 1 \in 1..7
      BY <1>6, <2>4
    <3>2. D(i + n) = d[n + 1]
      BY <2>6
    <3>3. D(i + (n + 1)) = CrcStep(D(i + n), 0)
      BY <1>1, <1>3, <3>1
    <3>4. d[(n + 1) + 1] = CrcStep(d[n + 1], 0)
      BY <2>2, <3>1
    <3> QED
      BY <3>1, <3>2, <3>3, <3>4
  <2>7. \A n \in 0..(k - i - 1) : n \in S
    <3> HIDE DEF S
    <3> QED
      BY <2>4, <2>5, <2>6, InductionTo
  <2>8. D(i + (k - i - 1)) = d[(k - i - 1) + 1]
    BY <2>4, <2>7
  <2> QED
    BY <1>10, <2>3, <2>4, <2>8
<1>14. E(i) = 0
  <2>1. k - 1 = i
    BY <1>6, <1>13
  <2> QED
    BY <1>10, <1>12, <2>1, StepFromZero
<1>15. E(k) = 0
  <2>1. k - 1 = i
    BY <1>6, <1>13
  <2>2. D(i) = Zero
    BY <1>7, <1>12, <1>14
  <2> QED
    BY <1>7, <1>10, <2>1, <2>2
<1>16. \A n \in 1..9 : a[n] = b[n]
  BY <1>2, <1>3, <1>14, <1>15
<1> QED
  <2>1. a \in Seq(Byte) /\ b \in Seq(Byte) /\ Len(a) = 9 /\ Len(b) = 9
    BY ByteOfFrame
  <2> QED
    BY <1>16, <2>1, SeqEqual

-----------------------------------------------------------------------------
(***************************************************************************)
(* Floats in registers.                                                    *)
(***************************************************************************)

(* What set_float puts into two registers. *)
LEMMA SetFloat ==
  ASSUME NEW f
  PROVE  /\ set_float(f, "abcd") = <<Word(f.a, f.b), Word(f.c, f.d)>>
         /\ set_float(f, "dcba") = <<Word(f.d, f.c), Word(f.b, f.a)>>
         /\ set_float(f, "badc") = <<Word(f.b, f.a), Word(f.d, f.c)>>
         /\ set_float(f, "cdab") = <<Word(f.c, f.d), Word(f.a, f.b)>>
BY DEF set_float

(* What get_float takes out of two registers of the bytes w, x and y, z.   *)
LEMMA GetFloat ==
  ASSUME NEW w \in Byte, NEW x \in Byte, NEW y \in Byte, NEW z \in Byte,
         NEW r, r = <<Word(w, x), Word(y, z)>>
  PROVE  /\ get_float(r, "abcd") = [a |-> w, b |-> x, c |-> y, d |-> z]
         /\ get_float(r, "dcba") = [a |-> z, b |-> y, c |-> x, d |-> w]
         /\ get_float(r, "badc") = [a |-> x, b |-> w, c |-> z, d |-> y]
         /\ get_float(r, "cdab") = [a |-> y, b |-> z, c |-> w, d |-> x]
<1>1. r[1] = Word(w, x) /\ r[2] = Word(y, z)
  OBVIOUS
<1>2. High(Word(w, x)) = w /\ Low(Word(w, x)) = x
  BY DEF Byte, Word, High, Low
<1>3. High(Word(y, z)) = y /\ Low(Word(y, z)) = z
  BY DEF Byte, Word, High, Low
<1>4. High(r[1]) = w /\ Low(r[1]) = x /\ High(r[2]) = y /\ Low(r[2]) = z
  BY <1>1, <1>2, <1>3
<1>5. get_float(r, "abcd") = [a |-> w, b |-> x, c |-> y, d |-> z]
  BY <1>4 DEF get_float
<1>6. get_float(r, "dcba") = [a |-> z, b |-> y, c |-> x, d |-> w]
  BY <1>4 DEF get_float
<1>7. get_float(r, "badc") = [a |-> x, b |-> w, c |-> z, d |-> y]
  BY <1>4 DEF get_float
<1>8. get_float(r, "cdab") = [a |-> y, b |-> z, c |-> w, d |-> x]
  BY <1>4 DEF get_float
<1> QED
  BY <1>5, <1>6, <1>7, <1>8

(* modbus_get_float_abcd is the inverse of modbus_set_float_abcd, and so   *)
(* for the other orders.                                                   *)
THEOREM RoundTrip ==
  ASSUME NEW f \in Float, NEW o \in Orders
  PROVE  get_float(set_float(f, o), o) = f
<1>1. f.a \in Byte /\ f.b \in Byte /\ f.c \in Byte /\ f.d \in Byte
  BY DEF Float
<1>2. f = [a |-> f.a, b |-> f.b, c |-> f.c, d |-> f.d]
  BY DEF Float
<1>3. CASE o = "abcd"
  <2>1. set_float(f, o) = <<Word(f.a, f.b), Word(f.c, f.d)>>
    BY <1>3, SetFloat
  <2>2. get_float(set_float(f, o), o) = [a |-> f.a, b |-> f.b, c |-> f.c, d |-> f.d]
    BY <1>1, <1>3, <2>1, GetFloat
  <2> QED
    BY <1>2, <2>2
<1>4. CASE o = "dcba"
  <2>1. set_float(f, o) = <<Word(f.d, f.c), Word(f.b, f.a)>>
    BY <1>4, SetFloat
  <2>2. get_float(set_float(f, o), o) = [a |-> f.a, b |-> f.b, c |-> f.c, d |-> f.d]
    BY <1>1, <1>4, <2>1, GetFloat
  <2> QED
    BY <1>2, <2>2
<1>5. CASE o = "badc"
  <2>1. set_float(f, o) = <<Word(f.b, f.a), Word(f.d, f.c)>>
    BY <1>5, SetFloat
  <2>2. get_float(set_float(f, o), o) = [a |-> f.a, b |-> f.b, c |-> f.c, d |-> f.d]
    BY <1>1, <1>5, <2>1, GetFloat
  <2> QED
    BY <1>2, <2>2
<1>6. CASE o = "cdab"
  <2>1. set_float(f, o) = <<Word(f.c, f.d), Word(f.a, f.b)>>
    BY <1>6, SetFloat
  <2>2. get_float(set_float(f, o), o) = [a |-> f.a, b |-> f.b, c |-> f.c, d |-> f.d]
    BY <1>1, <1>6, <2>1, GetFloat
  <2> QED
    BY <1>2, <2>2
<1> QED
  BY <1>3, <1>4, <1>5, <1>6 DEF Orders

(* The registers are words of two bytes, in any order. *)
LEMMA WordsOfFloat ==
  ASSUME NEW f \in Float, NEW o \in Orders
  PROVE  \E g, h, i, j \in Byte : set_float(f, o) = <<Word(g, h), Word(i, j)>>
<1>1. f.a \in Byte /\ f.b \in Byte /\ f.c \in Byte /\ f.d \in Byte
  BY DEF Float
<1>2. CASE o = "abcd"
  BY <1>1, <1>2, SetFloat
<1>3. CASE o = "dcba"
  BY <1>1, <1>3, SetFloat
<1>4. CASE o = "badc"
  BY <1>1, <1>4, SetFloat
<1>5. CASE o = "cdab"
  BY <1>1, <1>5, SetFloat
<1> QED
  BY <1>2, <1>3, <1>4, <1>5 DEF Orders

(* The registers that the client finds in an answer that is not damaged.   *)
LEMMA Registers ==
  ASSUME NEW slave, NEW f \in Float, NEW o \in Orders
  PROVE  RegistersIn(send_msg_pre(Response(slave, set_float(f, o)))) = set_float(f, o)
<1> DEFINE r == set_float(f, o)
<1> DEFINE rsp == Response(slave, r)
<1>1. /\ rsp = <<slave, 3, 4, High(r[1]), Low(r[1]), High(r[2]), Low(r[2])>>
      /\ Len(rsp) = 7
  BY DEF Response
<1>2. PICK x, y : send_msg_pre(rsp) = rsp \o <<x, y>>
  BY DEF send_msg_pre
<1>3. \A i \in 1..7 : send_msg_pre(rsp)[i] = rsp[i]
  <2> HIDE DEF rsp
  <2> QED
    BY <1>1, <1>2
<1>4. RegistersIn(send_msg_pre(rsp)) = <<Word(High(r[1]), Low(r[1])), Word(High(r[2]), Low(r[2]))>>
  <2> HIDE DEF rsp, r
  <2> QED
    BY <1>1, <1>3 DEF RegistersIn
<1>5. PICK g \in Byte, h \in Byte, i \in Byte, j \in Byte : r = <<Word(g, h), Word(i, j)>>
  BY WordsOfFloat
<1>6. RegistersIn(send_msg_pre(rsp)) = r
  <2> HIDE DEF r, rsp
  <2>1. r[1] = Word(g, h) /\ r[2] = Word(i, j)
    BY <1>5
  <2>2. High(Word(g, h)) = g /\ Low(Word(g, h)) = h
    BY DEF Byte, Word, High, Low
  <2>3. High(Word(i, j)) = i /\ Low(Word(i, j)) = j
    BY DEF Byte, Word, High, Low
  <2> QED
    BY <1>4, <1>5, <2>1, <2>2, <2>3
<1> QED
  BY <1>6

(* The bytes that are sent, in the order of the name of the functions.     *)
LEMMA Spelling ==
  ASSUME NEW slave, NEW f \in Float, NEW o \in Orders,
         NEW msg, msg = send_msg_pre(Response(slave, set_float(f, o)))
  PROVE  <<msg[4], msg[5], msg[6], msg[7]>> = Spelled(f)[o]
<1> DEFINE r == set_float(f, o)
<1> DEFINE rsp == Response(slave, r)
<1>1. /\ rsp = <<slave, 3, 4, High(r[1]), Low(r[1]), High(r[2]), Low(r[2])>>
      /\ Len(rsp) = 7
  BY DEF Response
<1>2. PICK i, j : msg = rsp \o <<i, j>>
  BY DEF send_msg_pre
<1>3. msg[4] = High(r[1]) /\ msg[5] = Low(r[1]) /\ msg[6] = High(r[2]) /\ msg[7] = Low(r[2])
  <2> HIDE DEF rsp, r
  <2> QED
    BY <1>1, <1>2
<1>4. \A w, x \in Byte : High(Word(w, x)) = w /\ Low(Word(w, x)) = x
  BY DEF Byte, Word, High, Low
<1>5. f.a \in Byte /\ f.b \in Byte /\ f.c \in Byte /\ f.d \in Byte
  BY DEF Float
<1>6. \A w, x, y, z \in Byte :
        r = <<Word(w, x), Word(y, z)>> => <<msg[4], msg[5], msg[6], msg[7]>> = <<w, x, y, z>>
  <2> HIDE DEF r, rsp
  <2> SUFFICES ASSUME NEW w \in Byte, NEW x \in Byte, NEW y \in Byte, NEW z \in Byte,
                      r = <<Word(w, x), Word(y, z)>>
               PROVE  <<msg[4], msg[5], msg[6], msg[7]>> = <<w, x, y, z>>
    OBVIOUS
  <2>1. r[1] = Word(w, x) /\ r[2] = Word(y, z)
    OBVIOUS
  <2>2. High(Word(w, x)) = w /\ Low(Word(w, x)) = x /\ High(Word(y, z)) = y /\ Low(Word(y, z)) = z
    BY <1>4
  <2> QED
    BY <1>3, <2>1, <2>2
<1> HIDE DEF r, rsp
<1>7. CASE o = "abcd"
  <2>1. r = <<Word(f.a, f.b), Word(f.c, f.d)>>
    BY <1>7, SetFloat DEF r
  <2>2. <<msg[4], msg[5], msg[6], msg[7]>> = <<f.a, f.b, f.c, f.d>>
    BY <1>5, <1>6, <2>1
  <2> QED
    BY <1>7, <2>2 DEF Spelled
<1>8. CASE o = "dcba"
  <2>1. r = <<Word(f.d, f.c), Word(f.b, f.a)>>
    BY <1>8, SetFloat DEF r
  <2>2. <<msg[4], msg[5], msg[6], msg[7]>> = <<f.d, f.c, f.b, f.a>>
    BY <1>5, <1>6, <2>1
  <2> QED
    BY <1>8, <2>2 DEF Spelled
<1>9. CASE o = "badc"
  <2>1. r = <<Word(f.b, f.a), Word(f.d, f.c)>>
    BY <1>9, SetFloat DEF r
  <2>2. <<msg[4], msg[5], msg[6], msg[7]>> = <<f.b, f.a, f.d, f.c>>
    BY <1>5, <1>6, <2>1
  <2> QED
    BY <1>9, <2>2 DEF Spelled
<1>10. CASE o = "cdab"
  <2>1. r = <<Word(f.c, f.d), Word(f.a, f.b)>>
    BY <1>10, SetFloat DEF r
  <2>2. <<msg[4], msg[5], msg[6], msg[7]>> = <<f.c, f.d, f.a, f.b>>
    BY <1>5, <1>6, <2>1
  <2> QED
    BY <1>10, <2>2 DEF Spelled
<1> QED
  BY <1>7, <1>8, <1>9, <1>10 DEF Orders

(* What the client has got from a frame that is not damaged. *)
Arrived ==
  /\ order \in Orders /\ float \in Float
  /\ \E slave \in Slaves : sent = send_msg_pre(Response(slave, set_float(float, order)))
  /\ state = "accepted" /\ frame = sent => value = float

(* Arrived is an invariant. *)
LEMMA ArrivedAlways ==
  Spec => []Arrived
<1>1. Init => Arrived
  BY FrameAssumption DEF Init, Arrived
<1>2. Arrived /\ [Next]_vars => Arrived'
  <2> SUFFICES ASSUME Arrived, [Next]_vars PROVE Arrived'
    OBVIOUS
  <2>1. CASE FlipBit
    BY <2>1 DEF FlipBit, Arrived
  <2>2. CASE Burst
    BY <2>2 DEF Burst, Arrived
  <2>3. CASE Receive
    <3>1. CASE check_integrity(frame)
      <4>1. state' = "accepted" /\ value' = get_float(RegistersIn(frame), order)
            /\ UNCHANGED <<order, float, frame, sent, flips>>
        BY <2>3, <3>1 DEF Receive
      <4>2. frame = sent => value' = float
        <5> SUFFICES ASSUME frame = sent PROVE value' = float
          OBVIOUS
        <5>1. PICK slave \in Slaves : sent = send_msg_pre(Response(slave, set_float(float, order)))
          BY DEF Arrived
        <5>2. RegistersIn(sent) = set_float(float, order)
          BY <5>1, Registers DEF Arrived
        <5>3. get_float(set_float(float, order), order) = float
          BY RoundTrip DEF Arrived
        <5> QED
          BY <4>1, <5>2, <5>3
      <4> QED
        BY <4>1, <4>2 DEF Arrived
    <3>2. CASE ~check_integrity(frame)
      BY <2>3, <3>2 DEF Receive, Arrived
    <3> QED
      BY <3>1, <3>2
  <2>4. CASE UNCHANGED vars
    BY <2>4 DEF vars, Arrived
  <2> QED
    BY <2>1, <2>2, <2>3, <2>4 DEF Next
<1> QED
  BY <1>1, <1>2, PTL DEF Spec

-----------------------------------------------------------------------------
(***************************************************************************)
(* What noise can make of a frame.                                         *)
(***************************************************************************)

FlippedAt(a, b, i) ==
  /\ Xor(a[i], b[i]) \in Masks
  /\ \A n \in (1..9) \ {i} : a[n] = b[n]

TwoBytes(a, b) == \E i \in 1..8 : \E k \in (i + 1)..9 : Near(a, b, i, k)

Damage ==
  /\ sent \in Frame /\ frame \in Frame /\ check_integrity(sent)
  /\ flips \in 0..2
  /\ flips = 0 => frame = sent
  /\ flips = 1 => \E i \in 1..9 : FlippedAt(sent, frame, i)
  /\ TwoBytes(sent, frame)

LEMMA FirstOfSeq ==
  ASSUME NEW s \in Seq(Byte), NEW k \in 0..Len(s)
  PROVE  /\ SubSeq(s, 1, k) \in Seq(Byte) /\ Len(SubSeq(s, 1, k)) = k
         /\ \A n \in 1..k : SubSeq(s, 1, k)[n] = s[n]
<1> DEFINE N == Len(s)
<1>1. N \in Nat /\ \A n \in 1..N : s[n] \in Byte
  OBVIOUS
<1>2. k \in 0..N
  OBVIOUS
<1> HIDE DEF N
<1> QED
  BY <1>1, <1>2

LEMMA ConcatOfSeq ==
  ASSUME NEW s \in Seq(Byte), NEW t \in Seq(Byte)
  PROVE  /\ s \o t \in Seq(Byte) /\ Len(s \o t) = Len(s) + Len(t)
         /\ \A n \in 1..Len(s) : (s \o t)[n] = s[n]
         /\ \A n \in 1..Len(t) : (s \o t)[Len(s) + n] = t[n]
  OBVIOUS

Put(s, i, x) == [s EXCEPT ![i] = x]

LEMMA ChangeOfSeq ==
  ASSUME NEW s \in Seq(Byte), NEW i \in 1..Len(s), NEW x \in Byte
  PROVE  /\ Put(s, i, x) \in Seq(Byte) /\ Len(Put(s, i, x)) = Len(s)
         /\ Put(s, i, x)[i] = x
         /\ \A n \in (1..Len(s)) \ {i} : Put(s, i, x)[n] = s[n]
  BY ExceptSeq DEF Put

(* What _modbus_rtu_send_msg_pre appends is what                           *)
(* _modbus_rtu_check_integrity computes.                                   *)
LEMMA SentFrame ==
  ASSUME NEW slave \in Byte, NEW f \in Float, NEW o \in Orders
  PROVE  LET msg == send_msg_pre(Response(slave, set_float(f, o)))
         IN  msg \in Frame /\ check_integrity(msg)
<1> DEFINE r == set_float(f, o)
           req == Response(slave, r)
           c == crc16(req)
           msg == send_msg_pre(req)
<1>1. PICK g \in Byte, h \in Byte, i \in Byte, j \in Byte : r = <<Word(g, h), Word(i, j)>>
  BY WordsOfFloat
<1>2. /\ High(r[1]) \in Byte /\ Low(r[1]) \in Byte
      /\ High(r[2]) \in Byte /\ Low(r[2]) \in Byte
  <2>1. r[1] = Word(g, h) /\ r[2] = Word(i, j)
    <3> HIDE DEF r
    <3> QED
      BY <1>1
  <2>2. High(Word(g, h)) = g /\ Low(Word(g, h)) = h
    BY DEF Byte, Word, High, Low
  <2>3. High(Word(i, j)) = i /\ Low(Word(i, j)) = j
    BY DEF Byte, Word, High, Low
  <2> QED
    BY <2>1, <2>2, <2>3
<1>3. req \in Seq(Byte) /\ Len(req) = 7
  <2> HIDE DEF r
  <2>1. 3 \in Byte /\ 4 \in Byte
    BY DEF Byte
  <2> QED
    BY <1>2, <2>1 DEF Response
<1> HIDE DEF r, req
<1>4. c.lo \in Byte /\ c.hi \in Byte /\ c = [lo |-> c.lo, hi |-> c.hi]
  <2>1. After(req, Len(req)) = crc16(req)
    BY <1>3, AfterBytes
  <2>2. Len(req) \in 0..Len(req)
    BY <1>3
  <2>3. After(req, Len(req)) \in Register
    BY <1>3, <2>2, AfterBytes
  <2>4. c \in Register
    BY <2>1, <2>3
  <2> HIDE DEF c
  <2> QED
    BY <2>4 DEF Register
<1>5. msg = req \o <<c.lo, c.hi>>
  BY DEF send_msg_pre
<1> HIDE DEF c, msg
<1> DEFINE p == <<c.lo, c.hi>>
<1>6. p \in Seq(Byte) /\ Len(p) = 2 /\ p[1] = c.lo /\ p[2] = c.hi
  BY <1>4
<1> HIDE DEF p
<1>7. msg = req \o p
  BY <1>5 DEF p
<1> DEFINE m == req \o p
<1>12. /\ m \in Seq(Byte) /\ Len(m) = Len(req) + Len(p)
       /\ \A n \in 1..Len(req) : m[n] = req[n]
       /\ \A n \in 1..Len(p) : m[Len(req) + n] = p[n]
  BY <1>3, <1>6, ConcatOfSeq, Zenon
<1>13. msg = m
  BY <1>7
<1> HIDE DEF m
<1>8. msg \in Seq(Byte) /\ Len(msg) = 9
  BY <1>3, <1>6, <1>12, <1>13
<1>9. msg[8] = c.lo /\ msg[9] = c.hi /\ \A n \in 1..7 : msg[n] = req[n]
  <2>1. /\ \A n \in 1..7 : msg[n] = req[n]
        /\ \A n \in 1..2 : msg[7 + n] = p[n]
    BY <1>3, <1>6, <1>12, <1>13
  <2>2. msg[7 + 1] = p[1] /\ msg[7 + 2] = p[2]
    BY <2>1
  <2> QED
    BY <1>6, <2>1, <2>2
<1>11. SubSeq(msg, 1, 7) = req
  <2> DEFINE q == SubSeq(msg, 1, 7)
  <2>1. q \in Seq(Byte) /\ Len(q) = 7 /\ \A n \in 1..7 : q[n] = msg[n]
    <3>1. 7 \in 0..Len(msg)
      BY <1>8
    <3> QED
      BY <1>8, <3>1, FirstOfSeq
  <2> HIDE DEF q
  <2>2. \A n \in 1..7 : q[n] = req[n]
    BY <1>9, <2>1
  <2>3. q = req
    BY <1>3, <2>1, <2>2, SeqEqual
  <2> QED
    BY <2>3 DEF q
<1>10. check_integrity(msg)
  <2>1. Len(msg) - 2 = 7 /\ Len(msg) - 1 = 8 /\ Len(msg) = 9
    BY <1>8
  <2> QED
    BY <1>4, <1>9, <1>11, <2>1 DEF check_integrity, c
<1> QED
  BY <1>8, <1>10 DEF msg, req, r, Frame, FrameSize

LEMMA PowersAreMasks ==
  ASSUME NEW n \in 0..7
  PROVE  2^n \in Masks /\ 2^n \in Byte
<1>1. Masks \subseteq Byte
  BY DEF Masks, Byte
<1>2. n = 0 \/ n = 1 \/ n = 2 \/ n = 3 \/ n = 4 \/ n = 5 \/ n = 6 \/ n = 7
  OBVIOUS
<1>3. 2^n \in Masks
  <2>1. 2^0 = 1 /\ 2^1 = 2 /\ 2^2 = 4 /\ 2^3 = 8 /\ 2^4 = 16 /\ 2^5 = 32 /\ 2^6 = 64 /\ 2^7 = 128
    OBVIOUS
  <2>2. CASE n = 0
    BY <2>1, <2>2 DEF Masks
  <2>3. CASE n = 1
    BY <2>1, <2>3 DEF Masks
  <2>4. CASE n = 2
    BY <2>1, <2>4 DEF Masks
  <2>5. CASE n = 3
    BY <2>1, <2>5 DEF Masks
  <2>6. CASE n = 4
    BY <2>1, <2>6 DEF Masks
  <2>7. CASE n = 5
    BY <2>1, <2>7 DEF Masks
  <2>8. CASE n = 6
    BY <2>1, <2>8 DEF Masks
  <2>9. CASE n = 7
    BY <2>1, <2>9 DEF Masks
  <2> QED
    BY <1>2, <2>2, <2>3, <2>4, <2>5, <2>6, <2>7, <2>8, <2>9
<1> QED
  BY <1>1, <1>3

(* A frame with one byte changed. *)
Changed(b, i, e) == [b EXCEPT ![i] = Xor(b[i], e)]

LEMMA ChangedByte ==
  ASSUME NEW b \in Frame, NEW i \in 1..9, NEW e \in Byte
  PROVE  /\ Changed(b, i, e) \in Frame
         /\ Changed(b, i, e)[i] = Xor(b[i], e)
         /\ \A n \in (1..9) \ {i} : Changed(b, i, e)[n] = b[n]
<1>1. b \in Seq(Byte) /\ Len(b) = 9 /\ b[i] \in Byte
  BY ByteOfFrame
<1>2. Xor(b[i], e) \in Byte
  BY <1>1, XorLaws
<1> DEFINE x == Xor(b[i], e)
           c == Put(b, i, x)
<1>7. b \in Seq(Byte) /\ i \in 1..Len(b) /\ x \in Byte
  BY <1>1, <1>2
<1> HIDE DEF x
<1>3. /\ c \in Seq(Byte) /\ Len(c) = 9
      /\ c[i] = x /\ \A n \in (1..9) \ {i} : c[n] = b[n]
  <2>2. /\ c \in Seq(Byte) /\ Len(c) = Len(b) /\ c[i] = x
        /\ \A n \in (1..Len(b)) \ {i} : c[n] = b[n]
    BY <1>7, ChangeOfSeq
  <2> HIDE DEF c
  <2> QED
    BY <1>1, <2>2
<1>4. Changed(b, i, e) = c
  BY DEF Changed, Put, x
<1> HIDE DEF c
<1>5. c \in Frame
  BY <1>3 DEF Frame, FrameSize
<1>6. c[i] = x /\ \A n \in (1..9) \ {i} : c[n] = b[n]
  BY <1>3
<1> QED
  BY <1>4, <1>5, <1>6 DEF x

LEMMA XorUndone ==
  ASSUME NEW a \in Byte, NEW e \in Byte
  PROVE  Xor(a, Xor(a, e)) = e
<1>1. Xor(a, Xor(a, e)) = Xor(Xor(a, a), e)
  BY XorLaws
<1> QED
  BY <1>1, XorLaws

(* One flipped bit damages one byte, two damage two at most.               *)
LEMMA FlipOnce ==
  ASSUME NEW a \in Frame, NEW b \in Frame, NEW i \in 1..9, FlippedAt(a, b, i)
  PROVE  TwoBytes(a, b)
<1>1. CASE i = 9
  <2>1. Near(a, b, 8, 9)
    BY <1>1 DEF FlippedAt, Near
  <2> QED
    BY <2>1 DEF TwoBytes
<1>2. CASE i # 9
  <2>1. i \in 1..8 /\ i + 1 \in (i + 1)..9
    BY <1>2
  <2>2. Near(a, b, i, i + 1)
    BY DEF FlippedAt, Near
  <2> QED
    BY <2>1, <2>2 DEF TwoBytes
<1> QED
  BY <1>1, <1>2

LEMMA FlipTwice ==
  ASSUME NEW a \in Frame, NEW b \in Frame, NEW c \in Frame, NEW i \in 1..9, FlippedAt(a, b, i),
         NEW j \in 1..9, NEW e \in Masks, c[j] = Xor(b[j], e),
         \A n \in (1..9) \ {j} : c[n] = b[n]
  PROVE  TwoBytes(a, c)
<1>1. \A n \in (1..9) \ {i, j} : a[n] = c[n]
  BY DEF FlippedAt
<1>2. CASE i = j
  <2>1. CASE i = 9
    <3>1. Near(a, c, 8, 9)
      BY <1>1, <1>2, <2>1 DEF Near
    <3> QED
      BY <3>1 DEF TwoBytes
  <2>2. CASE i # 9
    <3>1. i \in 1..8 /\ i + 1 \in (i + 1)..9
      BY <2>2
    <3>2. Near(a, c, i, i + 1)
      BY <1>1, <1>2 DEF Near
    <3> QED
      BY <3>1, <3>2 DEF TwoBytes
  <2> QED
    BY <2>1, <2>2
<1>3. CASE i < j
  <2>1. i \in 1..8 /\ j \in (i + 1)..9 /\ i \in (1..9) \ {j}
    BY <1>3
  <2>2. Xor(a[i], c[i]) \in Masks
    BY <2>1 DEF FlippedAt
  <2>3. Near(a, c, i, j)
    BY <1>1, <2>2 DEF Near
  <2> QED
    BY <2>1, <2>3 DEF TwoBytes
<1>4. CASE j < i
  <2>1. j \in 1..8 /\ i \in (j + 1)..9 /\ j \in (1..9) \ {i}
    BY <1>4
  <2>2. a[j] \in Byte /\ e \in Byte
    <3>1. j \in 1..9
      OBVIOUS
    <3>2. Masks \subseteq Byte
      BY DEF Masks, Byte
    <3> QED
      BY <3>1, <3>2, ByteOfFrame
  <2>3. a[j] = b[j]
    BY <2>1 DEF FlippedAt
  <2>4. Xor(a[j], c[j]) \in Masks
    BY <2>2, <2>3, XorUndone
  <2>5. Near(a, c, j, i)
    BY <1>1, <2>4 DEF Near
  <2> QED
    BY <2>1, <2>5 DEF TwoBytes
<1> QED
  BY <1>2, <1>3, <1>4

(* The receiver accepts what was sent, and nothing that noise has made.    *)
LEMMA Accepts ==
  ASSUME Damage
  PROVE  check_integrity(frame) <=> frame = sent
<1>1. After(sent, 9) = Zero
  BY IntegrityIsZero DEF Damage
<1>2. ASSUME check_integrity(frame) PROVE frame = sent
  <2>1. After(frame, 9) = Zero
    BY <1>2, IntegrityIsZero DEF Damage
  <2>2. PICK i \in 1..8 : \E k \in (i + 1)..9 : Near(sent, frame, i, k)
    BY DEF Damage, TwoBytes
  <2>3. PICK k \in (i + 1)..9 : Near(sent, frame, i, k)
    BY <2>2
  <2> QED
    BY <1>1, <2>1, <2>3, DamageIsNoticed DEF Damage
<1> QED
  BY <1>2 DEF Damage

(* The inductive invariant of RefusesDamage. *)
Inv == Damage /\ RefusesDamage

LEMMA DamageAtFirst ==
  Init => Inv
<1> SUFFICES ASSUME Init PROVE Inv
  OBVIOUS
<1>1. PICK slave \in Slaves : sent = send_msg_pre(Response(slave, set_float(float, order)))
  BY DEF Init
<1>2. slave \in Byte /\ float \in Float /\ order \in Orders
  BY FrameAssumption DEF Init
<1>3. sent \in Frame /\ check_integrity(sent)
  BY <1>1, <1>2, SentFrame
<1>4. frame = sent /\ flips = 0
  BY DEF Init
<1>5. TwoBytes(sent, sent)
  <2>1. Near(sent, sent, 1, 2)
    BY DEF Near
  <2> QED
    BY <2>1 DEF TwoBytes
<1>6. Damage
  BY <1>3, <1>4, <1>5 DEF Damage
<1>7. RefusesDamage
  BY DEF Init, RefusesDamage
<1> QED
  BY <1>6, <1>7 DEF Inv

LEMMA DamageByFlip ==
  Inv /\ FlipBit => Inv'
<1> SUFFICES ASSUME Inv, FlipBit PROVE Inv'
  OBVIOUS
<1>1. sent \in Frame /\ frame \in Frame /\ check_integrity(sent)
  BY DEF Inv, Damage
<1>2. /\ flips \in {0, 1} /\ flips' = flips + 1 /\ sent' = sent
      /\ DOMAIN frame = 1..9
  <2>1. flips \in 0..2
    BY DEF Inv, Damage
  <2>2. flips < 2 /\ flips' = flips + 1 /\ sent' = sent
    BY DEF FlipBit
  <2>3. frame \in Seq(Byte) /\ Len(frame) = 9
    BY <1>1, ByteOfFrame
  <2>4. DOMAIN frame = 1..9
    BY <2>3
  <2> QED
    BY <2>1, <2>2, <2>4
<1>. RefusesDamage'
  <2>1. state' = state /\ state = "on the line"
    BY DEF FlipBit
  <2> QED
    BY <2>1, Zenon DEF RefusesDamage
<1>3. PICK j \in 1..9, n \in 0..7 : frame' = [frame EXCEPT ![j] = Xor(@, 2^n)]
  BY <1>2 DEF FlipBit
<1> DEFINE e == 2^n
<1>4. e \in Masks /\ e \in Byte
  BY PowersAreMasks
<1>5. frame' = Changed(frame, j, e)
  BY <1>3 DEF Changed
<1> HIDE DEF e
<1>8. frame' \in Frame /\ frame'[j] = Xor(frame[j], e) /\ \A k \in (1..9) \ {j} : frame'[k] = frame[k]
  BY <1>1, <1>4, <1>5, ChangedByte
<1>6. CASE flips = 0
  <2>1. frame = sent
    BY <1>6 DEF Inv, Damage
  <2>2. sent[j] \in Byte
    BY <1>1, ByteOfFrame
  <2>3. FlippedAt(sent, frame', j)
    BY <1>4, <1>8, <2>1, <2>2, XorUndone DEF FlippedAt
  <2>4. TwoBytes(sent, frame')
    BY <1>1, <1>8, <2>3, FlipOnce
  <2> QED
    BY <1>1, <1>2, <1>6, <1>8, <2>3, <2>4 DEF Inv, Damage
<1>7. CASE flips = 1
  <2>1. PICK i \in 1..9 : FlippedAt(sent, frame, i)
    BY <1>7 DEF Inv, Damage
  <2>2. /\ sent \in Frame /\ frame \in Frame /\ frame' \in Frame /\ j \in 1..9 /\ e \in Masks
        /\ frame'[j] = Xor(frame[j], e) /\ \A k \in (1..9) \ {j} : frame'[k] = frame[k]
    BY <1>1, <1>4, <1>8
  <2>3. TwoBytes(sent, frame')
    BY <2>1, <2>2, FlipTwice, Zenon
  <2> QED
    BY <1>1, <1>2, <1>7, <1>8, <2>3 DEF Inv, Damage
<1> QED
  BY <1>2, <1>6, <1>7

LEMMA DamageByBurst ==
  Inv /\ Burst => Inv'
<1> SUFFICES ASSUME Inv, Burst PROVE Inv'
  OBVIOUS
<1>1. sent \in Frame /\ frame \in Frame /\ check_integrity(sent) /\ frame = sent
  BY DEF Burst, Inv, Damage
<1>2. Len(frame) - 1 = 8
  <2>1. Len(frame) = 9
    BY <1>1, ByteOfFrame
  <2> QED
    BY <2>1
<1>. RefusesDamage'
  <2>1. state' = state /\ state = "on the line"
    BY DEF Burst
  <2> QED
    BY <2>1, Zenon DEF RefusesDamage
<1>3. PICK i \in 1..8, e \in Byte, f \in Byte :
        frame' = [frame EXCEPT ![i] = Xor(@, e), ![i + 1] = Xor(@, f)]
  BY <1>2, FrameAssumption DEF Burst
<1> DEFINE b == Changed(frame, i, e)
<1>4. i \in 1..9 /\ i + 1 \in 1..9 /\ i + 1 \in (i + 1)..9 /\ i # i + 1
  OBVIOUS
<1>5. b \in Frame /\ \A k \in (1..9) \ {i} : b[k] = frame[k]
  BY <1>1, <1>4, ChangedByte
<1>6. frame' = Changed(b, i + 1, f)
  <2>1. frame' = [b EXCEPT ![i + 1] = Xor(frame[i + 1], f)]
    BY <1>3, <1>4 DEF Changed
  <2>2. b[i + 1] = frame[i + 1]
    BY <1>4, <1>5
  <2> HIDE DEF b
  <2> QED
    BY <2>1, <2>2 DEF Changed
<1> HIDE DEF b
<1>7. frame' \in Frame /\ \A k \in (1..9) \ {i + 1} : frame'[k] = b[k]
  BY <1>4, <1>5, <1>6, ChangedByte
<1>8. Near(sent, frame', i, i + 1)
  BY <1>1, <1>5, <1>7 DEF Near
<1>9. TwoBytes(sent, frame')
  BY <1>4, <1>8 DEF TwoBytes
<1>10. flips' = 2 /\ sent' = sent
  BY DEF Burst
<1>11. Damage'
  BY <1>1, <1>7, <1>9, <1>10 DEF Damage
<1> QED
  BY <1>11 DEF Inv

LEMMA DamageAlways ==
  Spec => []Inv
<1>1. Inv /\ [Next]_vars => Inv'
  <2> SUFFICES ASSUME Inv, [Next]_vars PROVE Inv'
    OBVIOUS
  <2>1. CASE FlipBit
    BY <2>1, DamageByFlip
  <2>2. CASE Burst
    BY <2>2, DamageByBurst
  <2>3. CASE Receive
    <3>1. UNCHANGED <<sent, frame, flips>>
      BY <2>3 DEF Receive
    <3>2. state' = "accepted" <=> check_integrity(frame)
      BY <2>3 DEF Receive
    <3>3. check_integrity(frame) <=> frame = sent
      BY Accepts DEF Inv
    <3> QED
      BY <3>1, <3>2, <3>3 DEF Inv, Damage, RefusesDamage
  <2>4. CASE UNCHANGED vars
    BY <2>4 DEF vars, Inv, Damage, RefusesDamage
  <2> QED
    BY <2>1, <2>2, <2>3, <2>4 DEF Next
<1> QED
  BY <1>1, DamageAtFirst, PTL DEF Spec

(* A frame that one or two flipped bits, or a burst in two bytes next to   *)
(* each other, have damaged anywhere is refused, and any other one is      *)
(* accepted (crc16, _modbus_rtu_check_integrity).                          *)
THEOREM DamageIsRefused ==
  Spec => []RefusesDamage
<1>1. Inv => RefusesDamage
  BY DEF Inv
<1> QED
  BY <1>1, DamageAlways, PTL

(* From any slave and in any of the four orders, a float is sent as the    *)
(* order spells it, and one that arrives is the one that was set           *)
(* (modbus_set_float_abcd, _modbus_rtu_check_integrity).                   *)
THEOREM ArrivesUndamaged ==
  Spec => []FloatArrives
<1>1. Arrived /\ RefusesDamage => FloatArrives
  <2> SUFFICES ASSUME Arrived, RefusesDamage PROVE FloatArrives
    OBVIOUS
  <2>1. <<sent[4], sent[5], sent[6], sent[7]>> = Spelled(float)[order]
    BY Spelling DEF Arrived
  <2>2. state = "accepted" => value = float
    BY DEF Arrived, RefusesDamage
  <2> QED
    BY <2>1, <2>2 DEF FloatArrives
<1> QED
  BY <1>1, ArrivedAlways, DamageIsRefused, PTL

-----------------------------------------------------------------------------
(***************************************************************************)
(* The checksum of the specification.                                      *)
(***************************************************************************)

(* The bytes g, k are h, l after Shift. *)
Shifted(h, l, g, k) ==
  /\ g \in Byte /\ k \in Byte
  /\ Bit(g, 0) = Bit(h, 1) /\ Bit(g, 1) = Bit(h, 2) /\ Bit(g, 2) = Bit(h, 3)
  /\ Bit(g, 3) = Bit(h, 4) /\ Bit(g, 4) = Bit(h, 5) /\ Bit(g, 5) = Plus(Bit(h, 6), Bit(l, 0))
  /\ Bit(g, 6) = Bit(h, 7) /\ Bit(g, 7) = Bit(l, 0)
  /\ Bit(k, 0) = Plus(Bit(l, 1), Bit(l, 0)) /\ Bit(k, 1) = Bit(l, 2) /\ Bit(k, 2) = Bit(l, 3)
  /\ Bit(k, 3) = Bit(l, 4) /\ Bit(k, 4) = Bit(l, 5) /\ Bit(k, 5) = Bit(l, 6)
  /\ Bit(k, 6) = Bit(l, 7) /\ Bit(k, 7) = Bit(h, 0)

LEMMA WordBytes ==
  ASSUME NEW h \in Byte, NEW l \in Byte
  PROVE  High(Word(h, l)) = h /\ Low(Word(h, l)) = l
BY DEF Byte, Word, High, Low

(* A word without its lowest bit. *)
LEMMA HalfOfWord ==
  ASSUME NEW h \in Byte, NEW l \in Byte
  PROVE  \E g, k \in Byte :
           /\ Word(h, l) \div 2 = Word(g, k) /\ Word(h, l) % 2 = Bit(l, 0)
           /\ HasBits(g, Bit(h, 1), Bit(h, 2), Bit(h, 3), Bit(h, 4),
                          Bit(h, 5), Bit(h, 6), Bit(h, 7), 0)
           /\ HasBits(k, Bit(l, 1), Bit(l, 2), Bit(l, 3), Bit(l, 4),
                          Bit(l, 5), Bit(l, 6), Bit(l, 7), Bit(h, 0))
<1> DEFINE p == Bit(h, 0)  q == Bit(h, 1)  r == Bit(h, 2)  s == Bit(h, 3)
           t == Bit(h, 4)  u == Bit(h, 5)  v == Bit(h, 6)  w == Bit(h, 7)
           a == Bit(l, 0)  b == Bit(l, 1)  c == Bit(l, 2)  d == Bit(l, 3)
           e == Bit(l, 4)  f == Bit(l, 5)  i == Bit(l, 6)  j == Bit(l, 7)
           g == Octet(q, r, s, t, u, v, w, 0)
           k == Octet(b, c, d, e, f, i, j, p)
<1>1. /\ p \in B /\ q \in B /\ r \in B /\ s \in B /\ t \in B /\ u \in B /\ v \in B /\ w \in B
      /\ a \in B /\ b \in B /\ c \in B /\ d \in B /\ e \in B /\ f \in B /\ i \in B /\ j \in B
      /\ h = Octet(p, q, r, s, t, u, v, w) /\ l = Octet(a, b, c, d, e, f, i, j)
      /\ 0 \in B
  BY OctetOfBits DEF B
<1> HIDE DEF p, q, r, s, t, u, v, w, a, b, c, d, e, f, i, j
<1>2. HasBits(g, q, r, s, t, u, v, w, 0) /\ HasBits(k, b, c, d, e, f, i, j, p)
  BY <1>1, BitsOfOctet
<1>3. g \in Byte /\ k \in Byte
  BY <1>2 DEF HasBits
<1>4. h = p + 2 * g /\ l + 256 * p = a + 2 * k
  BY <1>1 DEF Octet, B
<1>5. Word(h, l) \div 2 = Word(g, k) /\ Word(h, l) % 2 = a
  <2> HIDE DEF g, k
  <2>1. Word(h, l) = 2 * Word(g, k) + a /\ Word(g, k) \in Nat
    BY <1>1, <1>3, <1>4 DEF Byte, B, Word
  <2> HIDE DEF Word
  <2> QED
    BY <1>1, <2>1 DEF B
<1> HIDE DEF g, k
<1> QED
  BY <1>2, <1>3, <1>5 DEF p, q, r, s, t, u, v, w, a, b, c, d, e, f, i, j

(* The polynomial. *)
LEMMA BitsOfPolynomial ==
  HasBits(160, 0, 0, 0, 0, 0, 1, 0, 1) /\ HasBits(1, 1, 0, 0, 0, 0, 0, 0, 0)
<1>1. /\ 160 = Octet(0, 0, 0, 0, 0, 1, 0, 1) /\ 1 = Octet(1, 0, 0, 0, 0, 0, 0, 0)
      /\ 0 \in B /\ 1 \in B
  BY DEF Octet, B
<1>2. HasBits(Octet(0, 0, 0, 0, 0, 1, 0, 1), 0, 0, 0, 0, 0, 1, 0, 1)
  BY <1>1, BitsOfOctet
<1>3. HasBits(Octet(1, 0, 0, 0, 0, 0, 0, 0), 1, 0, 0, 0, 0, 0, 0, 0)
  BY <1>1, BitsOfOctet
<1> QED
  BY <1>1, <1>2, <1>3

LEMMA ShiftBits ==
  ASSUME NEW h \in Byte, NEW l \in Byte
  PROVE  \E g, k \in Byte : Shift(Word(h, l)) = Word(g, k) /\ Shifted(h, l, g, k)
<1>1. PICK g \in Byte, k \in Byte :
        /\ Word(h, l) \div 2 = Word(g, k) /\ Word(h, l) % 2 = Bit(l, 0)
        /\ HasBits(g, Bit(h, 1), Bit(h, 2), Bit(h, 3), Bit(h, 4),
                       Bit(h, 5), Bit(h, 6), Bit(h, 7), 0)
        /\ HasBits(k, Bit(l, 1), Bit(l, 2), Bit(l, 3), Bit(l, 4),
                       Bit(l, 5), Bit(l, 6), Bit(l, 7), Bit(h, 0))
  BY HalfOfWord
<1>2. /\ Bit(g, 0) = Bit(h, 1) /\ Bit(g, 1) = Bit(h, 2) /\ Bit(g, 2) = Bit(h, 3)
      /\ Bit(g, 3) = Bit(h, 4) /\ Bit(g, 4) = Bit(h, 5) /\ Bit(g, 5) = Bit(h, 6)
      /\ Bit(g, 6) = Bit(h, 7) /\ Bit(g, 7) = 0
  BY <1>1 DEF HasBits
<1>3. /\ Bit(k, 0) = Bit(l, 1) /\ Bit(k, 1) = Bit(l, 2) /\ Bit(k, 2) = Bit(l, 3)
      /\ Bit(k, 3) = Bit(l, 4) /\ Bit(k, 4) = Bit(l, 5) /\ Bit(k, 5) = Bit(l, 6)
      /\ Bit(k, 6) = Bit(l, 7) /\ Bit(k, 7) = Bit(h, 0)
  BY <1>1 DEF HasBits
<1>4. /\ Bit(l, 0) \in B /\ Bit(l, 1) \in B /\ Bit(l, 2) \in B /\ Bit(l, 3) \in B
      /\ Bit(l, 4) \in B /\ Bit(l, 5) \in B /\ Bit(l, 6) \in B /\ Bit(l, 7) \in B
      /\ Bit(h, 0) \in B /\ Bit(h, 1) \in B /\ Bit(h, 2) \in B /\ Bit(h, 3) \in B
      /\ Bit(h, 4) \in B /\ Bit(h, 5) \in B /\ Bit(h, 6) \in B /\ Bit(h, 7) \in B
  BY OctetOfBits
<1>5. CASE Bit(l, 0) = 0
  <2>1. Shift(Word(h, l)) = Word(g, k)
    BY <1>1, <1>5 DEF Shift
  <2>2. Shifted(h, l, g, k)
    BY <1>2, <1>3, <1>4, <1>5, PlusLaws DEF Shifted
  <2> QED
    BY <2>1, <2>2
<1>6. CASE Bit(l, 0) = 1
  <2>1. High(Word(g, k)) = g /\ Low(Word(g, k)) = k
    BY WordBytes
  <2>2. Shift(Word(h, l)) = Word(Xor(g, 160), Xor(k, 1))
    BY <1>1, <1>6, <2>1 DEF Shift
  <2>3. /\ 160 \in Byte /\ 1 \in Byte
        /\ Bit(160, 0) = 0 /\ Bit(160, 1) = 0 /\ Bit(160, 2) = 0 /\ Bit(160, 3) = 0
        /\ Bit(160, 4) = 0 /\ Bit(160, 5) = 1 /\ Bit(160, 6) = 0 /\ Bit(160, 7) = 1
        /\ Bit(1, 0) = 1 /\ Bit(1, 1) = 0 /\ Bit(1, 2) = 0 /\ Bit(1, 3) = 0
        /\ Bit(1, 4) = 0 /\ Bit(1, 5) = 0 /\ Bit(1, 6) = 0 /\ Bit(1, 7) = 0
    BY BitsOfPolynomial DEF HasBits
  <2> DEFINE x == Xor(g, 160)
             y == Xor(k, 1)
  <2>4. /\ x \in Byte
        /\ Bit(x, 0) = Plus(Bit(g, 0), 0) /\ Bit(x, 1) = Plus(Bit(g, 1), 0)
        /\ Bit(x, 2) = Plus(Bit(g, 2), 0) /\ Bit(x, 3) = Plus(Bit(g, 3), 0)
        /\ Bit(x, 4) = Plus(Bit(g, 4), 0) /\ Bit(x, 5) = Plus(Bit(g, 5), 1)
        /\ Bit(x, 6) = Plus(Bit(g, 6), 0) /\ Bit(x, 7) = Plus(Bit(g, 7), 1)
    BY <2>3, XorBits
  <2>5. /\ y \in Byte
        /\ Bit(y, 0) = Plus(Bit(k, 0), 1) /\ Bit(y, 1) = Plus(Bit(k, 1), 0)
        /\ Bit(y, 2) = Plus(Bit(k, 2), 0) /\ Bit(y, 3) = Plus(Bit(k, 3), 0)
        /\ Bit(y, 4) = Plus(Bit(k, 4), 0) /\ Bit(y, 5) = Plus(Bit(k, 5), 0)
        /\ Bit(y, 6) = Plus(Bit(k, 6), 0) /\ Bit(y, 7) = Plus(Bit(k, 7), 0)
    BY <2>3, XorBits
  <2> HIDE DEF x, y
  <2>6. 0 \in B /\ 1 \in B
    BY DEF B
  <2>7. Shifted(h, l, x, y)
    BY <1>2, <1>3, <1>4, <1>6, <2>4, <2>5, <2>6, PlusLaws DEF Shifted
  <2> QED
    BY <2>2, <2>4, <2>5, <2>7 DEF x, y
<1> QED
  BY <1>4, <1>5, <1>6 DEF B

LEMMA PlusSkip ==
  ASSUME NEW z \in B, NEW p \in B, NEW q \in B
  PROVE  Plus(z, Plus(q, Plus(p, z))) = Plus(p, q)
BY DEF B, Plus

LEMMA PlusTwice ==
  ASSUME NEW p \in B, NEW z \in B
  PROVE  Plus(p, Plus(p, z)) = z
BY DEF B, Plus

(* Eight times Shift is one look into both tables.                         *)
LEMMA EightShifts ==
  ASSUME NEW h \in Byte, NEW l \in Byte, NEW r, r[0] = Word(h, l),
         \A n \in 1..8 : r[n] = Shift(r[n - 1])
  PROVE  r[8] = Word(Lo(l), Xor(h, Hi(l)))
<1>1. /\ r[1] = Shift(r[0]) /\ r[2] = Shift(r[1]) /\ r[3] = Shift(r[2]) /\ r[4] = Shift(r[3])
      /\ r[5] = Shift(r[4]) /\ r[6] = Shift(r[5]) /\ r[7] = Shift(r[6]) /\ r[8] = Shift(r[7])
  <2>1. /\ 1 \in 1..8 /\ 2 \in 1..8 /\ 3 \in 1..8 /\ 4 \in 1..8
        /\ 5 \in 1..8 /\ 6 \in 1..8 /\ 7 \in 1..8 /\ 8 \in 1..8
    OBVIOUS
  <2>2. /\ 1 - 1 = 0 /\ 2 - 1 = 1 /\ 3 - 1 = 2 /\ 4 - 1 = 3
        /\ 5 - 1 = 4 /\ 6 - 1 = 5 /\ 7 - 1 = 6 /\ 8 - 1 = 7
    OBVIOUS
  <2> QED
    BY <2>1, <2>2
<1>2. PICK h1 \in Byte, l1 \in Byte : r[1] = Word(h1, l1) /\ Shifted(h, l, h1, l1)
  BY <1>1, ShiftBits
<1>3. PICK h2 \in Byte, l2 \in Byte : r[2] = Word(h2, l2) /\ Shifted(h1, l1, h2, l2)
  BY <1>2, <1>1, ShiftBits
<1>4. PICK h3 \in Byte, l3 \in Byte : r[3] = Word(h3, l3) /\ Shifted(h2, l2, h3, l3)
  BY <1>3, <1>1, ShiftBits
<1>5. PICK h4 \in Byte, l4 \in Byte : r[4] = Word(h4, l4) /\ Shifted(h3, l3, h4, l4)
  BY <1>4, <1>1, ShiftBits
<1>6. PICK h5 \in Byte, l5 \in Byte : r[5] = Word(h5, l5) /\ Shifted(h4, l4, h5, l5)
  BY <1>5, <1>1, ShiftBits
<1>7. PICK h6 \in Byte, l6 \in Byte : r[6] = Word(h6, l6) /\ Shifted(h5, l5, h6, l6)
  BY <1>6, <1>1, ShiftBits
<1>8. PICK h7 \in Byte, l7 \in Byte : r[7] = Word(h7, l7) /\ Shifted(h6, l6, h7, l7)
  BY <1>7, <1>1, ShiftBits
<1>9. PICK h8 \in Byte, l8 \in Byte : r[8] = Word(h8, l8) /\ Shifted(h7, l7, h8, l8)
  BY <1>8, <1>1, ShiftBits
<1> DEFINE z1 == Bit(l, 0)
           z2 == Plus(Bit(l, 1), z1)
           z3 == Plus(Bit(l, 2), z2)
           z4 == Plus(Bit(l, 3), z3)
           z5 == Plus(Bit(l, 4), z4)
           z6 == Plus(Bit(l, 5), z5)
           z7 == Plus(Bit(l, 6), z6)
           z8 == Plus(Bit(l, 7), z7)
<1>10. /\ Bit(l, 0) \in B /\ Bit(l, 1) \in B /\ Bit(l, 2) \in B /\ Bit(l, 3) \in B
       /\ Bit(l, 4) \in B /\ Bit(l, 5) \in B /\ Bit(l, 6) \in B /\ Bit(l, 7) \in B
  BY OctetOfBits
<1>11. /\ Bit(h, 0) \in B /\ Bit(h, 1) \in B /\ Bit(h, 2) \in B /\ Bit(h, 3) \in B
       /\ Bit(h, 4) \in B /\ Bit(h, 5) \in B /\ Bit(h, 6) \in B /\ Bit(h, 7) \in B
  BY OctetOfBits
<1>12. z8 = Parity(l)
  <2> DEFINE p == Bit(l, 0)  q == Bit(l, 1)  s == Bit(l, 2)  t == Bit(l, 3)
             u == Bit(l, 4)  v == Bit(l, 5)  w == Bit(l, 6)  x == Bit(l, 7)
  <2>1. z8 = Plus(x, Plus(w, Plus(v, Plus(u, Plus(t, Plus(s, Plus(q, p)))))))
    OBVIOUS
  <2>2. Parity(l) = PlusAll(p, q, s, t, u, v, w, x)
    BY DEF Parity
  <2>3. /\ p \in B /\ q \in B /\ s \in B /\ t \in B
        /\ u \in B /\ v \in B /\ w \in B /\ x \in B
    BY <1>10
  <2> HIDE DEF z8, p, q, s, t, u, v, w, x
  <2>4. Plus(x, Plus(w, Plus(v, Plus(u, Plus(t, Plus(s, Plus(q, p)))))))
          = PlusAll(p, q, s, t, u, v, w, x)
    BY <2>3, SMTT(60) DEF B, Plus, PlusAll
  <2> QED
    BY <2>1, <2>2, <2>4
<1>15. /\ z1 = Bit(l, 0) /\ z2 = Plus(Bit(l, 1), z1) /\ z3 = Plus(Bit(l, 2), z2)
       /\ z4 = Plus(Bit(l, 3), z3) /\ z5 = Plus(Bit(l, 4), z4) /\ z6 = Plus(Bit(l, 5), z5)
       /\ z7 = Plus(Bit(l, 6), z6) /\ z8 = Plus(Bit(l, 7), z7)
  OBVIOUS
<1> HIDE DEF z1, z2, z3, z4, z5, z6, z7, z8
<1>13. z1 \in B /\ z2 \in B /\ z3 \in B /\ z4 \in B
  <2>1. z1 \in B
    BY <1>10, <1>15
  <2>2. z2 \in B
    BY <1>10, <1>15, <2>1, PlusLaws
  <2>3. z3 \in B
    BY <1>10, <1>15, <2>2, PlusLaws
  <2> QED
    BY <1>10, <1>15, <2>1, <2>2, <2>3, PlusLaws
<1>14. z5 \in B /\ z6 \in B /\ z7 \in B /\ z8 \in B
  <2>1. z5 \in B
    BY <1>10, <1>13, <1>15, PlusLaws
  <2>2. z6 \in B
    BY <1>10, <1>15, <2>1, PlusLaws
  <2>3. z7 \in B
    BY <1>10, <1>15, <2>2, PlusLaws
  <2> QED
    BY <1>10, <1>15, <2>1, <2>2, <2>3, PlusLaws
<1>16. /\ Bit(h8, 0) = Plus(z1, z3) /\ Bit(h8, 1) = Plus(z2, z4) /\ Bit(h8, 2) = Plus(z3, z5)
       /\ Bit(h8, 3) = Plus(z4, z6) /\ Bit(h8, 4) = Plus(z5, z7) /\ Bit(h8, 5) = Plus(z6, z8)
       /\ Bit(h8, 6) = z7 /\ Bit(h8, 7) = z8
       /\ Bit(l8, 0) = Plus(Bit(h, 0), z8) /\ Bit(l8, 1) = Bit(h, 1) /\ Bit(l8, 2) = Bit(h, 2)
       /\ Bit(l8, 3) = Bit(h, 3) /\ Bit(l8, 4) = Bit(h, 4) /\ Bit(l8, 5) = Bit(h, 5)
       /\ Bit(l8, 6) = Plus(Bit(h, 6), z1) /\ Bit(l8, 7) = Plus(Bit(h, 7), z2)
  BY <1>2, <1>3, <1>4, <1>5, <1>6, <1>7, <1>8, <1>9, <1>15 DEF Shifted
<1>17. h8 = Lo(l)
  <2>1. /\ Plus(z1, z3) = Plus(Bit(l, 1), Bit(l, 2)) /\ Plus(z2, z4) = Plus(Bit(l, 2), Bit(l, 3))
        /\ Plus(z3, z5) = Plus(Bit(l, 3), Bit(l, 4)) /\ Plus(z4, z6) = Plus(Bit(l, 4), Bit(l, 5))
        /\ Plus(z5, z7) = Plus(Bit(l, 5), Bit(l, 6)) /\ Plus(z6, z8) = Plus(Bit(l, 6), Bit(l, 7))
    BY <1>10, <1>13, <1>14, <1>15, PlusSkip
  <2>2. z7 = Plus(Bit(l, 7), z8)
    BY <1>10, <1>14, <1>15, PlusTwice
  <2>3. Lo(l) \in Byte
    BY EntriesByBits
  <2>4. /\ Bit(h8, 0) = Bit(Lo(l), 0) /\ Bit(h8, 1) = Bit(Lo(l), 1)
        /\ Bit(h8, 2) = Bit(Lo(l), 2) /\ Bit(h8, 3) = Bit(Lo(l), 3)
        /\ Bit(h8, 4) = Bit(Lo(l), 4) /\ Bit(h8, 5) = Bit(Lo(l), 5)
        /\ Bit(h8, 6) = Bit(Lo(l), 6) /\ Bit(h8, 7) = Bit(Lo(l), 7)
    BY <1>12, <1>16, <2>1, <2>2, EntriesByBits
  <2> QED
    BY <2>3, <2>4, ByteExt
<1>18. l8 = Xor(h, Hi(l))
  <2>1. Hi(l) \in Byte /\ Xor(h, Hi(l)) \in Byte
    BY EntriesByBits, XorBits
  <2>2. z2 = Plus(Bit(l, 0), Bit(l, 1))
    BY <1>10, <1>15, PlusLaws
  <2>3. /\ Bit(Hi(l), 0) = z8 /\ Bit(Hi(l), 1) = 0 /\ Bit(Hi(l), 2) = 0 /\ Bit(Hi(l), 3) = 0
        /\ Bit(Hi(l), 4) = 0 /\ Bit(Hi(l), 5) = 0 /\ Bit(Hi(l), 6) = z1 /\ Bit(Hi(l), 7) = z2
    BY <1>12, <1>15, <2>2, EntriesByBits
  <2> DEFINE x == Xor(h, Hi(l))
  <2>4. /\ Bit(x, 0) = Plus(Bit(h, 0), z8) /\ Bit(x, 1) = Plus(Bit(h, 1), 0)
        /\ Bit(x, 2) = Plus(Bit(h, 2), 0) /\ Bit(x, 3) = Plus(Bit(h, 3), 0)
        /\ Bit(x, 4) = Plus(Bit(h, 4), 0) /\ Bit(x, 5) = Plus(Bit(h, 5), 0)
        /\ Bit(x, 6) = Plus(Bit(h, 6), z1) /\ Bit(x, 7) = Plus(Bit(h, 7), z2)
    BY <2>1, <2>3, XorBits
  <2> HIDE DEF x
  <2>5. /\ Bit(l8, 0) = Bit(x, 0) /\ Bit(l8, 1) = Bit(x, 1)
        /\ Bit(l8, 2) = Bit(x, 2) /\ Bit(l8, 3) = Bit(x, 3)
        /\ Bit(l8, 4) = Bit(x, 4) /\ Bit(l8, 5) = Bit(x, 5)
        /\ Bit(l8, 6) = Bit(x, 6) /\ Bit(l8, 7) = Bit(x, 7)
    BY <1>11, <1>16, <2>4, PlusLaws
  <2> QED
    BY <2>1, <2>5, ByteExt DEF x
<1> QED
  BY <1>9, <1>17, <1>18

(* What Remainder does in one step. *)
Words == {Word(h, l) : h, l \in Byte}

Division(b, n, r) ==
  IF n % 8 = 1 THEN Shift(Word(High(r), Xor(Low(r), b[(n \div 8) + 1]))) ELSE Shift(r)

LEMMA DivisionInWords ==
  ASSUME NEW b \in Seq(Byte), NEW n \in 1..(8 * Len(b)), NEW r \in Words
  PROVE  Division(b, n, r) \in Words
<1>1. PICK h \in Byte, l \in Byte : r = Word(h, l)
  BY DEF Words
<1>2. ASSUME NEW g \in Byte, NEW k \in Byte PROVE Shift(Word(g, k)) \in Words
  <2>1. PICK x \in Byte, y \in Byte : Shift(Word(g, k)) = Word(x, y)
    BY ShiftBits
  <2> QED
    BY <2>1 DEF Words
<1>3. CASE n % 8 = 1
  <2>1. (n \div 8) + 1 \in 1..Len(b)
    <3> DEFINE N == Len(b)
    <3>1. N \in Nat /\ n \in 1..(8 * N)
      OBVIOUS
    <3> HIDE DEF N
    <3>2. (n \div 8) + 1 \in 1..N
      BY <1>3, <3>1
    <3> QED
      BY <3>2 DEF N
  <2>2. b[(n \div 8) + 1] \in Byte
    BY <2>1, ElementOfSeq
  <2>3. High(r) \in Byte /\ Xor(Low(r), b[(n \div 8) + 1]) \in Byte
    BY <1>1, <2>2, WordBytes, XorLaws
  <2> QED
    BY <1>2, <1>3, <2>3 DEF Division
<1>4. CASE n % 8 # 1
  BY <1>1, <1>2, <1>4 DEF Division
<1> QED
  BY <1>3, <1>4

LEMMA RemainderRun ==
  ASSUME NEW b \in Seq(Byte)
  PROVE  \E f : /\ Remainder(b) = f[8 * Len(b)] /\ f[0] = Word(255, 255)
                /\ \A n \in 1..(8 * Len(b)) : f[n] = Division(b, n, f[n - 1])
<1> DEFINE N == 8 * Len(b)
           d == 65535
           f == CHOOSE f : f = [n \in 0..N |-> IF n = 0 THEN d ELSE Division(b, n, f[n - 1])]
           G == [n \in 1..N |-> [r \in Words |-> Division(b, n, r)]]
<1>1. N \in Nat
  OBVIOUS
<1>2. d = Word(255, 255)
  BY DEF Word
<1>8. d \in Words
  <2>1. 255 \in Byte
    BY DEF Byte
  <2> HIDE DEF d
  <2> QED
    BY <1>2, <2>1 DEF Words
<1>3. \A n \in 1..N, r \in Words : G[n][r] = Division(b, n, r) /\ G[n][r] \in Words
  BY DivisionInWords
<1>4. Remainder(b) = f[N]
  BY DEF Remainder, Division
<1> HIDE DEF d
<1>5. f = [n \in 0..N |-> IF n = 0 THEN d ELSE Division(b, n, f[n - 1])]
  <2>1. PICK g : g = [n \in 0..N |-> IF n = 0 THEN d ELSE G[n][g[n - 1]]]
    <3> HIDE DEF G, N
    <3>1. \E g : Recurs(g, N, d, G)
      BY <1>1, <1>3, <1>8, RecursionTo
    <3> QED
      BY <3>1 DEF Recurs
  <2> HIDE DEF N
  <2> DEFINE S == {n \in 0..N : g[n] \in Words}
  <2>2. 0 \in S
    BY <1>1, <1>8, <2>1
  <2>3. ASSUME NEW n \in 0..(N - 1), n \in S PROVE n + 1 \in S
    <3>1. n + 1 \in 1..N /\ n + 1 # 0 /\ (n + 1) - 1 = n /\ n + 1 \in 0..N
      BY <1>1
    <3>2. g[n + 1] = G[n + 1][g[n]]
      BY <2>1, <3>1
    <3>3. g[n] \in Words
      BY <2>3
    <3> HIDE DEF G
    <3> QED
      BY <1>3, <3>1, <3>2, <3>3
  <2>4. \A n \in 0..N : g[n] \in Words
    <3>1. \A n \in 0..N : n \in S
      <4> HIDE DEF S
      <4> QED
        BY <1>1, <2>2, <2>3, InductionTo
    <3> QED
      BY <3>1
  <2>5. ASSUME NEW n \in 1..N PROVE G[n][g[n - 1]] = Division(b, n, g[n - 1])
    <3>1. n - 1 \in 0..N
      BY <1>1
    <3> HIDE DEF G
    <3> QED
      BY <1>3, <2>4, <3>1
  <2>6. g = [n \in 0..N |-> IF n = 0 THEN d ELSE Division(b, n, g[n - 1])]
    <3>1. ASSUME NEW n \in 0..N
          PROVE  g[n] = IF n = 0 THEN d ELSE Division(b, n, g[n - 1])
      <4> HIDE DEF G
      <4>1. CASE n = 0
        BY <2>1, <4>1
      <4>2. CASE n # 0
        <5>1. n \in 1..N
          BY <1>1, <4>2
        <5>2. g[n] = G[n][g[n - 1]]
          BY <2>1, <4>2
        <5> QED
          BY <2>5, <4>2, <5>1, <5>2
      <4> QED
        BY <4>1, <4>2
    <3> QED
      BY <2>1, <3>1
  <2> QED
    BY <2>6
<1> HIDE DEF f
<1>6. f[0] = d
  BY <1>1, <1>5
<1>7. ASSUME NEW n \in 1..N PROVE f[n] = Division(b, n, f[n - 1])
  <2> HIDE DEF N
  <2>1. n \in 0..N /\ n # 0
    BY <1>1
  <2> QED
    BY <1>5, <2>1
<1> QED
  BY <1>2, <1>4, <1>6, <1>7

(* crc16 computes, for any buffer, what the specification of Modbus        *)
(* defines: one look into the tables is the division of one byte.          *)
THEOREM Crc16IsRemainder ==
  ASSUME NEW b \in Seq(Byte)
  PROVE  Word(crc16(b).hi, crc16(b).lo) = Remainder(b)
<1> DEFINE N == Len(b)
           W(n) == Word(After(b, n).hi, After(b, n).lo)
<1>1. /\ After(b, 0) = Ones /\ After(b, N) = crc16(b)
      /\ \A n \in 0..N : After(b, n) \in Register
      /\ \A n \in 1..N : After(b, n) = CrcStep(After(b, n - 1), b[n])
      /\ \A n \in 1..N : b[n] \in Byte
  BY AfterBytes, ElementOfSeq
<1>2. PICK f : /\ Remainder(b) = f[8 * N] /\ f[0] = Word(255, 255)
               /\ \A n \in 1..(8 * N) : f[n] = Division(b, n, f[n - 1])
  BY RemainderRun
<1>3. N \in Nat
  OBVIOUS
<1> HIDE DEF N
<1> DEFINE S == {n \in 0..N : f[8 * n] = W(n)}
<1>4. 0 \in S
  <2>1. W(0) = Word(255, 255)
    BY <1>1 DEF Ones
  <2> HIDE DEF W
  <2> QED
    BY <1>2, <1>3, <2>1
<1>5. ASSUME NEW n \in 0..(N - 1), n \in S PROVE n + 1 \in S
  <2>1. n \in 0..N /\ n + 1 \in 0..N /\ n + 1 \in 1..N /\ (n + 1) - 1 = n /\ n \in Nat
    BY <1>3
  <2> DEFINE h == After(b, n).hi
             l == After(b, n).lo
             i == Xor(l, b[n + 1])
             r == [k \in 0..8 |-> IF k = 0 THEN Word(h, i) ELSE f[8 * n + k]]
  <2>2. h \in Byte /\ l \in Byte /\ b[n + 1] \in Byte
    BY <1>1, <2>1 DEF Register
  <2>3. i \in Byte
    BY <2>2, XorLaws
  <2>4. f[8 * n] = Word(h, l)
    BY <1>5
  <2>5. /\ After(b, n + 1).hi = Lo(i)
        /\ After(b, n + 1).lo = Xor(h, Hi(i))
    <3>1. After(b, n + 1) = CrcStep(After(b, n), b[n + 1]) /\ After(b, n) \in Register
      BY <1>1, <2>1
    <3> DEFINE c == After(b, n)
               e == b[n + 1]
    <3>2. c \in Register /\ e \in Byte
      BY <2>2, <3>1
    <3> HIDE DEF c, e
    <3>3. CrcStep(c, e).hi = Lo(Xor(c.lo, e)) /\ CrcStep(c, e).lo = Xor(c.hi, Hi(Xor(c.lo, e)))
      BY <3>2, StepInRegister
    <3> QED
      BY <3>1, <3>3 DEF c, e
  <2> HIDE DEF h, l
  <2>6. r[0] = Word(h, i) /\ \A k \in 1..8 : r[k] = f[8 * n + k]
    <3> HIDE DEF i
    <3> QED
      OBVIOUS
  <2>7. r[1] = Shift(r[0])
    <3>1. /\ 8 * n + 1 \in 1..(8 * N) /\ (8 * n + 1) % 8 = 1 /\ ((8 * n + 1) \div 8) + 1 = n + 1
          /\ (8 * n + 1) - 1 = 8 * n
      BY <1>3, <2>1
    <3>2. f[8 * n + 1] = Division(b, 8 * n + 1, f[8 * n])
      BY <1>2, <3>1
    <3>3. High(Word(h, l)) = h /\ Low(Word(h, l)) = l
      BY <2>2, WordBytes
    <3>4. Division(b, 8 * n + 1, f[8 * n]) = Shift(Word(h, i))
      BY <2>4, <3>1, <3>3, Zenon DEF Division, i
    <3> HIDE DEF r, i
    <3> QED
      BY <2>6, <3>2, <3>4
  <2> HIDE DEF r, i
  <2>8. ASSUME NEW k \in 2..8 PROVE r[k] = Shift(r[k - 1])
    <3>1. /\ 8 * n + k \in 1..(8 * N) /\ (8 * n + k) % 8 # 1
          /\ (8 * n + k) - 1 = 8 * n + (k - 1) /\ k - 1 \in 1..8 /\ k \in 1..8
      BY <1>3, <2>1
    <3>2. f[8 * n + k] = Division(b, 8 * n + k, f[8 * n + (k - 1)])
      BY <1>2, <3>1
    <3>3. Division(b, 8 * n + k, f[8 * n + (k - 1)]) = Shift(f[8 * n + (k - 1)])
      BY <3>1, Zenon DEF Division
    <3> QED
      BY <2>6, <3>1, <3>2, <3>3
  <2>9. \A k \in 1..8 : r[k] = Shift(r[k - 1])
    <3>1. 1 - 1 = 0 /\ \A k \in 1..8 : k = 1 \/ k \in 2..8
      OBVIOUS
    <3> QED
      BY <2>7, <2>8, <3>1
  <2>10. r[8] = Word(Lo(i), Xor(h, Hi(i)))
    BY <2>2, <2>3, <2>6, <2>9, EightShifts
  <2>11. f[8 * (n + 1)] = r[8]
    <3>1. 8 * (n + 1) = 8 * n + 8 /\ 8 \in 1..8
      BY <2>1
    <3> QED
      BY <2>6, <3>1
  <2> QED
    BY <2>1, <2>5, <2>10, <2>11
<1>6. N \in S
  <2>1. \A n \in 0..N : n \in S
    <3> HIDE DEF S
    <3> QED
      BY <1>3, <1>4, <1>5, InductionTo
  <2> QED
    BY <1>3, <2>1
<1>7. f[8 * N] = W(N)
  BY <1>6
<1> QED
  BY <1>1, <1>2, <1>7, Zenon

(* The tables of crc16 compute the checksum of the Modbus specification,   *)
(* for whatever noise has put on the line.                                 *)
THEOREM ChecksumAlways ==
  Spec => []ChecksumIsModbus
<1>1. Inv => ChecksumIsModbus
  <2> SUFFICES ASSUME Inv PROVE ChecksumIsModbus
    OBVIOUS
  <2>1. frame \in Frame
    BY DEF Inv, Damage
  <2>2. frame \in Seq(Byte)
    BY <2>1, ByteOfFrame
  <2> QED
    BY <2>2, Crc16IsRemainder DEF ChecksumIsModbus
<1> QED
  BY <1>1, DamageAlways, PTL
=============================================================================
