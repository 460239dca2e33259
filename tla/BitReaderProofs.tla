---------------------------- MODULE BitReaderProofs --------------------------
(***************************************************************************)
(* The bit reader of module BitReader reads what stands in the data:       *)
(* bs_read the number that the next bits stand for, and bs_read_ue the     *)
(* value of the Exp-Golomb code there, if the code is whole and an int can *)
(* hold its value.  Positions count the bits of the data, so that neither  *)
(* the byte nor the place in it at which a code begins makes a difference. *)
(***************************************************************************)
EXTENDS Readers, Induction, SequenceTheorems

\* The numbers that a run of bits stands for, bit by bit.
LEMMA NumberBits ==
  ASSUME NEW s, NEW i \in Nat, NEW N \in Nat,
         \A k \in 1..N : Bit(s, i + k - 1) \in {0, 1}
  PROVE  \E u \in [0..N -> Nat] :
           /\ \A n \in 0..N : Number(s, i, n) = u[n]
           /\ u[0] = 0
           /\ \A k \in 1..N : u[k] = 2 * u[k - 1] + Bit(s, i + k - 1)
<1> DEFINE b(k) == Bit(s, i + k - 1)
           D == [k \in 1..N |-> [x \in Nat |-> 2 * x + b(k)]]
<1> HIDE DEF b
<1>1. \A k \in 1..N : b(k) \in {0, 1}
  BY DEF b
<1>2. D \in [1..N -> [Nat -> Nat]]
  <2>1. \A k \in 1..N, x \in Nat : 2 * x + b(k) \in Nat
    BY <1>1
  <2> QED BY <2>1
<1>3. \A k \in 1..N, x \in Nat : D[k][x] = 2 * x + b(k)
  OBVIOUS
<1> HIDE DEF D
<1>4. PICK u : Primitive(u, N, Nat, 0, D)
  BY <1>2, PrimitiveRecursion
<1>5. /\ u \in [0..N -> Nat] /\ u[0] = 0
      /\ \A k \in 1..N : u[k] = 2 * u[k - 1] + b(k)
  <2>1. \A k \in 1..N : k - 1 \in 0..N
    OBVIOUS
  <2> QED BY <1>3, <1>4, <2>1 DEF Primitive
<1>6. ASSUME NEW n \in 0..N PROVE Number(s, i, n) = u[n]
  <2> DEFINE Is(f) == f = [k \in 0..n |-> IF k = 0 THEN 0 ELSE 2 * f[k - 1] + b(k)]
             g == CHOOSE f : Is(f)
             v == [k \in 0..n |-> u[k]]
  <2>1. Is(v)
    <3>1. ASSUME NEW k \in 0..n PROVE u[k] = IF k = 0 THEN 0 ELSE 2 * v[k - 1] + b(k)
      <4>1. CASE k = 0
        BY <1>5, <4>1
      <4>2. CASE k # 0
        <5>1. k \in 1..N /\ k - 1 \in 0..n
          BY <4>2
        <5> QED BY <1>5, <4>2, <5>1
      <4> QED BY <4>1, <4>2
    <3> QED BY <3>1
  <2>2. Is(g)
    BY <2>1, Zenon
  <2> HIDE DEF g, v
  <2>3. \A k \in 0..n : g[k] = IF k = 0 THEN 0 ELSE 2 * g[k - 1] + b(k)
    BY <2>2, Zenon
  <2> DEFINE T == {k \in 0..n : g[k] = u[k]}
  <2>4. 0 \in T
    BY <1>5, <2>3
  <2>5. ASSUME NEW k \in 1..n, k - 1 \in T PROVE k \in T
    <3>1. k \in 1..N /\ k \in 0..n /\ k # 0
      OBVIOUS
    <3> QED BY <1>5, <2>3, <2>5, <3>1
  <2> HIDE DEF T
  <2>6. n \in Nat /\ n \in 0..n
    OBVIOUS
  <2>7. n \in T
    BY <2>4, <2>5, <2>6, InductUpTo
  <2>8. Number(s, i, n) = g[n]
    BY DEF Number, g, b
  <2> QED BY <2>7, <2>8 DEF T
<1> QED BY <1>5, <1>6 DEF b

\* A byte is a number below 256.
LEMMA ByteNat ==
  ASSUME NEW b \in Byte
  PROVE  b \in Nat /\ b <= 255
BY DEF Byte

\* The bits of a byte.
LEMMA BitsOfByte ==
  ASSUME NEW s \in Seq(Byte), NEW o \in Nat, o < Len(s)
  PROVE  /\ s[o + 1] \in Nat /\ s[o + 1] <= 255
         /\ Bit(s, 8 * o)     = (s[o + 1] \div 128) % 2
         /\ Bit(s, 8 * o + 1) = (s[o + 1] \div 64) % 2
         /\ Bit(s, 8 * o + 2) = (s[o + 1] \div 32) % 2
         /\ Bit(s, 8 * o + 3) = (s[o + 1] \div 16) % 2
         /\ Bit(s, 8 * o + 4) = (s[o + 1] \div 8) % 2
         /\ Bit(s, 8 * o + 5) = (s[o + 1] \div 4) % 2
         /\ Bit(s, 8 * o + 6) = (s[o + 1] \div 2) % 2
         /\ Bit(s, 8 * o + 7) = s[o + 1] % 2
<1>1. s[o + 1] \in Nat /\ s[o + 1] <= 255
  <2>1. o + 1 \in 1..Len(s)
    OBVIOUS
  <2>2. s[o + 1] \in Byte
    BY <2>1, ElementOfSeq
  <2> QED BY <2>2, ByteNat
<1>2. ASSUME NEW j \in Nat, j <= 7 PROVE (8 * o + j) \div 8 = o /\ (8 * o + j) % 8 = j
  BY <1>2
<1>3. \A j \in 0..7 : Bit(s, 8 * o + j) = (s[o + 1] \div 2^(7 - j)) % 2
  <2>1. ASSUME NEW j \in 0..7 PROVE (8 * o + j) \div 8 = o /\ (8 * o + j) % 8 = j
    <3>1. j \in Nat /\ j <= 7
      OBVIOUS
    <3> QED BY <1>2, <3>1
  <2> QED BY <2>1 DEF Bit
<1>4. /\ 2^(7 - 0) = 128 /\ 2^(7 - 1) = 64 /\ 2^(7 - 2) = 32 /\ 2^(7 - 3) = 16
      /\ 2^(7 - 4) = 8 /\ 2^(7 - 5) = 4 /\ 2^(7 - 6) = 2 /\ 2^(7 - 7) = 1
  OBVIOUS
<1>5. 8 * o + 0 = 8 * o
  OBVIOUS
<1>6. s[o + 1] \div 1 = s[o + 1]
  <2>1. \A x \in Nat : x \div 1 = x
    OBVIOUS
  <2> QED BY <1>1, <2>1
<1>7. /\ Bit(s, 8 * o + 0) = (s[o + 1] \div 2^(7 - 0)) % 2
      /\ Bit(s, 8 * o + 1) = (s[o + 1] \div 2^(7 - 1)) % 2
      /\ Bit(s, 8 * o + 2) = (s[o + 1] \div 2^(7 - 2)) % 2
      /\ Bit(s, 8 * o + 3) = (s[o + 1] \div 2^(7 - 3)) % 2
      /\ Bit(s, 8 * o + 4) = (s[o + 1] \div 2^(7 - 4)) % 2
      /\ Bit(s, 8 * o + 5) = (s[o + 1] \div 2^(7 - 5)) % 2
      /\ Bit(s, 8 * o + 6) = (s[o + 1] \div 2^(7 - 6)) % 2
      /\ Bit(s, 8 * o + 7) = (s[o + 1] \div 2^(7 - 7)) % 2
  BY <1>3
<1> QED BY <1>1, <1>4, <1>5, <1>6, <1>7

\* Each of these bits is 0 or 1.
LEMMA BitsAreBits ==
  ASSUME NEW x \in Nat, x <= 255
  PROVE  /\ (x \div 128) % 2 \in {0, 1} /\ (x \div 64) % 2 \in {0, 1}
         /\ (x \div 32) % 2 \in {0, 1}  /\ (x \div 16) % 2 \in {0, 1}
         /\ (x \div 8) % 2 \in {0, 1}   /\ (x \div 4) % 2 \in {0, 1}
         /\ (x \div 2) % 2 \in {0, 1}   /\ x % 2 \in {0, 1}
OBVIOUS

-----------------------------------------------------------------------------
\* The powers of two up to 2^30, which an int holds.
LEMMA Powers ==
  /\ 2^0 = 1
  /\ \A n \in 0..30 : 2^n \in Nat /\ 2^n > 0
  /\ \A n \in 1..30 : 2^n = 2 * 2^(n - 1)
<1>1. 2^0 = 1
  BY SMT
<1> QED
  OBVIOUS

\* They multiply.
LEMMA PowersAdd ==
  ASSUME NEW a \in Nat, NEW b \in Nat, a + b <= 30
  PROVE  2^(a + b) = 2^a * 2^b
<1> DEFINE S == {n \in 0..b : 2^(a + n) = 2^a * 2^n}
<1>1. 0 \in S
  <2>1. 2^a \in Nat /\ a + 0 = a /\ 2^0 = 1
    <3>1. a \in 0..30 /\ a + 0 = a
      OBVIOUS
    <3>2. 2^0 = 1
      BY Powers, Zenon
    <3> QED
      BY <3>1, <3>2, Powers
  <2>2. 2^a * 1 = 2^a
    BY <2>1
  <2> QED
    BY <2>1, <2>2
<1>2. ASSUME NEW n \in 1..b, n - 1 \in S PROVE n \in S
  <2> DEFINE x == 2^a
             y == 2^(n - 1)
  <2>1. a \in 0..30 /\ n - 1 \in 0..30 /\ n \in 1..30 /\ a + n \in 1..30
        /\ (a + n) - 1 = a + (n - 1)
    OBVIOUS
  <2>2. x \in Nat /\ y \in Nat /\ 2^n = 2 * y /\ 2^(a + n) = 2 * 2^(a + (n - 1))
    BY <2>1, Powers
  <2>3. 2^(a + (n - 1)) = x * y
    BY <1>2
  <2> HIDE DEF x, y
  <2>4. 2 * (x * y) = x * (2 * y)
    BY <2>2
  <2>5. 2^(a + n) = x * 2^n
    BY <2>2, <2>3, <2>4
  <2> QED
    BY <2>5 DEF x
<1> HIDE DEF S
<1>3. b \in S
  <2>1. b \in 0..b
    OBVIOUS
  <2> QED
    BY <1>1, <1>2, <2>1, InductUpTo
<1> QED
  BY <1>3 DEF S

\* A bit of the data is 0 or 1.
LEMMA BitType ==
  ASSUME NEW s \in Seq(Byte), NEW i \in Nat, i < 8 * Len(s)
  PROVE  Bit(s, i) \in {0, 1}
<1> DEFINE o == i \div 8
           d == 2^(7 - (i % 8))
           x == s[o + 1]
<1>1. o + 1 \in 1..Len(s) /\ 7 - (i % 8) \in 0..30
  <2>1. Len(s) \in Nat
    OBVIOUS
  <2> QED
    BY <2>1
<1>2. x \in Nat
  <2>1. x \in Byte
    BY <1>1, ElementOfSeq
  <2> QED
    BY <2>1, ByteNat
<1>3. d \in Nat /\ d > 0
  BY <1>1, Powers
<1> HIDE DEF d, x
<1>4. (x \div d) \in Nat
  BY <1>2, <1>3
<1>5. (x \div d) % 2 \in {0, 1}
  BY <1>4
<1> QED
  BY <1>5 DEF Bit, d, x, o

\* A number takes in one bit after the other.
LEMMA NumberStep ==
  ASSUME NEW s \in Seq(Byte), NEW i \in Nat, NEW n \in Nat, i + n <= 8 * Len(s)
  PROVE  /\ Number(s, i, n) \in Nat
         /\ Number(s, i, 0) = 0
         /\ n > 0 => Number(s, i, n) = 2 * Number(s, i, n - 1) + Bit(s, i + n - 1)
<1>1. \A k \in 1..n : Bit(s, i + k - 1) \in {0, 1}
  <2>1. \A k \in 1..n : i + k - 1 \in Nat /\ i + k - 1 < 8 * Len(s)
    <3>1. Len(s) \in Nat
      OBVIOUS
    <3> QED
      BY <3>1
  <2> QED
    BY <2>1, BitType
<1>2. PICK u \in [0..n -> Nat] :
        /\ \A k \in 0..n : Number(s, i, k) = u[k]
        /\ u[0] = 0
        /\ \A k \in 1..n : u[k] = 2 * u[k - 1] + Bit(s, i + k - 1)
  BY <1>1, NumberBits
<1>3. n \in 0..n /\ 0 \in 0..n /\ (n > 0 => n \in 1..n /\ n - 1 \in 0..n)
  OBVIOUS
<1> QED
  BY <1>2, <1>3

\* The number of a run of bits, from those of its two parts.
LEMMA NumberJoin ==
  ASSUME NEW s \in Seq(Byte), NEW i \in Nat, NEW m \in Nat, NEW n \in 0..30,
         i + m + n <= 8 * Len(s)
  PROVE  Number(s, i, m + n) = Number(s, i, m) * 2^n + Number(s, i + m, n)
<1> DEFINE x == Number(s, i, m)
           S == {k \in 0..n : Number(s, i, m + k) = x * 2^k + Number(s, i + m, k)}
<1>1. x \in Nat /\ Len(s) \in Nat
  <2>1. Len(s) \in Nat
    OBVIOUS
  <2>2. i + m <= 8 * Len(s)
    BY <2>1
  <2> QED
    BY <2>1, <2>2, NumberStep
<1> HIDE DEF x
<1>2. 0 \in S
  <2>1. Number(s, i + m, 0) = 0 /\ i + m \in Nat /\ m + 0 = m /\ 2^0 = 1
    <3>1. i + m \in Nat /\ i + m + n <= 8 * Len(s)
      BY <1>1
    <3>2. 2^0 = 1
      BY Powers, Zenon
    <3>3. Number(s, i + m, 0) = 0
      <4> DEFINE j == i + m
      <4>1. j \in Nat /\ n \in Nat /\ j + n <= 8 * Len(s)
        BY <3>1
      <4> HIDE DEF j
      <4>2. Number(s, j, 0) = 0
        BY <4>1, NumberStep, Zenon
      <4> QED
        BY <4>2 DEF j
    <3> QED
      BY <3>1, <3>2, <3>3
  <2>2. x * 1 + 0 = x
    BY <1>1
  <2> QED
    BY <2>1, <2>2 DEF x
<1>3. ASSUME NEW k \in 1..n, k - 1 \in S PROVE k \in S
  <2> DEFINE y == 2^(k - 1)
             z == Number(s, i + m, k - 1)
             b == Bit(s, i + m + k - 1)
             v == Number(s, i, m + (k - 1))
  <2>1. /\ m + k \in Nat /\ m + k > 0 /\ i + (m + k) <= 8 * Len(s)
        /\ (m + k) - 1 = m + (k - 1) /\ i + (m + k) - 1 = i + m + k - 1
        /\ i + m \in Nat /\ k \in Nat /\ k > 0 /\ i + m + k <= 8 * Len(s)
        /\ k \in 1..30 /\ k - 1 \in 0..30 /\ k - 1 \in Nat /\ i + m + (k - 1) <= 8 * Len(s)
        /\ i + m + k - 1 \in Nat /\ i + m + k - 1 < 8 * Len(s)
    BY <1>1
  <2>2. Number(s, i, m + k) = 2 * v + b
    BY <2>1, NumberStep
  <2>3. Number(s, i + m, k) = 2 * z + b /\ z \in Nat
    BY <2>1, NumberStep
  <2>4. v = x * y + z
    BY <1>3
  <2>5. 2^k = 2 * y /\ y \in Nat /\ b \in Nat
    <3>1. b \in {0, 1}
      BY <2>1, BitType
    <3>2. 2^k = 2 * y /\ y \in Nat
      BY <2>1, Powers
    <3> HIDE DEF b
    <3>3. b \in Nat
      BY <3>1
    <3> QED
      BY <3>2, <3>3
  <2> HIDE DEF y, z, b, v
  <2>6. 2 * (x * y + z) + b = x * (2 * y) + (2 * z + b)
    BY <1>1, <2>3, <2>5
  <2>7. Number(s, i, m + k) = x * 2^k + Number(s, i + m, k)
    BY <2>2, <2>3, <2>4, <2>5, <2>6
  <2> QED
    BY <2>7
<1> HIDE DEF S
<1>4. n \in S
  <2>1. n \in 0..n /\ n \in Nat
    OBVIOUS
  <2> QED
    BY <1>2, <1>3, <2>1, InductUpTo
<1> QED
  BY <1>4 DEF S, x
-----------------------------------------------------------------------------
\* How many bits of the data are used.
Pos(t) == 8 * t.p - t.i_left

\* t reads on at bit i of the data.
ReadsAt(t, data, i) == t \in Bs /\ t.data = data /\ t.p >= 1 /\ Pos(t) = i

\* A byte that is being read, and the end.
LEMMA CurrentByte ==
  ASSUME NEW t, NEW data \in Seq(Byte), NEW i, ReadsAt(t, data, i)
  PROVE  /\ i \in Nat /\ t.p \in Nat /\ t.p >= 1 /\ t.i_left \in 1..8 /\ i = 8 * t.p - t.i_left
         /\ AtEnd(t) <=> i >= 8 * Len(data)
         /\ ~AtEnd(t) => t.p \in 1..Len(data) /\ i + t.i_left <= 8 * Len(data)
<1>1. /\ t.p \in Nat /\ t.p >= 1 /\ t.i_left \in 1..8 /\ t.data = data
      /\ i = 8 * t.p - t.i_left
  BY DEF ReadsAt, Bs, Pos
<1>2. Len(data) \in Nat
  OBVIOUS
<1>3. AtEnd(t) <=> t.p > Len(data)
  BY <1>1 DEF AtEnd
<1> DEFINE n == Len(data)
           q == t.p
           l == t.i_left
<1>4. n \in Nat /\ q \in Nat /\ q >= 1 /\ l \in 1..8 /\ i = 8 * q - l /\ (AtEnd(t) <=> q > n)
  BY <1>1, <1>2, <1>3
<1> HIDE DEF n, q, l
<1>5. /\ i \in Nat
      /\ AtEnd(t) <=> i >= 8 * n
      /\ ~AtEnd(t) => q \in 1..n /\ i + l <= 8 * n
  BY <1>4
<1> QED
  BY <1>4, <1>5 DEF n, q, l

\* Bits are used one after the other.
LEMMA UsedBits ==
  ASSUME NEW t, NEW data \in Seq(Byte), NEW i, ReadsAt(t, data, i), NEW n \in 1..t.i_left
  PROVE  ReadsAt(Use(t, n), data, i + n)
<1>1. /\ t.p \in Nat /\ t.p >= 1 /\ t.i_left \in 1..8 /\ i = 8 * t.p - t.i_left /\ i \in Nat
  BY CurrentByte
<1>2. t \in [data : Seq(Byte), p : Nat, i_left : 1..8] /\ t.data = data
  BY DEF ReadsAt, Bs
<1> DEFINE u == Use(t, n)
<1>3. CASE n = t.i_left
  <2>1. u = [t EXCEPT !.p = t.p + 1, !.i_left = 8]
    BY <1>3 DEF Use
  <2> HIDE DEF u
  <2>2. u = [data |-> data, p |-> t.p + 1, i_left |-> 8]
    BY <1>2, <2>1
  <2>3. t.p + 1 \in Nat /\ 8 \in 1..8 /\ 8 * (t.p + 1) - 8 = i + n /\ t.p + 1 >= 1
    <3> DEFINE q == t.p
               l == t.i_left
    <3>1. q \in Nat /\ l \in 1..8 /\ i = 8 * q - l /\ n = l
      BY <1>1, <1>3
    <3> HIDE DEF q, l
    <3>2. q + 1 \in Nat /\ 8 \in 1..8 /\ 8 * (q + 1) - 8 = i + n /\ q + 1 >= 1
      BY <3>1
    <3> QED
      BY <3>2 DEF q
  <2>4. /\ u.p = t.p + 1 /\ u.i_left = 8 /\ u.data = data
        /\ u \in [data : Seq(Byte), p : Nat, i_left : 1..8]
    BY <2>2, <2>3
  <2> QED
    BY <2>3, <2>4 DEF ReadsAt, Bs, Pos, u
<1>4. CASE n # t.i_left
  <2>1. u = [t EXCEPT !.i_left = t.i_left - n]
    BY <1>4 DEF Use
  <2> HIDE DEF u
  <2>2. t.i_left - n \in 1..8
    BY <1>1, <1>4
  <2>3. /\ u.p = t.p /\ u.i_left = t.i_left - n /\ u.data = data
        /\ u \in [data : Seq(Byte), p : Nat, i_left : 1..8]
    BY <1>1, <1>2, <2>1, <2>2
  <2>4. 8 * t.p - (t.i_left - n) = i + n
    <3> DEFINE q == t.p
               l == t.i_left
    <3>1. q \in Nat /\ l \in Nat /\ i = 8 * q - l /\ n \in Nat
      BY <1>1
    <3> HIDE DEF q, l
    <3>2. 8 * q - (l - n) = i + n
      BY <3>1
    <3> QED
      BY <3>2 DEF q, l
  <2> QED
    BY <1>1, <2>3, <2>4 DEF ReadsAt, Bs, Pos, u
<1> QED
  BY <1>3, <1>4

\* A byte without its last bits, one more at a time.
LEMMA ByteHalves ==
  ASSUME NEW x \in Nat, x <= 255, NEW e \in 0..7
  PROVE  /\ x \div 2^e \in Nat
         /\ x \div 2^(e + 1) = (x \div 2^e) \div 2
<1>1. /\ x \div 1 = x /\ x \div 4 = (x \div 2) \div 2 /\ x \div 8 = (x \div 4) \div 2
      /\ x \div 16 = (x \div 8) \div 2 /\ x \div 32 = (x \div 16) \div 2
      /\ x \div 64 = (x \div 32) \div 2 /\ x \div 128 = (x \div 64) \div 2
      /\ x \div 256 = (x \div 128) \div 2
  OBVIOUS
<1>2. /\ x \div 2 \in Nat /\ x \div 4 \in Nat /\ x \div 8 \in Nat /\ x \div 16 \in Nat
      /\ x \div 32 \in Nat /\ x \div 64 \in Nat /\ x \div 128 \in Nat
  OBVIOUS
<1>3. \/ e = 0 \/ e = 1 \/ e = 2 \/ e = 3 \/ e = 4 \/ e = 5 \/ e = 6 \/ e = 7
  OBVIOUS
<1>4. /\ 2^0 = 1 /\ 2^1 = 2 /\ 2^2 = 4 /\ 2^3 = 8 /\ 2^4 = 16 /\ 2^5 = 32 /\ 2^6 = 64
      /\ 2^7 = 128 /\ 2^8 = 256
      /\ 0 + 1 = 1 /\ 1 + 1 = 2 /\ 2 + 1 = 3 /\ 3 + 1 = 4 /\ 4 + 1 = 5 /\ 5 + 1 = 6
      /\ 6 + 1 = 7 /\ 7 + 1 = 8
  BY SMT
<1>5. CASE e = 0
  BY <1>1, <1>2, <1>4, <1>5
<1>6. CASE e = 1
  BY <1>1, <1>2, <1>4, <1>6
<1>7. CASE e = 2
  BY <1>1, <1>2, <1>4, <1>7
<1>8. CASE e = 3
  BY <1>1, <1>2, <1>4, <1>8
<1>9. CASE e = 4
  BY <1>1, <1>2, <1>4, <1>9
<1>10. CASE e = 5
  BY <1>1, <1>2, <1>4, <1>10
<1>11. CASE e = 6
  BY <1>1, <1>2, <1>4, <1>11
<1>12. CASE e = 7
  BY <1>1, <1>2, <1>4, <1>12
<1> QED
  BY <1>3, <1>5, <1>6, <1>7, <1>8, <1>9, <1>10, <1>11, <1>12

\* The last bits of a number, one more at a time.
LEMMA LastBits ==
  ASSUME NEW y \in Nat, NEW n \in 1..8
  PROVE  y % 2^n = 2 * ((y \div 2) % 2^(n - 1)) + (y % 2)
<1> DEFINE z == y \div 2
<1>1. y % 2 = 2 * (z % 1) + (y % 2) /\ y % 4 = 2 * (z % 2) + (y % 2)
  OBVIOUS
<1>2. y % 8 = 2 * (z % 4) + (y % 2) /\ y % 16 = 2 * (z % 8) + (y % 2)
  OBVIOUS
<1>3. y % 32 = 2 * (z % 16) + (y % 2) /\ y % 64 = 2 * (z % 32) + (y % 2)
  OBVIOUS
<1>4. y % 128 = 2 * (z % 64) + (y % 2) /\ y % 256 = 2 * (z % 128) + (y % 2)
  OBVIOUS
<1>5. \/ n = 1 \/ n = 2 \/ n = 3 \/ n = 4 \/ n = 5 \/ n = 6 \/ n = 7 \/ n = 8
  OBVIOUS
<1>6. /\ 2^0 = 1 /\ 2^1 = 2 /\ 2^2 = 4 /\ 2^3 = 8 /\ 2^4 = 16 /\ 2^5 = 32 /\ 2^6 = 64
      /\ 2^7 = 128 /\ 2^8 = 256
      /\ 1 - 1 = 0 /\ 2 - 1 = 1 /\ 3 - 1 = 2 /\ 4 - 1 = 3 /\ 5 - 1 = 4 /\ 6 - 1 = 5
      /\ 7 - 1 = 6 /\ 8 - 1 = 7
  BY SMT
<1> HIDE DEF z
<1>7. y % 2^n = 2 * (z % 2^(n - 1)) + (y % 2)
  <2>1. CASE n = 1
    BY <1>1, <1>6, <2>1
  <2>2. CASE n = 2
    BY <1>1, <1>6, <2>2
  <2>3. CASE n = 3
    BY <1>2, <1>6, <2>3
  <2>4. CASE n = 4
    BY <1>2, <1>6, <2>4
  <2>5. CASE n = 5
    BY <1>3, <1>6, <2>5
  <2>6. CASE n = 6
    BY <1>3, <1>6, <2>6
  <2>7. CASE n = 7
    BY <1>4, <1>6, <2>7
  <2>8. CASE n = 8
    BY <1>4, <1>6, <2>8
  <2> QED
    BY <1>5, <2>1, <2>2, <2>3, <2>4, <2>5, <2>6, <2>7, <2>8
<1> QED
  BY <1>7 DEF z

\* The bits of a byte that are left stand for the number they are part of.
LEMMA NumberInByte ==
  ASSUME NEW data \in Seq(Byte), NEW p \in 1..Len(data), NEW l \in 1..8, NEW n \in 0..l
  PROVE  (data[p] \div 2^(l - n)) % 2^n = Number(data, 8 * p - l, n)
<1> DEFINE x == data[p]
           i == 8 * p - l
           S == {m \in 0..n : (x \div 2^(l - m)) % 2^m = Number(data, i, m)}
<1>1. /\ i \in Nat /\ n \in Nat /\ p \in Nat /\ Len(data) \in Nat
      /\ \A m \in 0..n : i + m <= 8 * Len(data)
  <2>1. Len(data) \in Nat
    OBVIOUS
  <2> QED
    BY <2>1
<1>2. x \in Nat /\ x <= 255
  <2>1. x \in Byte
    BY ElementOfSeq
  <2> QED
    BY <2>1, ByteNat
<1> HIDE DEF x
<1>3. 0 \in S
  <2>1. 2^0 = 1
    BY Powers, Zenon
  <2>2. x \div 2^(l - 0) \in Nat
    <3>1. 2^(l - 0) \in Nat /\ 2^(l - 0) > 0
      <4>1. l - 0 \in 0..30
        OBVIOUS
      <4> QED
        BY <4>1, Powers
    <3> DEFINE d == 2^(l - 0)
    <3> HIDE DEF d
    <3>2. d \in Nat /\ d > 0
      BY <3>1 DEF d
    <3>3. x \div d \in Nat
      BY <1>2, <3>2
    <3> QED
      BY <3>3 DEF d
  <2>3. Number(data, i, 0) = 0
    <3>1. 0 \in Nat /\ i + 0 <= 8 * Len(data)
      BY <1>1
    <3> HIDE DEF i
    <3> QED
      BY <1>1, <3>1, NumberStep
  <2>4. \A y \in Nat : y % 1 = 0
    OBVIOUS
  <2> HIDE DEF i
  <2>5. (x \div 2^(l - 0)) % 2^0 = 0
    BY <2>1, <2>2, <2>4, Zenon
  <2> QED
    BY <1>1, <2>3, <2>5
<1>4. ASSUME NEW m \in 1..n, m - 1 \in S PROVE m \in S
  <2> DEFINE y == x \div 2^(l - m)
             o == p - 1
             j == 8 - l + m - 1
  <2>1. /\ l - m \in 0..7 /\ l - (m - 1) = (l - m) + 1 /\ m \in 1..8
        /\ o \in Nat /\ o + 1 = p /\ j \in 0..7 /\ 7 - j = l - m
        /\ i + m - 1 = 8 * o + j /\ m \in Nat /\ m > 0
    BY <1>1
  <2>2. y \in Nat /\ x \div 2^(l - (m - 1)) = y \div 2
    BY <1>2, <2>1, ByteHalves
  <2>3. Bit(data, i + m - 1) = y % 2
    <3>1. (8 * o + j) \div 8 = o /\ (8 * o + j) % 8 = j
      BY <2>1
    <3> HIDE DEF o, j, i
    <3>2. Bit(data, 8 * o + j) = (data[o + 1] \div 2^(7 - j)) % 2
      BY <3>1, Zenon DEF Bit
    <3> QED
      BY <2>1, <3>2, Zenon DEF x
  <2>4. Number(data, i, m) = 2 * Number(data, i, m - 1) + Bit(data, i + m - 1)
    <3>1. i + m <= 8 * Len(data)
      BY <1>1
    <3> HIDE DEF i
    <3> QED
      BY <1>1, <2>1, <3>1, NumberStep
  <2>5. Number(data, i, m - 1) = (y \div 2) % 2^(m - 1)
    BY <1>4, <2>2, Zenon
  <2> HIDE DEF y
  <2>6. y % 2^m = 2 * ((y \div 2) % 2^(m - 1)) + (y % 2)
    BY <2>1, <2>2, LastBits
  <2> HIDE DEF i
  <2>7. y % 2^m = Number(data, i, m)
    BY <2>3, <2>4, <2>5, <2>6
  <2> QED
    BY <2>7 DEF y
<1> HIDE DEF S, i
<1>5. n \in S
  <2>1. n \in 0..n
    BY <1>1
  <2> QED
    BY <1>1, <1>3, <1>4, <2>1, InductUpTo
<1> QED
  BY <1>5 DEF S, x, i
-----------------------------------------------------------------------------
\* bs_read1 reads the bit it is at.
LEMMA ReadsBit ==
  ASSUME NEW t, NEW data \in Seq(Byte), NEW i, ReadsAt(t, data, i), i < 8 * Len(data)
  PROVE  bs_read1(t).val = Bit(data, i) /\ ReadsAt(bs_read1(t).bs, data, i + 1)
<1>1. /\ i \in Nat /\ t.p \in Nat /\ t.i_left \in 1..8 /\ i = 8 * t.p - t.i_left
      /\ t.p \in 1..Len(data) /\ ~AtEnd(t)
  <2>1. Len(data) \in Nat /\ i \in Nat
    <3>1. i \in Nat
      BY CurrentByte
    <3> QED
      BY <3>1
  <2>2. ~(i >= 8 * Len(data))
    BY <2>1
  <2> QED
    BY <2>2, CurrentByte
<1>2. t.data = data
  BY DEF ReadsAt
<1>3. bs_read1(t) = [val |-> (data[t.p] \div 2^(t.i_left - 1)) % 2, bs |-> Use(t, 1)]
  BY <1>1, <1>2 DEF bs_read1
<1>4. ReadsAt(Use(t, 1), data, i + 1)
  <2>1. 1 \in 1..t.i_left
    BY <1>1
  <2> QED
    BY <2>1, UsedBits
<1>5. (data[t.p] \div 2^(t.i_left - 1)) % 2 = Bit(data, i)
  <2> DEFINE q == t.p
             l == t.i_left
             o == q - 1
             j == 8 - l
  <2>1. o \in Nat /\ o + 1 = q /\ j \in 0..7 /\ i = 8 * o + j /\ 7 - j = l - 1
    <3>1. q \in Nat /\ q >= 1 /\ l \in 1..8 /\ i = 8 * q - l
      BY <1>1
    <3> HIDE DEF q, l
    <3> QED
      BY <3>1
  <2> HIDE DEF q, l, o, j
  <2>2. (8 * o + j) \div 8 = o /\ (8 * o + j) % 8 = j
    BY <2>1
  <2>3. Bit(data, 8 * o + j) = (data[o + 1] \div 2^(7 - j)) % 2
    BY <2>2, Zenon DEF Bit
  <2>4. Bit(data, i) = (data[q] \div 2^(l - 1)) % 2
    BY <2>1, <2>3, Zenon
  <2> QED
    BY <2>4 DEF q, l
<1> QED
  BY <1>3, <1>4, <1>5

\* bs_read has read all but i_count of the m bits from bit i on.
ReadSoFar(r, data, i, m) ==
  /\ r \in Reads /\ r.i_count <= m
  /\ ReadsAt(r.bs, data, i + (m - r.i_count))
  /\ r.i_result = Number(data, i, m - r.i_count) * 2^(r.i_count)

\* A pass reads some more of them.
LEMMA PassReads ==
  ASSUME NEW data \in Seq(Byte), NEW i \in Nat, NEW m \in 0..30, i + m <= 8 * Len(data),
         NEW r, ReadSoFar(r, data, i, m)
  PROVE  /\ ReadSoFar(Pass(r), data, i, m)
         /\ Pass(r).i_count \in Nat
         /\ IF r.i_count = 0 THEN Pass(r).i_count = 0 ELSE Pass(r).i_count < r.i_count
<1>1. /\ r.i_result \in Nat /\ r.i_count \in Nat /\ r.bs \in Bs /\ r.i_count <= m
      /\ ReadsAt(r.bs, data, i + (m - r.i_count))
      /\ r.i_result = Number(data, i, m - r.i_count) * 2^(r.i_count)
  BY DEF ReadSoFar, Reads
<1>2. CASE r.i_count = 0
  <2>1. Pass(r) = r
    BY <1>2 DEF Pass
  <2> QED
    BY <1>2, <2>1
<1>3. CASE r.i_count # 0
  <2> DEFINE c == r.i_count
             l == r.bs.i_left
             q == r.bs.p
             n == IF c <= l THEN c ELSE l
             k == m - c
             bits == (data[q] \div 2^(l - n)) % 2^n
             u == [i_result |-> r.i_result + bits * 2^(c - n), i_count |-> c - n,
                   bs |-> Use(r.bs, n)]
  <2>1. c \in Nat /\ c > 0 /\ c <= m /\ m \in Nat /\ m <= 30 /\ Len(data) \in Nat
    BY <1>1, <1>3
  <2>2. r.bs.data = data
    BY <1>1 DEF ReadsAt
  <2>3. i + k < 8 * Len(data) /\ k \in Nat /\ k <= 30 /\ k + c = m
    <3> HIDE DEF c
    <3> QED
      BY <2>1
  <2>4. ~AtEnd(r.bs) /\ q \in 1..Len(data) /\ l \in 1..8 /\ i + k = 8 * q - l
        /\ i + k + l <= 8 * Len(data)
    <3> HIDE DEF k
    <3>1. i + k \in Nat /\ ~(i + k >= 8 * Len(data))
      BY <2>1, <2>3
    <3> USE DEF k
    <3> QED
      BY <1>1, <3>1, CurrentByte
  <2>5. Pass(r) = u
    BY <1>3, <2>2, <2>4 DEF Pass
  <2>6. n \in 1..l /\ n \in Nat /\ n <= c /\ n <= 8 /\ c - n \in Nat /\ c - n < c
        /\ n + (c - n) = c /\ (c - n) + n = c
    <3> HIDE DEF c, l
    <3> QED
      BY <2>1, <2>4
  <2> HIDE DEF c, l, q, n, k
  <2>7. bits = Number(data, i + k, n)
    <3>1. n \in 0..l
      BY <2>4, <2>6
    <3> QED
      BY <2>4, <3>1, NumberInByte
  <2>8. Number(data, i, k + n) = Number(data, i, k) * 2^n + Number(data, i + k, n)
    <3>1. n \in 0..30 /\ i + k + n <= 8 * Len(data)
      BY <2>1, <2>3, <2>4, <2>6
    <3> QED
      BY <2>3, <3>1, NumberJoin
  <2>9. 2^c = 2^n * 2^(c - n) /\ 2^n \in Nat /\ 2^(c - n) \in Nat
    <3>1. n \in 0..30 /\ c - n \in 0..30 /\ n + (c - n) <= 30
      BY <2>1, <2>6
    <3>2. 2^(n + (c - n)) = 2^n * 2^(c - n)
      BY <2>6, <3>1, PowersAdd
    <3> QED
      BY <2>6, <3>1, <3>2, Powers
  <2>10. Number(data, i, k) \in Nat /\ Number(data, i + k, n) \in Nat
    <3>1. i + k \in Nat /\ i + k + n <= 8 * Len(data) /\ i + k <= 8 * Len(data)
      BY <2>1, <2>3, <2>4, <2>6
    <3> DEFINE h == i + k
    <3>2. h \in Nat /\ h + n <= 8 * Len(data)
      BY <3>1
    <3> HIDE DEF h
    <3>3. Number(data, h, n) \in Nat
      BY <2>6, <3>2, NumberStep
    <3>4. Number(data, i, k) \in Nat
      BY <2>3, <3>1, NumberStep
    <3> QED
      BY <3>3, <3>4 DEF h
  <2>11. r.i_result + bits * 2^(c - n) = Number(data, i, k + n) * 2^(c - n)
         /\ r.i_result + bits * 2^(c - n) \in Nat
    <3>1. r.i_result = Number(data, i, k) * 2^c
      BY <1>1 DEF c, k
    <3> DEFINE a == Number(data, i, k)
               b == Number(data, i + k, n)
               x == 2^n
               y == 2^(c - n)
               w == Number(data, i, k + n)
    <3>2. a \in Nat /\ b \in Nat /\ x \in Nat /\ y \in Nat
      BY <2>9, <2>10
    <3>3. r.i_result = a * (x * y) /\ bits = b /\ w = a * x + b
      BY <2>7, <2>8, <2>9, <3>1
    <3> HIDE DEF a, b, x, y, w, bits
    <3>4. a * (x * y) + b * y = (a * x + b) * y /\ (a * x + b) * y \in Nat
      BY <3>2
    <3>5. r.i_result + bits * y = w * y /\ r.i_result + bits * y \in Nat
      BY <3>3, <3>4
    <3> QED
      BY <3>5 DEF w, y
  <2>12. ReadsAt(Use(r.bs, n), data, i + (k + n))
    <3>1. ReadsAt(r.bs, data, i + k)
      BY <1>1 DEF k, c
    <3>2. (i + k) + n = i + (k + n)
      BY <2>3, <2>6
    <3>3. n \in 1..r.bs.i_left
      BY <2>6 DEF l
    <3>4. ReadsAt(Use(r.bs, n), data, (i + k) + n)
      BY <3>1, <3>3, UsedBits
    <3> QED
      BY <3>2, <3>4
  <2>13. m - (c - n) = k + n
    BY <2>1, <2>3, <2>6 DEF k
  <2> HIDE DEF bits
  <2>14. u.i_count = c - n /\ u.bs = Use(r.bs, n) /\ u.i_result = r.i_result + bits * 2^(c - n)
    OBVIOUS
  <2>15. u \in Reads
    BY <2>6, <2>11, <2>12 DEF Reads, ReadsAt
  <2> HIDE DEF u
  <2>16. c - n <= m
    BY <2>1, <2>6
  <2>17. ReadSoFar(u, data, i, m)
    BY <2>11, <2>12, <2>13, <2>14, <2>15, <2>16 DEF ReadSoFar
  <2> QED
    BY <1>3, <2>5, <2>6, <2>14, <2>17 DEF c
<1> QED
  BY <1>2, <1>3

\* bs_read(s, m) is the number that the next m bits stand for.
THEOREM ReadsNumber ==
  ASSUME NEW s, NEW data \in Seq(Byte), NEW i \in Nat, ReadsAt(s, data, i),
         NEW m \in 0..30, i + m <= 8 * Len(data)
  PROVE  /\ bs_read(s, m).val = Number(data, i, m)
         /\ ReadsAt(bs_read(s, m).bs, data, i + m)
<1> DEFINE P == [r \in Reads |-> Pass(r)]
           a == [i_result |-> 0, i_count |-> m, bs |-> s]
           R == {r \in Reads : ReadSoFar(r, data, i, m)}
           g == CHOOSE f : Loop(f, 32, a, P)
<1>1. m \in Nat /\ Len(data) \in Nat
  OBVIOUS
<1>2. a \in R
  <2>1. m - m = 0 /\ i + (m - m) = i /\ Number(data, i, 0) = 0
    <3>1. i + m <= 8 * Len(data) /\ m - m = 0 /\ i + (m - m) = i
      BY <1>1
    <3>2. Number(data, i, 0) = 0
      BY <1>1, <3>1, NumberStep
    <3> QED
      BY <3>1, <3>2
  <2>2. a.i_result = 0 /\ a.i_count = m /\ a.bs = s /\ s \in Bs
    BY DEF ReadsAt
  <2>3. a \in Reads
    BY <1>1, <2>2 DEF Reads
  <2>4. 0 = 0 * 2^m
    <3>1. 2^m \in Nat
      BY Powers
    <3> QED
      BY <3>1
  <2> HIDE DEF a
  <2>5. ReadSoFar(a, data, i, m)
    BY <1>1, <2>1, <2>2, <2>3, <2>4 DEF ReadSoFar
  <2> QED
    BY <2>3, <2>5
<1>3. \A r \in R : /\ P[r] \in R /\ P[r].i_count \in Nat /\ r.i_count \in Nat
                   /\ IF r.i_count = 0 THEN P[r].i_count = 0 ELSE P[r].i_count < r.i_count
  <2> SUFFICES ASSUME NEW r \in Reads, ReadSoFar(r, data, i, m)
               PROVE  /\ P[r] \in R /\ P[r].i_count \in Nat /\ r.i_count \in Nat
                      /\ IF r.i_count = 0 THEN P[r].i_count = 0
                                          ELSE P[r].i_count < r.i_count
    OBVIOUS
  <2>1. P[r] = Pass(r)
    OBVIOUS
  <2> HIDE DEF P
  <2>2. ReadSoFar(Pass(r), data, i, m) /\ Pass(r) \in Reads
    <3>1. ReadSoFar(Pass(r), data, i, m)
      BY PassReads
    <3> QED
      BY <3>1 DEF ReadSoFar
  <2>3. /\ Pass(r).i_count \in Nat
        /\ IF r.i_count = 0 THEN Pass(r).i_count = 0 ELSE Pass(r).i_count < r.i_count
    BY PassReads
  <2>4. r.i_count \in Nat
    BY DEF Reads
  <2> QED
    BY <2>1, <2>2, <2>3, <2>4
<1>4. \A r \in R : ReadSoFar(r, data, i, m)
  OBVIOUS
<1>5. bs_read(s, m) = [val |-> g[32].i_result, bs |-> g[32].bs]
  BY Zenon DEF bs_read, Loop
<1>6. a.i_count = m
  OBVIOUS
<1> HIDE DEF a, P, R, g
<1>7. LoopIn(g, 32, a, P, R)
  <2>1. 32 \in Nat /\ Stays(P, R)
    BY <1>3 DEF Stays
  <2> QED
    BY <1>2, <2>1, LoopChosen, Zenon DEF g
<1>8. g \in [0..32 -> R] /\ g[0] = a /\ \A k \in 1..32 : g[k] = P[g[k - 1]]
  BY <1>7, Zenon DEF LoopIn
<1> DEFINE T == {k \in 0..32 : g[k].i_count = 0 \/ g[k].i_count <= m - k}
<1>9. 0 \in T
  <2>1. g[0].i_count = m /\ m <= m - 0 /\ 0 \in 0..32
    BY <1>1, <1>6, <1>8
  <2> QED
    BY <2>1
<1>10. ASSUME NEW k \in 1..32, k - 1 \in T PROVE k \in T
  <2> DEFINE r == g[k - 1]
  <2>1. r \in R /\ g[k] = P[r]
    <3>1. k - 1 \in 0..32
      OBVIOUS
    <3> QED
      BY <1>8, <3>1
  <2>2. r.i_count = 0 \/ r.i_count <= m - (k - 1)
    BY <1>10
  <2> HIDE DEF r
  <2>3. g[k].i_count \in Nat /\ r.i_count \in Nat
        /\ IF r.i_count = 0 THEN g[k].i_count = 0 ELSE g[k].i_count < r.i_count
    BY <1>3, <2>1
  <2>4. g[k].i_count = 0 \/ g[k].i_count <= m - k
    <3> DEFINE x == r.i_count
               y == g[k].i_count
    <3>1. /\ x \in Nat /\ y \in Nat /\ (IF x = 0 THEN y = 0 ELSE y < x)
          /\ x = 0 \/ x <= m - (k - 1)
      BY <2>2, <2>3
    <3> HIDE DEF x, y
    <3>2. y = 0 \/ y <= m - k
      BY <1>1, <3>1
    <3> QED
      BY <3>2 DEF y
  <2> QED
    BY <2>4
<1> HIDE DEF T
<1>11. 32 \in T
  <2>1. 32 \in Nat /\ 32 \in 0..32
    OBVIOUS
  <2>2. \A k \in 0..32 : k \in T
    BY <1>9, <1>10, InductUpTo
  <2> QED
    BY <2>1, <2>2
<1>12. g[32] \in R /\ g[32].i_count = 0
  <2>1. g[32] \in R
    BY <1>8
  <2>2. g[32].i_count \in Nat
    BY <1>3, <2>1
  <2>3. g[32].i_count = 0 \/ g[32].i_count <= m - 32
    BY <1>11 DEF T
  <2> QED
    BY <1>1, <2>1, <2>2, <2>3
<1>13. /\ g[32].i_result = Number(data, i, m - 0) * 2^0
       /\ ReadsAt(g[32].bs, data, i + (m - 0))
  BY <1>4, <1>12 DEF ReadSoFar
<1>14. m - 0 = m /\ Number(data, i, m) * 2^0 = Number(data, i, m)
  <2> DEFINE x == Number(data, i, m)
  <2>1. x \in Nat /\ m - 0 = m
    BY <1>1, NumberStep
  <2>2. 2^0 = 1
    BY Powers, Zenon
  <2> HIDE DEF x
  <2>3. x * 1 = x
    BY <2>1
  <2> QED
    BY <2>1, <2>2, <2>3 DEF x
<1> QED
  BY <1>5, <1>13, <1>14
-----------------------------------------------------------------------------
\* The zeros from bit i on: they end at a one or with the data.
LEMMA ZerosAre ==
  ASSUME NEW data \in Seq(Byte), NEW i \in Nat, i <= 8 * Len(data)
  PROVE  /\ Zeros(data, i) \in Nat /\ i + Zeros(data, i) <= 8 * Len(data)
         /\ \A k \in Nat : k < Zeros(data, i) => Bit(data, i + k) = 0
         /\ i + Zeros(data, i) < 8 * Len(data) => Bit(data, i + Zeros(data, i)) = 1
<1> DEFINE e == 8 * Len(data) - i
           b(k) == Bit(data, i + k)
           S == {n \in Nat : n >= e \/ b(n) = 1}
           Is(n) == /\ \A k \in 0..(n - 1) : Bit(data, i + k) = 0
                    /\ i + n < 8 * Len(data) => Bit(data, i + n) = 1
           z == CHOOSE n \in 0..(8 * Len(data) - i) : Is(n)
<1>1. e \in Nat /\ Len(data) \in Nat /\ i + e = 8 * Len(data)
  <2>1. Len(data) \in Nat
    OBVIOUS
  <2> QED
    BY <2>1
<1>2. e \in S
  BY <1>1
<1>3. PICK n \in S : \A m \in S : n <= m
  <2>1. S \subseteq Nat /\ S # {}
    BY <1>2
  <2> HIDE DEF S
  <2> QED
    BY <2>1, LeastNumber
<1>4. n \in Nat /\ n <= e
  BY <1>2, <1>3
<1>5. ASSUME NEW k \in Nat, k < n PROVE b(k) = 0
  <2>1. k < e /\ k \notin S
    BY <1>1, <1>3, <1>4, <1>5
  <2>2. i + k \in Nat /\ i + k < 8 * Len(data)
    BY <1>1, <1>5, <2>1
  <2>3. Bit(data, i + k) \in {0, 1}
    <3> DEFINE j == i + k
    <3> HIDE DEF j
    <3>1. Bit(data, j) \in {0, 1}
      BY <2>2, BitType DEF j
    <3> QED
      BY <3>1 DEF j
  <2>4. b(k) # 1
    BY <2>1
  <2> HIDE DEF b
  <2>5. b(k) \in {0, 1}
    BY <2>3 DEF b
  <2> QED
    BY <2>4, <2>5
<1>6. n < e => b(n) = 1
  BY <1>1, <1>3, <1>4
<1>7. n \in 0..(8 * Len(data) - i) /\ Is(n)
  <2>1. n \in 0..e
    BY <1>1, <1>4
  <2>2. \A k \in 0..(n - 1) : b(k) = 0
    <3>1. \A k \in 0..(n - 1) : k \in Nat /\ k < n
      BY <1>4
    <3> HIDE DEF b
    <3> QED
      BY <1>5, <3>1
  <2>3. i + n < 8 * Len(data) => b(n) = 1
    BY <1>1, <1>4, <1>6
  <2> QED
    BY <2>1, <2>2, <2>3
<1> HIDE DEF Is
<1>8. z \in 0..(8 * Len(data) - i) /\ Is(z)
  BY <1>7, Zenon
<1>9. Zeros(data, i) = z
  BY Zenon DEF Zeros, Is
<1> HIDE DEF z, e
<1>10. z \in Nat /\ i + z <= 8 * Len(data)
  BY <1>1, <1>8
<1>11. \A k \in Nat : k < z => Bit(data, i + k) = 0
  <2>1. \A k \in Nat : k < z => k \in 0..(z - 1)
    BY <1>10
  <2> QED
    BY <1>8, <2>1 DEF Is
<1>12. i + z < 8 * Len(data) => Bit(data, i + z) = 1
  BY <1>8 DEF Is
<1> QED
  BY <1>9, <1>10, <1>11, <1>12
\* n zeros from bit i on, and a one.
ZeroRun(data, i, n) ==
  /\ n \in Nat /\ n <= 30 /\ i + n < 8 * Len(data) /\ Bit(data, i + n) = 1
  /\ \A k \in Nat : k < n => Bit(data, i + k) = 0

\* bs_read_ue has counted zeros from bit i on: of the n of them, or also read the
\* one behind them.
ScanSoFar(z, data, i, n) ==
  /\ z \in Scans /\ z.i <= n
  /\ IF z.on THEN ReadsAt(z.bs, data, i + z.i)
             ELSE z.i = n /\ ReadsAt(z.bs, data, i + n + 1)

\* y goes on after z, and has counted one more.
OneMore(z, y) == y.on => z.on /\ y.i = z.i + 1

\* Each pass counts one more, or finds the one.
LEMMA ZeroCounted ==
  ASSUME NEW data \in Seq(Byte), NEW i \in Nat, NEW n, ZeroRun(data, i, n),
         NEW z, ScanSoFar(z, data, i, n)
  PROVE  /\ ScanSoFar(CountZero(z), data, i, n)
         /\ OneMore(z, CountZero(z))
<1>0. /\ n \in Nat /\ n <= 30 /\ i + n < 8 * Len(data) /\ Bit(data, i + n) = 1
      /\ \A k \in Nat : k < n => Bit(data, i + k) = 0
  BY DEF ZeroRun
<1>1. z.i \in Nat /\ z.i <= n /\ z.bs \in Bs /\ Len(data) \in Nat
  <2>1. z.i \in 0..32 /\ z.i <= n /\ z.bs \in Bs
    BY DEF ScanSoFar, Scans
  <2>2. Len(data) \in Nat
    OBVIOUS
  <2>3. \A m \in 0..32 : m \in Nat
    OBVIOUS
  <2> QED
    BY <2>1, <2>2, <2>3
<1>2. CASE ~z.on
  <2>1. CountZero(z) = z
    BY <1>2 DEF CountZero
  <2> QED
    BY <1>2, <2>1 DEF OneMore
<1>3. CASE z.on
  <2> DEFINE c == z.i
             r == bs_read1(z.bs)
             on == r.val = 0 /\ ~AtEnd(r.bs) /\ c < 32
             u == [i |-> IF on THEN c + 1 ELSE c, bs |-> r.bs, on |-> on]
  <2>1. CountZero(z) = u
    BY <1>3 DEF CountZero
  <2>2. ReadsAt(z.bs, data, i + c) /\ c \in Nat /\ c <= n
    BY <1>1, <1>3 DEF ScanSoFar
  <2>3. r.val = Bit(data, i + c) /\ ReadsAt(r.bs, data, i + c + 1)
    <3> DEFINE j == i + c
    <3> HIDE DEF c
    <3>1. j \in Nat /\ j < 8 * Len(data)
      BY <1>0, <1>1, <2>2
    <3> HIDE DEF j
    <3>2. bs_read1(z.bs).val = Bit(data, j) /\ ReadsAt(bs_read1(z.bs).bs, data, j + 1)
      BY <2>2, <3>1, ReadsBit DEF j
    <3> QED
      BY <3>2 DEF j
  <2> HIDE DEF c, r
  <2>4. u.i = (IF on THEN c + 1 ELSE c) /\ u.bs = r.bs /\ u.on = on /\ on \in BOOLEAN
    OBVIOUS
  <2> HIDE DEF u
  <2>5. r.bs \in Bs
    BY <2>3 DEF ReadsAt
  <2>6. CASE c = n
    <3>1. ~on
      BY <1>0, <2>3, <2>6
    <3> HIDE DEF on
    <3>2. u.i = n /\ ~u.on /\ n \in 0..32
      BY <1>0, <2>4, <2>6, <3>1
    <3>3. u \in Scans
      <4>1. u = [i |-> u.i, bs |-> u.bs, on |-> u.on]
        BY DEF u
      <4> QED
        BY <2>4, <2>5, <3>2, <4>1 DEF Scans
    <3>4. ReadsAt(u.bs, data, i + n + 1)
      BY <2>3, <2>4, <2>6
    <3> QED
      BY <2>1, <3>2, <3>3, <3>4 DEF ScanSoFar, OneMore
  <2>7. CASE c # n
    <3>1. c \in Nat /\ c < 32 /\ c < n /\ c + 1 <= n /\ c + 1 \in 0..32 /\ c + 1 \in Nat
      BY <1>0, <2>2, <2>7
    <3>2. r.val = 0
      BY <1>0, <2>2, <2>3, <3>1
    <3>3. ~AtEnd(r.bs)
      <4> DEFINE j == i + c + 1
      <4>1. j \in Nat /\ ~(j >= 8 * Len(data))
        BY <1>0, <1>1, <3>1
      <4> HIDE DEF j
      <4> QED
        BY <2>3, <4>1, CurrentByte DEF j
    <3>4. on
      BY <3>1, <3>2, <3>3, Zenon
    <3> HIDE DEF on
    <3>5. u.i = c + 1 /\ u.on
      BY <2>4, <3>4
    <3>6. u \in Scans
      <4>1. u = [i |-> u.i, bs |-> u.bs, on |-> u.on]
        BY DEF u
      <4> QED
        BY <2>4, <2>5, <3>1, <3>5, <4>1 DEF Scans
    <3>7. ReadsAt(u.bs, data, i + (c + 1))
      <4>1. i + c + 1 = i + (c + 1)
        BY <3>1
      <4> QED
        BY <2>3, <2>4, <4>1
    <3>8. ScanSoFar(u, data, i, n)
      BY <3>1, <3>5, <3>6, <3>7 DEF ScanSoFar
    <3> QED
      BY <1>3, <2>1, <3>5, <3>8 DEF c, OneMore
  <2> QED
    BY <2>6, <2>7
<1> QED
  BY <1>2, <1>3
\* The zeros are all counted, and what follows the one is read next.
LEMMA CountsZeros ==
  ASSUME NEW s, NEW data \in Seq(Byte), NEW i \in Nat, ReadsAt(s, data, i),
         NEW n, ZeroRun(data, i, n)
  PROVE  LeadingZeros(s).i = n /\ ReadsAt(LeadingZeros(s).bs, data, i + n + 1)
<1> DEFINE P == [z \in Scans |-> CountZero(z)]
           a == [i |-> 0, bs |-> s, on |-> TRUE]
           R == {z \in Scans : ScanSoFar(z, data, i, n)}
           g == CHOOSE f : Loop(f, 33, a, P)
<1>0. n \in Nat /\ n <= 30
  BY DEF ZeroRun
<1>1. a \in R
  <2>1. a.i = 0 /\ a.bs = s /\ a.on /\ s \in Bs
    BY DEF ReadsAt
  <2>2. a \in Scans
    <3>1. 0 \in 0..32 /\ TRUE \in BOOLEAN
      OBVIOUS
    <3> QED
      BY <2>1, <3>1 DEF Scans
  <2>3. i + 0 = i /\ 0 <= n
    BY <1>0
  <2> HIDE DEF a
  <2>4. ScanSoFar(a, data, i, n)
    BY <2>1, <2>2, <2>3 DEF ScanSoFar
  <2> QED
    BY <2>2, <2>4
<1>2. \A z \in R : /\ P[z] \in R /\ ScanSoFar(z, data, i, n)
                   /\ P[z].on => z.on /\ P[z].i = z.i + 1
  <2> SUFFICES ASSUME NEW z \in Scans, ScanSoFar(z, data, i, n)
               PROVE  P[z] \in R /\ (P[z].on => z.on /\ P[z].i = z.i + 1)
    OBVIOUS
  <2>1. P[z] = CountZero(z)
    OBVIOUS
  <2> HIDE DEF P
  <2>2. ScanSoFar(CountZero(z), data, i, n)
        /\ (CountZero(z).on => z.on /\ CountZero(z).i = z.i + 1)
    <3>1. ScanSoFar(CountZero(z), data, i, n) /\ OneMore(z, CountZero(z))
      BY ZeroCounted, Zenon
    <3> QED
      BY <3>1 DEF OneMore
  <2>3. CountZero(z) \in Scans
    BY <2>2 DEF ScanSoFar
  <2> QED
    BY <2>1, <2>2, <2>3
<1>3. LeadingZeros(s) = g[33]
  BY Zenon DEF LeadingZeros, Loop
<1>4. a.i = 0
  OBVIOUS
<1> HIDE DEF a, P, R, g
<1>5. LoopIn(g, 33, a, P, R)
  <2>1. 33 \in Nat /\ Stays(P, R)
    BY <1>2 DEF Stays
  <2> QED
    BY <1>1, <2>1, LoopChosen, Zenon DEF g
<1>6. g \in [0..33 -> R] /\ g[0] = a /\ \A k \in 1..33 : g[k] = P[g[k - 1]]
  BY <1>5, Zenon DEF LoopIn
<1> DEFINE T == {k \in 0..33 : g[k].on => g[k].i = k}
<1>7. 0 \in T
  <2>1. g[0].i = 0 /\ 0 \in 0..33
    BY <1>4, <1>6
  <2> QED
    BY <2>1
<1>8. ASSUME NEW k \in 1..33, k - 1 \in T PROVE k \in T
  <2> DEFINE z == g[k - 1]
  <2>1. z \in R /\ g[k] = P[z] /\ k \in 0..33
    <3>1. k - 1 \in 0..33 /\ k \in 0..33
      OBVIOUS
    <3> QED
      BY <1>6, <3>1
  <2>2. z.on => z.i = k - 1
    BY <1>8
  <2>3. (k - 1) + 1 = k
    OBVIOUS
  <2> HIDE DEF z
  <2>4. g[k].on => g[k].i = k
    BY <1>2, <2>1, <2>2, <2>3
  <2> QED
    BY <2>1, <2>4
<1> HIDE DEF T
<1>9. 33 \in T /\ 33 \in 0..33
  <2>1. 33 \in Nat /\ 33 \in 0..33
    OBVIOUS
  <2>2. \A k \in 0..33 : k \in T
    BY <1>7, <1>8, InductUpTo
  <2> QED
    BY <2>1, <2>2
<1>10. ScanSoFar(g[33], data, i, n)
  BY <1>2, <1>6, <1>9
<1>11. ~g[33].on
  <2>1. g[33].i <= n
    BY <1>10 DEF ScanSoFar
  <2>2. g[33].on => g[33].i = 33
    BY <1>9 DEF T
  <2> QED
    BY <1>0, <2>1, <2>2
<1> QED
  BY <1>3, <1>10, <1>11 DEF ScanSoFar

\* What bs_read_ue reads: the code at bit i, if it is whole and fits an int.
THEOREM ReadsCode ==
  ASSUME NEW s, NEW data \in Seq(Byte), NEW i \in Nat, i <= 8 * Len(data),
         ReadsAt(s, data, i), Readable(data, i)
  PROVE  /\ bs_read_ue(s).defined
         /\ bs_read_ue(s).val = Code(data, i) /\ Code(data, i) \in Nat
         /\ ReadsAt(bs_read_ue(s).bs, data, CodeEnd(data, i))
         /\ CodeEnd(data, i) \in Nat /\ CodeEnd(data, i) <= 8 * Len(data)
<1> DEFINE n == Zeros(data, i)
           L == 8 * Len(data)
           j == i + n + 1
           z == LeadingZeros(s)
           r == bs_read(z.bs, n)
<1>1. L \in Nat
  <2>1. Len(data) \in Nat
    OBVIOUS
  <2> QED
    BY <2>1
<1>2. /\ n \in Nat /\ i + n <= L /\ (i + n < L => Bit(data, i + n) = 1)
      /\ \A k \in Nat : k < n => Bit(data, i + k) = 0
  BY ZerosAre
<1>3. i + 2 * n + 1 <= L /\ n < 31 /\ CodeEnd(data, i) = i + 2 * n + 1
  BY DEF Readable, CodeEnd
<1> HIDE DEF n, L
<1>4. /\ n <= 30 /\ n \in 0..30 /\ i + n < L /\ j \in Nat /\ j + n <= L
      /\ j + n = i + 2 * n + 1 /\ j <= L
  BY <1>1, <1>2, <1>3
<1>5. z.i = n /\ ReadsAt(z.bs, data, j)
  <2>1. ZeroRun(data, i, n)
    BY <1>2, <1>4 DEF ZeroRun, L
  <2> QED
    BY <2>1, CountsZeros DEF j
<1> HIDE DEF j, z
<1>6. r.val = Number(data, j, n) /\ ReadsAt(r.bs, data, j + n)
  BY <1>4, <1>5, ReadsNumber DEF L
<1> HIDE DEF r
<1>7. bs_read_ue(s) = [defined |-> TRUE, val |-> (2^n) - 1 + r.val, bs |-> r.bs]
  <2>1. ~(n >= 31)
    BY <1>4
  <2> QED
    BY <1>5, <2>1 DEF bs_read_ue, r, z
<1>8. Number(data, i + n, n + 1) = 2^n + Number(data, j, n)
  <2> DEFINE h == i + n
  <2>1. h \in Nat /\ h < L /\ h + 1 = j /\ h + 1 + n <= L /\ 1 + n = n + 1 /\ 1 \in Nat
        /\ h + 1 <= L
    BY <1>1, <1>2, <1>4 DEF j
  <2> HIDE DEF h
  <2>2. Number(data, h, 1 + n) = Number(data, h, 1) * 2^n + Number(data, h + 1, n)
    BY <1>4, <2>1, NumberJoin DEF L
  <2>3. Number(data, h, 1) = 1
    <3>1. Bit(data, h) = 1
      BY <1>2, <1>4 DEF h
    <3>2. /\ Number(data, h, 0) = 0
          /\ 1 > 0 => Number(data, h, 1) = 2 * Number(data, h, 1 - 1) + Bit(data, h + 1 - 1)
      BY <2>1, NumberStep DEF L
    <3>3. 1 - 1 = 0 /\ h + 1 - 1 = h /\ 1 > 0
      BY <2>1
    <3>4. Number(data, h, 1) = 2 * 0 + 1
      BY <3>1, <3>2, <3>3
    <3> QED
      BY <3>4
  <2>4. 1 * 2^n = 2^n
    <3>1. 2^n \in Nat
      BY <1>4, Powers
    <3> QED
      BY <3>1
  <2> QED
    BY <2>1, <2>2, <2>3, <2>4 DEF h
<1>9. Code(data, i) = Number(data, i + n, n + 1) - 1
  BY DEF Code, n
<1>10. (2^n) - 1 + r.val = Code(data, i) /\ Code(data, i) \in Nat
  <2> DEFINE x == 2^n
             y == Number(data, j, n)
             c == Number(data, i + n, n + 1)
  <2>1. x \in Nat /\ x > 0
    BY <1>4, Powers
  <2>2. y \in Nat
    BY <1>2, <1>4, NumberStep DEF L
  <2>3. c = x + y /\ r.val = y
    BY <1>6, <1>8
  <2> HIDE DEF x, y, c
  <2>4. x - 1 + r.val = c - 1 /\ c - 1 \in Nat
    BY <2>1, <2>2, <2>3
  <2> QED
    BY <1>9, <2>4 DEF x, c
<1> QED
  BY <1>1, <1>3, <1>4, <1>6, <1>7, <1>10 DEF L
-----------------------------------------------------------------------------
\* The table of the picture types, and the types that are none.
LEMMA TypeNames ==
  /\ \A v \in Nat : SliceType(v) = IF v < 10 THEN Pictures[(v % 5) + 1] ELSE "none"
  /\ \A t \in Nat : OtherType(t) \notin ToSet(Pictures)
<1>1. ASSUME NEW v \in Nat
      PROVE  SliceType(v) = IF v < 10 THEN Pictures[(v % 5) + 1] ELSE "none"
  <2>1. /\ Pictures[1] = "FRAME_P" /\ Pictures[2] = "FRAME_B" /\ Pictures[3] = "FRAME_I"
        /\ Pictures[4] = "FRAME_P" /\ Pictures[5] = "FRAME_I"
    BY DEF Pictures
  <2>2. CASE v >= 10
    <3>1. v \notin {0, 3, 5, 8} /\ v \notin {1, 6} /\ v \notin {2, 4, 7, 9} /\ ~(v < 10)
      BY <2>2
    <3> QED
      BY <3>1 DEF SliceType
  <2>3. CASE v \in {0, 5}
    <3>1. v \in {0, 3, 5, 8} /\ v < 10 /\ (v % 5) + 1 = 1
      BY <2>3
    <3> QED
      BY <2>1, <3>1 DEF SliceType
  <2>4. CASE v \in {1, 6}
    <3>1. v \notin {0, 3, 5, 8} /\ v \in {1, 6} /\ v < 10 /\ (v % 5) + 1 = 2
      BY <2>4
    <3> QED
      BY <2>1, <3>1 DEF SliceType
  <2>5. CASE v \in {2, 7}
    <3>1. /\ v \notin {0, 3, 5, 8} /\ v \notin {1, 6} /\ v \in {2, 4, 7, 9} /\ v < 10
          /\ (v % 5) + 1 = 3
      BY <2>5
    <3> QED
      BY <2>1, <3>1 DEF SliceType
  <2>6. CASE v \in {3, 8}
    <3>1. v \in {0, 3, 5, 8} /\ v < 10 /\ (v % 5) + 1 = 4
      BY <2>6
    <3> QED
      BY <2>1, <3>1 DEF SliceType
  <2>7. CASE v \in {4, 9}
    <3>1. /\ v \notin {0, 3, 5, 8} /\ v \notin {1, 6} /\ v \in {2, 4, 7, 9} /\ v < 10
          /\ (v % 5) + 1 = 5
      BY <2>7
    <3> QED
      BY <2>1, <3>1 DEF SliceType
  <2>8. v >= 10 \/ v \in {0, 5} \/ v \in {1, 6} \/ v \in {2, 7} \/ v \in {3, 8} \/ v \in {4, 9}
    OBVIOUS
  <2> QED
    BY <2>2, <2>3, <2>4, <2>5, <2>6, <2>7, <2>8
<1>2. ASSUME NEW t \in Nat PROVE OtherType(t) \notin ToSet(Pictures)
  <2>1. ToSet(Pictures) \subseteq {"FRAME_P", "FRAME_B", "FRAME_I"}
    <3>1. DOMAIN Pictures = 1..5
      BY DEF Pictures
    <3>2. \A k \in 1..5 : Pictures[k] \in {"FRAME_P", "FRAME_B", "FRAME_I"}
      <4>1. \A k \in 1..5 : k = 1 \/ k = 2 \/ k = 3 \/ k = 4 \/ k = 5
        OBVIOUS
      <4> QED
        BY <4>1 DEF Pictures
    <3> QED
      BY <3>1, <3>2 DEF ToSet
  <2>2. OtherType(t) \in {"NAL_SEI", "NAL_SPS", "NAL_PPS", "none"}
    BY DEF OtherType
  <2> QED
    BY <2>1, <2>2
<1> QED
  BY <1>1, <1>2

\* GetFrameType takes the type of a slice from the second code of its header.
LEMMA ReadsType ==
  ASSUME NEW data \in Seq(Byte), Readable(data, 0), Readable(data, CodeEnd(data, 0)),
         NEW type \in SliceHeaderTypes(data)
  PROVE  LET v == Code(data, CodeEnd(data, 0))
         IN  type = IF v < 10 THEN Pictures[(v % 5) + 1] ELSE "none"
<1> DEFINE s == bs_init(data)
           r == bs_read_ue(s)
           e == CodeEnd(data, 0)
           q == bs_read_ue(r.bs)
           v == Code(data, e)
<1>1. ReadsAt(s, data, 0)
  <2>1. s.data = data /\ s.p = 1 /\ s.i_left = 8 /\ s \in Bs
    <3>1. 1 \in Nat /\ 8 \in 1..8
      OBVIOUS
    <3> QED
      BY <3>1 DEF bs_init, Bs
  <2>2. 8 * 1 - 8 = 0 /\ 1 >= 1
    OBVIOUS
  <2> HIDE DEF s
  <2> QED
    BY <2>1, <2>2 DEF ReadsAt, Pos
<1>2. 0 \in Nat /\ 0 <= 8 * Len(data)
  <2>1. Len(data) \in Nat
    OBVIOUS
  <2> QED
    BY <2>1
<1> HIDE DEF s
<1>3. r.defined /\ ReadsAt(r.bs, data, e) /\ e \in Nat /\ e <= 8 * Len(data)
  BY <1>1, <1>2, ReadsCode
<1> HIDE DEF r, e
<1>4. q.defined /\ q.val = v /\ v \in Nat
  <2>1. Readable(data, e)
    BY DEF e
  <2> QED
    BY <1>3, <2>1, ReadsCode
<1> HIDE DEF q, v
<1>5. SliceHeaderTypes(data) = {SliceType(v)}
  BY <1>3, <1>4 DEF SliceHeaderTypes, s, r, q
<1>6. type = IF v < 10 THEN Pictures[(v % 5) + 1] ELSE "none"
  BY <1>4, <1>5, TypeNames
<1> QED
  BY <1>6 DEF v, e

\* The unit that a call returns has the type that GetFrameType found.
LEMMA UnitTypeExact ==
  ASSUME NEW code \in {StartCode2, StartCode3}, NEW nal \in Seq(Byte),
         NEW type \in GetFrameType(nal),
         NEW u, u.bytes = code \o nal, u.type = type
  PROVE  SliceTypeExact(u)
<1> DEFINE n == SubSeq(u.bytes, IF u.bytes[3] = 1 THEN 4 ELSE 5, Len(u.bytes))
           c == Len(code)
           all == code \o nal
<1>1. c \in {3, 4} /\ code \in Seq(Byte) /\ (c = 3 => code[3] = 1) /\ (c = 4 => code[3] = 0)
  <2>1. CASE code = StartCode2
    <3>1. code = <<0, 0, 1>>
      BY <2>1 DEF StartCode2
    <3>2. code \in Seq(Byte) /\ Len(code) = 3 /\ code[3] = 1
      BY <3>1 DEF Byte
    <3> QED
      BY <3>2
  <2>2. CASE code = StartCode3
    <3>1. code = <<0, 0, 0, 1>>
      BY <2>2 DEF StartCode3
    <3>2. code \in Seq(Byte) /\ Len(code) = 4 /\ code[3] = 0
      BY <3>1 DEF Byte
    <3> QED
      BY <3>2
  <2> QED
    BY <2>1, <2>2
<1>2. Len(nal) \in Nat
  OBVIOUS
<1>3. n = nal
  <2> HIDE DEF c, all
  <2>1. /\ all \in Seq(Byte) /\ Len(all) = c + Len(nal) /\ all[3] = code[3]
        /\ \A k \in 1..Len(nal) : all[c + k] = nal[k]
    <3>1. /\ all \in Seq(Byte) /\ Len(all) = c + Len(nal)
          /\ \A k \in 1..(c + Len(nal)) : all[k] = IF k <= c THEN code[k] ELSE nal[k - c]
      BY <1>1, ConcatProperties DEF c, all
    <3>2. 3 \in 1..(c + Len(nal)) /\ 3 <= c
      BY <1>1, <1>2
    <3>3. ASSUME NEW k \in 1..Len(nal) PROVE all[c + k] = nal[k]
      <4>1. c + k \in 1..(c + Len(nal)) /\ ~(c + k <= c) /\ (c + k) - c = k
        BY <1>1, <1>2
      <4> QED
        BY <3>1, <4>1
    <3> QED
      BY <3>1, <3>2, <3>3
  <2>2. n = SubSeq(all, c + 1, c + Len(nal))
    <3>1. u.bytes = all
      BY DEF all
    <3>2. (IF all[3] = 1 THEN 4 ELSE 5) = c + 1
      BY <1>1, <2>1
    <3> QED
      BY <2>1, <3>1, <3>2
  <2> DEFINE t == SubSeq(all, c + 1, c + Len(nal))
             h == c + Len(nal)
  <2>3. c \in Nat /\ h \in Nat /\ c <= h /\ h <= Len(all) /\ h - c = Len(nal)
    BY <1>1, <1>2, <2>1
  <2>4. t \in Seq(Byte) /\ Len(t) = Len(nal) /\ \A k \in 1..Len(nal) : t[k] = all[c + k]
    <3> HIDE DEF h
    <3>1. /\ SubSeq(all, c + 1, h) \in Seq(Byte)
          /\ Len(SubSeq(all, c + 1, h)) = h - c
          /\ \A k \in 1..(h - c) : SubSeq(all, c + 1, h)[k] = all[c + k]
      <4>1. \A k \in (c + 1)..h : all[k] \in Byte
        <5>1. \A k \in (c + 1)..h : k \in 1..Len(all)
          BY <2>1, <2>3
        <5> QED
          BY <2>1, <5>1, ElementOfSeq
      <4>2. /\ SubSeq(all, c + 1, h) \in Seq(Byte)
            /\ Len(SubSeq(all, c + 1, h)) = IF c + 1 <= h THEN h - (c + 1) + 1 ELSE 0
            /\ \A k \in 1..(h - (c + 1) + 1) : SubSeq(all, c + 1, h)[k] = all[(c + 1) + k - 1]
        BY <2>3, <4>1, SubSeqProperties
      <4> QED
        BY <2>3, <4>2
    <3>2. t = SubSeq(all, c + 1, h)
      BY DEF h
    <3> HIDE DEF t
    <3> QED
      BY <2>3, <3>1, <3>2
  <2> HIDE DEF t
  <2>5. t = nal
    BY <2>1, <2>4, SeqEqual
  <2> QED
    BY <2>2, <2>5 DEF t
<1> HIDE DEF n
<1>4. CASE nal = <<>>
  <2>1. type = OtherType(0)
    BY <1>4 DEF GetFrameType, NalUnitType, Slices
  <2>2. type \notin ToSet(Pictures)
    BY <2>1, TypeNames
  <2> QED
    BY <1>3, <1>4, <2>2 DEF SliceTypeExact, n
<1>5. CASE nal # <<>>
  <2> DEFINE t == nal[1] % 32
  <2>1. t \in Nat /\ NalUnitType(nal) = t /\ Tail(nal) \in Seq(Byte)
    <3>1. nal[1] \in Byte
      BY <1>2, <1>5, ElementOfSeq
    <3>2. nal[1] \in Nat
      BY <3>1, ByteNat
    <3>3. \A x \in Nat : x % 32 \in Nat
      OBVIOUS
    <3> QED
      BY <1>5, <3>2, <3>3 DEF NalUnitType
  <2> HIDE DEF t
  <2>2. CASE t \notin {1, 5}
    <3>1. type = OtherType(t)
      BY <2>1, <2>2 DEF GetFrameType, Slices
    <3>2. u.type \notin ToSet(Pictures)
      BY <2>1, <3>1, TypeNames
    <3> QED
      BY <1>3, <1>5, <2>2, <3>2 DEF SliceTypeExact, n, t
  <2>3. CASE t \in {1, 5}
    <3> DEFINE data == Tail(nal)
               e == CodeEnd(data, 0)
               v == Code(data, e)
    <3>1. type \in SliceHeaderTypes(data)
      BY <2>1, <2>3 DEF GetFrameType, Slices
    <3>2. ASSUME Readable(data, 0), Readable(data, e)
          PROVE  u.type = IF v < 10 THEN Pictures[(v % 5) + 1] ELSE "none"
      <4> HIDE DEF data
      <4>1. data \in Seq(Byte)
        BY <2>1 DEF data
      <4> QED
        BY <3>1, <3>2, <4>1, ReadsType
    <3> QED
      BY <1>3, <1>5, <2>3, <3>2, Zenon DEF SliceTypeExact, n, t
  <2> QED
    BY <2>2, <2>3
<1> QED
  BY <1>4, <1>5
=============================================================================
