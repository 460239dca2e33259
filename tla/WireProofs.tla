----------------------------- MODULE WireProofs -----------------------------
(***************************************************************************)
(* Theorems about the bytes of module Wire for every clock and for every   *)
(* file PES2TS can write: a receiver finds in a packet what was meant.     *)
(*                                                                         *)
(* First the checksum of module Crc, which is right for every sequence of  *)
(* bytes: the division of a section with its checksum leaves no remainder. *)
(* Nothing is used of the polynomial but that it is a word: what the       *)
(* table-driven computation of crc.h relies on is that the division is     *)
(* linear.                                                                 *)
(***************************************************************************)
EXTENDS Wire, Pes2TsProofs, Induction

Bit  == {0, 1}
Zero == [k \in 1..32 |-> 0]

\* The word a moved by n, bit for bit.
Shifted(a, n) == [k \in 1..32 |-> IF k + n <= 32 THEN a[k + n] ELSE 0]
-----------------------------------------------------------------------------
\* The powers of two that are used are positive numbers.
LEMMA Powers ==
  ASSUME NEW e \in 0..23
  PROVE  2^e \in Nat /\ 2^e > 0
<1>1. /\ 2^0 = 1 /\ 2^1 = 2 /\ 2^2 = 4 /\ 2^3 = 8 /\ 2^4 = 16 /\ 2^5 = 32
      /\ 2^6 = 64 /\ 2^7 = 128 /\ 2^8 = 256 /\ 2^9 = 512 /\ 2^10 = 1024 /\ 2^11 = 2048
  BY SMT
<1>2. /\ 2^12 = 4096 /\ 2^13 = 8192 /\ 2^14 = 16384 /\ 2^15 = 32768 /\ 2^16 = 65536
      /\ 2^17 = 131072 /\ 2^18 = 262144 /\ 2^19 = 524288 /\ 2^20 = 1048576
      /\ 2^21 = 2097152 /\ 2^22 = 4194304 /\ 2^23 = 8388608
  BY SMT
<1> DEFINE f == [x \in 0..23 |-> 2^x]
<1>3. /\ f[0] = 1 /\ f[1] = 2 /\ f[2] = 4 /\ f[3] = 8 /\ f[4] = 16 /\ f[5] = 32
      /\ f[6] = 64 /\ f[7] = 128 /\ f[8] = 256 /\ f[9] = 512 /\ f[10] = 1024 /\ f[11] = 2048
  BY <1>1, SMT
<1>4. /\ f[12] = 4096 /\ f[13] = 8192 /\ f[14] = 16384 /\ f[15] = 32768 /\ f[16] = 65536
      /\ f[17] = 131072 /\ f[18] = 262144 /\ f[19] = 524288 /\ f[20] = 1048576
      /\ f[21] = 2097152 /\ f[22] = 4194304 /\ f[23] = 8388608
  BY <1>2, SMT
<1>5. f[e] = 2^e
  OBVIOUS
<1>6. e \in {0, 1, 2, 3, 4, 5, 6, 7, 8, 9, 10, 11, 12, 13, 14, 15, 16, 17, 18, 19, 20,
            21, 22, 23}
  OBVIOUS
<1> HIDE DEF f
<1>7. f[e] \in Nat /\ f[e] > 0
  BY <1>3, <1>4, <1>6, SMT
<1> QED
  BY <1>5, <1>7, SMT

\* A function on 1..n is a sequence of length n.
LEMMA FunctionIsSeq ==
  ASSUME NEW S, NEW n \in Nat, NEW a, a \in [1..n -> S]
  PROVE  a \in Seq(S) /\ Len(a) = n
OBVIOUS

\* A sequence of length n is a function on 1..n.
LEMMA SeqIsFunction ==
  ASSUME NEW S, NEW n \in Nat, NEW a \in Seq(S), Len(a) = n
  PROVE  a \in [1..n -> S]
BY LenProperties

\* The bits of a number.
LEMMA BitsTyped ==
  ASSUME NEW n \in Nat, NEW width \in 1..24
  PROVE  /\ Bits(n, width) \in [1..width -> Bit]
         /\ Bits(n, width) \in Seq(Bit)
         /\ Len(Bits(n, width)) = width
<1>1. ASSUME NEW k \in 1..width PROVE (n \div 2^(width - k)) % 2 \in Bit
  <2> DEFINE d == 2^(width - k)
  <2>1. width - k \in 0..23
    OBVIOUS
  <2>2. d \in Nat /\ d > 0
    BY <2>1, Powers
  <2> HIDE DEF d
  <2>3. n \div d \in Nat
    BY <2>2, SMT
  <2>4. (n \div d) % 2 \in Bit
    BY <2>3, SMT DEF Bit
  <2> QED
    BY <2>4 DEF d
<1>2. Bits(n, width) \in [1..width -> Bit]
  BY <1>1, Zenon DEF Bits
<1> DEFINE b == Bits(n, width)
<1> HIDE DEF b
<1>3. b \in [1..width -> Bit]
  BY <1>2 DEF b
<1>4. b \in Seq(Bit) /\ Len(b) = width
  BY <1>3
<1> QED
  BY <1>2, <1>4 DEF b

\* Moving a word.
LEMMA ShiftIsShifted ==
  ASSUME NEW a \in Word, NEW n \in 0..32
  PROVE  ShiftLeft(a, n) = Shifted(a, n) /\ ShiftLeft(a, n) \in Word
<1> DEFINE s == SubSeq(a, n + 1, Len(a))
           z == [k \in 1..n |-> 0]
<1>1. a \in Seq(Bit) /\ Len(a) = 32
  BY FunctionIsSeq DEF Word, Bit
<1>2. s \in Seq(Bit) /\ Len(s) = 32 - n /\ \A k \in 1..(32 - n) : s[k] = a[k + n]
  <2>1. n + 1 \in Int /\ 32 \in Int
    OBVIOUS
  <2>2. \A i \in (n + 1)..32 : a[i] \in Bit
    <3> SUFFICES ASSUME NEW i \in (n + 1)..32 PROVE a[i] \in Bit
      OBVIOUS
    <3>1. i \in 1..Len(a)
      BY <1>1
    <3> QED
      BY <1>1, <3>1, ElementOfSeq
  <2> DEFINE r == SubSeq(a, n + 1, 32)
  <2>3. s = r
    BY <1>1
  <2>4. /\ r \in Seq(Bit)
        /\ Len(r) = IF n + 1 <= 32 THEN 32 - (n + 1) + 1 ELSE 0
        /\ \A i \in 1..(32 - (n + 1) + 1) : r[i] = a[n + 1 + i - 1]
    BY <2>1, <2>2, SubSeqProperties
  <2> HIDE DEF r, s
  <2>5. Len(r) = 32 - n /\ \A k \in 1..(32 - n) : r[k] = a[k + n]
    BY <2>4
  <2> QED
    BY <2>3, <2>4, <2>5
<1>3. z \in Seq(Bit) /\ Len(z) = n /\ \A k \in 1..n : z[k] = 0
  BY DEF Bit
<1>4. ShiftLeft(a, n) = s \o z
  BY DEF ShiftLeft
<1> HIDE DEF s, z
<1> DEFINE r == s \o z
<1>5. /\ r \in Seq(Bit) /\ Len(r) = Len(s) + Len(z)
      /\ \A k \in 1..Len(s) : r[k] = s[k]
      /\ \A k \in 1..Len(z) : r[Len(s) + k] = z[k]
  BY <1>2, <1>3, ConcatProperties
<1> HIDE DEF r
<1>6. r \in [1..32 -> Bit]
  <2>1. Len(r) = 32 /\ 32 \in Nat /\ r \in Seq(Bit)
    BY <1>2, <1>3, <1>5
  <2> QED
    BY <2>1, SeqIsFunction, Zenon
<1>7. ASSUME NEW k \in 1..32 PROVE r[k] = IF k + n <= 32 THEN a[k + n] ELSE 0
  <2>1. CASE k + n <= 32
    BY <1>2, <1>5, <2>1
  <2>2. CASE ~(k + n <= 32)
    <3>1. k - (32 - n) \in 1..n
      BY <2>2
    <3> QED
      <4>1. (32 - n) + (k - (32 - n)) = k
        OBVIOUS
      <4>2. r[(32 - n) + (k - (32 - n))] = z[k - (32 - n)]
        BY <1>2, <1>3, <1>5, <3>1
      <4> QED
        BY <1>3, <2>2, <3>1, <4>1, <4>2
  <2> QED
    BY <2>1, <2>2
<1>8. r = Shifted(a, n)
  BY <1>6, <1>7 DEF Shifted
<1> QED
  BY <1>4, <1>6, <1>8 DEF r, Word, Bit
-----------------------------------------------------------------------------
\* Addition of bits.
LEMMA BitSum ==
  /\ \A x, y \in Bit : (x + y) % 2 \in Bit /\ (x + y) % 2 = (y + x) % 2
  /\ \A x \in Bit : (x + x) % 2 = 0 /\ (x + 0) % 2 = x /\ (0 + x) % 2 = x
  /\ \A x, y \in Bit : (x + y) % 2 = 0 <=> x = y
  /\ \A x, y, z \in Bit : (((x + y) % 2) + z) % 2 = (x + ((y + z) % 2)) % 2
BY SMT DEF Bit

\* Two words are equal if their bits are.
LEMMA WordEqual ==
  ASSUME NEW a \in Word, NEW b \in Word, \A k \in 1..32 : a[k] = b[k]
  PROVE  a = b
BY DEF Word

\* A bit of a word.
LEMMA BitOf ==
  ASSUME NEW a \in Word, NEW k \in 1..32
  PROVE  a[k] \in Bit
BY DEF Word, Bit

\* The word of zeros.
LEMMA ZeroWord == Zero \in Word /\ \A k \in 1..32 : Zero[k] = 0
BY DEF Zero, Word

\* The sum of two words, bit for bit.
LEMMA XorBits ==
  ASSUME NEW a \in Word, NEW b \in Word
  PROVE  /\ Xor(a, b) \in Word
         /\ \A k \in 1..32 : Xor(a, b)[k] = (a[k] + b[k]) % 2
<1>1. Xor(a, b) = [k \in 1..32 |-> (a[k] + b[k]) % 2]
  BY DEF Xor, Word
<1>2. \A k \in 1..32 : (a[k] + b[k]) % 2 \in Bit
  BY BitOf, BitSum
<1> QED
  BY <1>1, <1>2 DEF Word, Bit

\* A word moved by n, bit for bit.
LEMMA ShiftBits ==
  ASSUME NEW a \in Word, NEW n \in 0..32
  PROVE  /\ ShiftLeft(a, n) \in Word
         /\ \A k \in 1..32 : ShiftLeft(a, n)[k] = IF k + n <= 32 THEN a[k + n] ELSE 0
BY ShiftIsShifted DEF Shifted

\* The sum is commutative and associative, with Zero, and a word is its own inverse.
LEMMA XorAlgebra ==
  ASSUME NEW a \in Word, NEW b \in Word, NEW c \in Word
  PROVE  /\ Xor(a, b) = Xor(b, a)
         /\ Xor(Xor(a, b), c) = Xor(a, Xor(b, c))
         /\ Xor(a, Zero) = a
         /\ Xor(a, a) = Zero
<1>1. Xor(a, b) = Xor(b, a)
  <2>1. ASSUME NEW k \in 1..32 PROVE Xor(a, b)[k] = Xor(b, a)[k]
    <3>1. a[k] \in Bit /\ b[k] \in Bit
      BY BitOf
    <3>2. Xor(a, b)[k] = (a[k] + b[k]) % 2 /\ Xor(b, a)[k] = (b[k] + a[k]) % 2
      BY XorBits
    <3> QED
      BY <3>1, <3>2, BitSum
  <2> QED
    BY <2>1, XorBits, WordEqual
<1>2. Xor(Xor(a, b), c) = Xor(a, Xor(b, c))
  <2>1. Xor(a, b) \in Word /\ Xor(b, c) \in Word
    BY XorBits
  <2>2. ASSUME NEW k \in 1..32 PROVE Xor(Xor(a, b), c)[k] = Xor(a, Xor(b, c))[k]
    <3>1. /\ Xor(Xor(a, b), c)[k] = (Xor(a, b)[k] + c[k]) % 2
          /\ Xor(a, Xor(b, c))[k] = (a[k] + Xor(b, c)[k]) % 2
          /\ Xor(a, b)[k] = (a[k] + b[k]) % 2 /\ Xor(b, c)[k] = (b[k] + c[k]) % 2
      BY <2>1, XorBits
    <3>2. a[k] \in Bit /\ b[k] \in Bit /\ c[k] \in Bit
      BY BitOf
    <3> QED
      BY <3>1, <3>2, BitSum
  <2>3. Xor(Xor(a, b), c) \in Word /\ Xor(a, Xor(b, c)) \in Word
    BY <2>1, XorBits
  <2> QED
    BY <2>2, <2>3, WordEqual
<1>3. Xor(a, Zero) = a
  <2>1. ASSUME NEW k \in 1..32 PROVE Xor(a, Zero)[k] = a[k]
    <3>1. a[k] \in Bit
      BY BitOf
    <3>2. Xor(a, Zero)[k] = (a[k] + 0) % 2
      BY ZeroWord, XorBits
    <3> QED
      BY <3>1, <3>2, BitSum
  <2> QED
    BY <2>1, ZeroWord, XorBits, WordEqual
<1>4. Xor(a, a) = Zero
  <2>1. ASSUME NEW k \in 1..32 PROVE Xor(a, a)[k] = Zero[k]
    <3>1. a[k] \in Bit /\ Zero[k] = 0
      BY BitOf, ZeroWord
    <3>2. Xor(a, a)[k] = (a[k] + a[k]) % 2
      BY XorBits
    <3> QED
      BY <3>1, <3>2, BitSum
  <2> QED
    BY <2>1, ZeroWord, XorBits, WordEqual
<1> QED
  BY <1>1, <1>2, <1>3, <1>4

\* Moving is linear, and adds up.
LEMMA ShiftAlgebra ==
  ASSUME NEW a \in Word, NEW b \in Word, NEW n \in 0..32
  PROVE  /\ ShiftLeft(Xor(a, b), n) = Xor(ShiftLeft(a, n), ShiftLeft(b, n))
         /\ ShiftLeft(a, 0) = a
         /\ ShiftLeft(a, 32) = Zero
<1>1. ShiftLeft(Xor(a, b), n) = Xor(ShiftLeft(a, n), ShiftLeft(b, n))
  <2> DEFINE x == Xor(a, b)
             s == ShiftLeft(a, n)
             t == ShiftLeft(b, n)
  <2>1. /\ x \in Word /\ s \in Word /\ t \in Word
        /\ \A k \in 1..32 : x[k] = (a[k] + b[k]) % 2
        /\ \A k \in 1..32 : s[k] = IF k + n <= 32 THEN a[k + n] ELSE 0
        /\ \A k \in 1..32 : t[k] = IF k + n <= 32 THEN b[k + n] ELSE 0
    BY XorBits, ShiftBits
  <2> HIDE DEF x, s, t
  <2>2. /\ ShiftLeft(x, n) \in Word /\ Xor(s, t) \in Word
        /\ \A k \in 1..32 : ShiftLeft(x, n)[k] = IF k + n <= 32 THEN x[k + n] ELSE 0
        /\ \A k \in 1..32 : Xor(s, t)[k] = (s[k] + t[k]) % 2
    BY <2>1, XorBits, ShiftBits
  <2>3. ASSUME NEW k \in 1..32 PROVE ShiftLeft(x, n)[k] = Xor(s, t)[k]
    <3>1. CASE k + n <= 32
      BY <2>1, <2>2, <3>1, SMTT(30)
    <3>2. CASE ~(k + n <= 32)
      BY <2>1, <2>2, <3>2
    <3> QED
      BY <3>1, <3>2
  <2>4. ShiftLeft(x, n) = Xor(s, t)
    BY <2>2, <2>3, WordEqual
  <2> QED
    BY <2>4 DEF x, s, t
<1>2. ShiftLeft(a, 0) = a
  <2>1. ShiftLeft(a, 0) \in Word /\ \A k \in 1..32 : ShiftLeft(a, 0)[k] = a[k]
    BY ShiftBits
  <2> QED
    BY <2>1, WordEqual
<1>3. ShiftLeft(a, 32) = Zero
  <2>1. ShiftLeft(a, 32) \in Word /\ \A k \in 1..32 : ShiftLeft(a, 32)[k] = Zero[k]
    BY ShiftBits, ZeroWord
  <2> QED
    BY <2>1, ZeroWord, WordEqual
<1> QED
  BY <1>1, <1>2, <1>3

\* Two moves to the left make one.
LEMMA ShiftTwice ==
  ASSUME NEW a \in Word, NEW m \in 0..32, NEW n \in 0..32, m + n <= 32
  PROVE  ShiftLeft(ShiftLeft(a, m), n) = ShiftLeft(a, m + n)
<1> DEFINE s == ShiftLeft(a, m)
           t == ShiftLeft(a, m + n)
<1>1. /\ s \in Word /\ t \in Word
      /\ \A k \in 1..32 : s[k] = IF k + m <= 32 THEN a[k + m] ELSE 0
      /\ \A k \in 1..32 : t[k] = IF k + (m + n) <= 32 THEN a[k + (m + n)] ELSE 0
  <2>1. m + n \in 0..32
    OBVIOUS
  <2> QED
    BY <2>1, ShiftBits
<1> HIDE DEF s, t
<1>2. /\ ShiftLeft(s, n) \in Word
      /\ \A k \in 1..32 : ShiftLeft(s, n)[k] = IF k + n <= 32 THEN s[k + n] ELSE 0
  BY <1>1, ShiftBits
<1>3. ASSUME NEW k \in 1..32 PROVE ShiftLeft(s, n)[k] = t[k]
  <2>1. CASE k + n <= 32
    <3>1. k + n \in 1..32 /\ (k + n) + m = k + (m + n)
      BY <2>1
    <3>2. s[k + n] = IF (k + n) + m <= 32 THEN a[(k + n) + m] ELSE 0
      BY <1>1, <3>1
    <3>3. t[k] = IF k + (m + n) <= 32 THEN a[k + (m + n)] ELSE 0
      BY <1>1
    <3>4. ShiftLeft(s, n)[k] = s[k + n]
      BY <1>2, <2>1
    <3> QED
      BY <3>1, <3>2, <3>3, <3>4, Zenon
  <2>2. CASE ~(k + n <= 32)
    BY <1>1, <1>2, <2>2
  <2> QED
    BY <2>1, <2>2
<1>4. ShiftLeft(s, n) = t
  BY <1>1, <1>2, <1>3, WordEqual
<1> QED
  BY <1>4 DEF s, t
-----------------------------------------------------------------------------
\* The polynomial is a word.
LEMMA PolynomialWord == Polynomial \in Word
<1> DEFINE s == Bits(1217, 16)
           t == Bits(7607, 16)
           r == s \o t
<1>1. s \in Seq(Bit) /\ Len(s) = 16 /\ t \in Seq(Bit) /\ Len(t) = 16
  BY BitsTyped
<1> HIDE DEF s, t
<1>2. r \in Seq(Bit) /\ Len(r) = 32 /\ 32 \in Nat
  <2>1. \A u, v \in Seq(Bit) : u \o v \in Seq(Bit) /\ Len(u \o v) = Len(u) + Len(v)
    BY ConcatProperties
  <2>2. r \in Seq(Bit) /\ Len(r) = Len(s) + Len(t)
    BY <1>1, <2>1, Zenon
  <2> HIDE DEF r
  <2> QED
    BY <1>1, <2>2
<1>3. Polynomial = r
  BY DEF Polynomial, s, t
<1> HIDE DEF r
<1>4. r \in [1..32 -> Bit]
  BY <1>2, SeqIsFunction, Zenon
<1> QED
  BY <1>3, <1>4 DEF Word, Bit

\* What a step of the division adds to the moved word.
Gate(x) == IF x = 1 THEN Polynomial ELSE Zero

\* A step of the division moves the word and adds the polynomial or nothing.
LEMMA DivideBitSum ==
  ASSUME NEW a \in Word, NEW x \in Bit
  PROVE  /\ Gate((a[1] + x) % 2) \in Word
         /\ DivideBit(a, x) = Xor(ShiftLeft(a, 1), Gate((a[1] + x) % 2))
         /\ DivideBit(a, x) \in Word
<1>1. a[1] \in Bit /\ ShiftLeft(a, 1) \in Word
  BY BitOf, ShiftBits
<1>2. Gate((a[1] + x) % 2) \in Word
  BY PolynomialWord, ZeroWord DEF Gate
<1>3. DivideBit(a, x) = Xor(ShiftLeft(a, 1), Gate((a[1] + x) % 2))
  <2>1. CASE a[1] = x
    <3>1. (a[1] + x) % 2 = 0
      BY <1>1, <2>1, BitSum
    <3>2. Gate((a[1] + x) % 2) = Zero
      BY <3>1 DEF Gate
    <3> QED
      BY <1>1, <2>1, <3>2, XorAlgebra DEF DivideBit
  <2>2. CASE a[1] # x
    <3>1. (a[1] + x) % 2 = 1
      <4>1. (a[1] + x) % 2 \in Bit /\ (a[1] + x) % 2 # 0
        BY <1>1, <2>2, BitSum
      <4> QED
        BY <4>1 DEF Bit
    <3>2. Gate((a[1] + x) % 2) = Polynomial
      BY <3>1 DEF Gate
    <3> QED
      BY <2>2, <3>2 DEF DivideBit
  <2> QED
    BY <2>1, <2>2
<1> QED
  BY <1>1, <1>2, <1>3, XorBits

\* Divide is a step with no bit to add.
LEMMA DivideIsStep ==
  ASSUME NEW a \in Word
  PROVE  Divide(a) = DivideBit(a, 0) /\ Divide(a) \in Word
<1>1. a[1] \in Bit /\ 0 \in Bit
  BY BitOf DEF Bit
<1>2. a[1] = 0 \/ a[1] = 1
  BY <1>1 DEF Bit
<1>3. Divide(a) = DivideBit(a, 0)
  BY <1>2 DEF Divide, DivideBit
<1> QED
  BY <1>1, <1>3, DivideBitSum

\* The division is linear: the bits that are still to come may as well be
\* added to the register at once.
LEMMA StepLinear ==
  ASSUME NEW w \in Word, NEW y \in Word
  PROVE  Divide(Xor(w, y)) = Xor(DivideBit(w, y[1]), ShiftLeft(y, 1))
<1> DEFINE x  == Xor(w, y)
           sw == ShiftLeft(w, 1)
           sy == ShiftLeft(y, 1)
           g  == Gate((w[1] + y[1]) % 2)
<1>1. w[1] \in Bit /\ y[1] \in Bit /\ 0 \in Bit
  BY BitOf DEF Bit
<1>2. x \in Word /\ x[1] = (w[1] + y[1]) % 2
  BY XorBits
<1>3. sw \in Word /\ sy \in Word /\ ShiftLeft(x, 1) = Xor(sw, sy)
  BY ShiftBits, ShiftAlgebra
<1>4. DivideBit(w, y[1]) = Xor(sw, g) /\ g \in Word
  BY <1>1, DivideBitSum
<1>5. Divide(x) = Xor(Xor(sw, sy), g)
  <2>1. Divide(x) = Xor(ShiftLeft(x, 1), Gate((x[1] + 0) % 2))
    BY <1>1, <1>2, DivideIsStep, DivideBitSum
  <2>2. (x[1] + 0) % 2 = x[1]
    BY <1>1, <1>2, BitSum
  <2> QED
    BY <1>2, <1>3, <2>1, <2>2
<1> HIDE DEF x, sw, sy, g
<1>6. Xor(Xor(sw, sy), g) = Xor(Xor(sw, g), sy)
  <2>1. Xor(Xor(sw, sy), g) = Xor(sw, Xor(sy, g))
    BY <1>3, <1>4, XorAlgebra
  <2>2. Xor(Xor(sw, g), sy) = Xor(sw, Xor(g, sy))
    BY <1>3, <1>4, XorAlgebra
  <2>3. Xor(sy, g) = Xor(g, sy)
    BY <1>3, <1>4, XorAlgebra
  <2> QED
    BY <2>1, <2>2, <2>3
<1> QED
  BY <1>4, <1>5, <1>6 DEF x, sy
-----------------------------------------------------------------------------
\* The number of eight bits, as the recursion of Number takes them in.
LEMMA NumberSteps ==
  ASSUME NEW c \in [1..8 -> Bit]
  PROVE  \E f \in [0..8 -> Nat] :
           f[0] = 0 /\ (\A n \in 1..8 : f[n] = (2 * f[n - 1]) + c[n]) /\ Number(c) = f[8]
<1> DEFINE D == [n \in 1..8 |-> [v \in Nat |-> (2 * v) + c[n]]]
<1>1. D \in [1..8 -> [Nat -> Nat]]
  <2>1. ASSUME NEW n \in 1..8, NEW v \in Nat PROVE (2 * v) + c[n] \in Nat
    <3>1. c[n] \in Nat
      BY DEF Bit
    <3> QED
      BY <3>1
  <2> QED
    BY <2>1
<1>2. ASSUME NEW n \in 1..8, NEW v \in Nat PROVE D[n][v] = (2 * v) + c[n]
  OBVIOUS
<1> HIDE DEF D
<1>3. PICK p : Primitive(p, 8, Nat, 0, D)
  BY <1>1, PrimitiveRecursion
<1>4. p = [n \in 0..8 |-> IF n = 0 THEN 0 ELSE (2 * p[n - 1]) + c[n]]
  <2>1. ASSUME NEW n \in 0..8
        PROVE  p[n] = IF n = 0 THEN 0 ELSE (2 * p[n - 1]) + c[n]
    <3>1. CASE n = 0
      BY <1>3, <3>1 DEF Primitive
    <3>2. CASE n # 0
      <4>1. n \in 1..8 /\ n - 1 \in 0..8
        BY <3>2
      <4>2. p[n] = D[n][p[n - 1]] /\ p[n - 1] \in Nat
        BY <1>3, <4>1 DEF Primitive
      <4> QED
        BY <1>2, <3>2, <4>1, <4>2
    <3> QED
      BY <3>1, <3>2
  <2>2. p = [n \in 0..8 |-> p[n]]
    BY <1>3 DEF Primitive
  <2> QED
    BY <2>1, <2>2, Zenon
<1>5. Len(c) = 8
  BY FunctionIsSeq
<1> DEFINE f == CHOOSE g : g = [n \in 0..Len(c) |-> IF n = 0 THEN 0 ELSE (2 * g[n - 1]) + c[n]]
<1>6. f = [n \in 0..8 |-> IF n = 0 THEN 0 ELSE (2 * f[n - 1]) + c[n]]
  BY <1>4, <1>5, Zenon
<1>7. Number(c) = f[8]
  BY <1>5, Zenon DEF Number
<1> HIDE DEF f
<1>8. f = [n \in 0..8 |-> f[n]] /\ f[0] = 0
      /\ \A n \in 1..8 : f[n] = (2 * f[n - 1]) + c[n]
  BY <1>6
<1>9. \A n \in 1..8 : f[n - 1] \in Nat => f[n] = D[n][f[n - 1]]
  BY <1>2, <1>8
<1>10. Primitive(f, 8, Nat, 0, D)
  BY <1>1, <1>8, <1>9, PrimitiveTyped
<1> QED
  BY <1>7, <1>8, <1>10 DEF Primitive

Byte == 0..255

\* Dropping the lowest bit of a number, again and again.
IsHalf(q, n, x) == n % 2 = x /\ n \div 2 = q

\* The number that 2 * q + x is the double of, and its lowest bit.
LEMMA Halving ==
  ASSUME NEW q \in Nat, NEW x \in Bit
  PROVE  IsHalf(q, (2 * q) + x, x)
<1>1. x \in Nat /\ x <= 1
  BY DEF Bit
<1>2. ((2 * q) + x) % 2 = x /\ ((2 * q) + x) \div 2 = q
  BY <1>1, SMT
<1> QED
  BY <1>2 DEF IsHalf

\* Halving again and again divides by the powers of two.
LEMMA HalvingAgain ==
  ASSUME NEW n \in Nat
  PROVE  /\ n \div 4 = (n \div 2) \div 2 /\ n \div 8 = (n \div 4) \div 2
         /\ n \div 16 = (n \div 8) \div 2 /\ n \div 32 = (n \div 16) \div 2
         /\ n \div 64 = (n \div 32) \div 2 /\ n \div 128 = (n \div 64) \div 2
BY SMT

\* Eight bits make a byte, and are its bits.
LEMMA NumberBits ==
  ASSUME NEW c \in [1..8 -> Bit]
  PROVE  /\ Number(c) \in Byte
         /\ Bits(Number(c), 8) = c
<1>1. PICK f \in [0..8 -> Nat] :
        f[0] = 0 /\ (\A n \in 1..8 : f[n] = (2 * f[n - 1]) + c[n]) /\ Number(c) = f[8]
  BY NumberSteps
<1>2. /\ f[1] \in Nat /\ f[2] \in Nat /\ f[3] \in Nat /\ f[4] \in Nat
      /\ f[5] \in Nat /\ f[6] \in Nat /\ f[7] \in Nat /\ f[8] \in Nat
  OBVIOUS
<1>3. /\ f[1] = c[1] /\ f[2] = 2 * f[1] + c[2] /\ f[3] = 2 * f[2] + c[3]
      /\ f[4] = 2 * f[3] + c[4] /\ f[5] = 2 * f[4] + c[5] /\ f[6] = 2 * f[5] + c[6]
      /\ f[7] = 2 * f[6] + c[7] /\ f[8] = 2 * f[7] + c[8]
  <2>1. c[1] \in Nat
    BY DEF Bit
  <2> QED
    BY <1>1, <2>1
<1>4. /\ c[1] \in Nat /\ c[1] <= 1 /\ c[2] \in Nat /\ c[2] <= 1
      /\ c[3] \in Nat /\ c[3] <= 1 /\ c[4] \in Nat /\ c[4] <= 1
      /\ c[5] \in Nat /\ c[5] <= 1 /\ c[6] \in Nat /\ c[6] <= 1
      /\ c[7] \in Nat /\ c[7] <= 1 /\ c[8] \in Nat /\ c[8] <= 1
  BY DEF Bit
<1> DEFINE n == Number(c)
<1>5. n = f[8] /\ n \in Nat /\ n <= 255
  BY <1>1, <1>2, <1>3, <1>4
<1> HIDE DEF n
<1>6. ASSUME NEW k \in 1..8 PROVE IsHalf(f[k - 1], f[k], c[k])
  <2>1. f[k] = (2 * f[k - 1]) + c[k]
    BY <1>1
  <2>2. f[k - 1] \in Nat /\ c[k] \in Bit
    OBVIOUS
  <2> QED
    BY <2>1, <2>2, Halving, Zenon
<1>7. \A k \in 1..8 : f[k] % 2 = c[k] /\ f[k] \div 2 = f[k - 1]
  BY <1>6 DEF IsHalf
<1>8. /\ f[8] \div 2 = f[7] /\ f[7] \div 2 = f[6] /\ f[6] \div 2 = f[5]
      /\ f[5] \div 2 = f[4] /\ f[4] \div 2 = f[3] /\ f[3] \div 2 = f[2]
      /\ f[2] \div 2 = f[1]
  BY <1>7
<1>9. /\ n \div 2 = f[7] /\ n \div 4 = f[6] /\ n \div 8 = f[5] /\ n \div 16 = f[4]
      /\ n \div 32 = f[3] /\ n \div 64 = f[2] /\ n \div 128 = f[1]
  BY <1>5, <1>8, HalvingAgain
<1>10. /\ Bits(n, 8)[8] = n % 2 /\ Bits(n, 8)[7] = (n \div 2) % 2
      /\ Bits(n, 8)[6] = (n \div 4) % 2 /\ Bits(n, 8)[5] = (n \div 8) % 2
      /\ Bits(n, 8)[4] = (n \div 16) % 2 /\ Bits(n, 8)[3] = (n \div 32) % 2
      /\ Bits(n, 8)[2] = (n \div 64) % 2 /\ Bits(n, 8)[1] = (n \div 128) % 2
  BY <1>5, SMT DEF Bits
<1>11. ASSUME NEW k \in 1..8 PROVE Bits(n, 8)[k] = c[k]
  <2>1. k \in {1, 2, 3, 4, 5, 6, 7, 8}
    OBVIOUS
  <2> QED
    BY <1>5, <1>7, <1>8, <1>9, <1>10, <2>1
<1>12. Bits(n, 8) \in [1..8 -> Bit]
  BY <1>5, BitsTyped
<1>13. Bits(n, 8) = c
  BY <1>11, <1>12
<1> QED
  BY <1>5, <1>13 DEF n, Byte
-----------------------------------------------------------------------------
\* A byte in front of 24 zeros.
LEMMA ByteInFront ==
  ASSUME NEW i \in Byte
  PROVE  /\ Bits(i, 8) \o Bits(0, 24) \in Word
         /\ \A k \in 1..32 : (Bits(i, 8) \o Bits(0, 24))[k]
                                = IF k <= 8 THEN Bits(i, 8)[k] ELSE 0
<1> DEFINE s == Bits(i, 8)
           z == Bits(0, 24)
           r == s \o z
<1>1. i \in Nat
  BY DEF Byte
<1>2. /\ s \in Seq(Bit) /\ Len(s) = 8 /\ z \in Seq(Bit) /\ Len(z) = 24
  <2>1. 0 \in Nat /\ 8 \in 1..24 /\ 24 \in 1..24
    OBVIOUS
  <2> QED
    BY <1>1, <2>1, BitsTyped, Zenon
<1>3. ASSUME NEW k \in 1..24 PROVE z[k] = 0
  <2> DEFINE d == 2^(24 - k)
  <2>1. 24 - k \in 0..23
    OBVIOUS
  <2>2. d \in Nat /\ d > 0
    BY <2>1, Powers
  <2>3. z[k] = (0 \div d) % 2
    BY Zenon DEF Bits
  <2> HIDE DEF d, z
  <2>4. 0 \div d = 0 /\ 0 % 2 = 0
    BY <2>2, SMT
  <2> QED
    BY <2>3, <2>4
<1> HIDE DEF s, z
<1>4. \A u, v \in Seq(Bit) :
        /\ u \o v \in Seq(Bit) /\ Len(u \o v) = Len(u) + Len(v)
        /\ \A k \in 1..(Len(u) + Len(v)) :
             (u \o v)[k] = IF k <= Len(u) THEN u[k] ELSE v[k - Len(u)]
  BY ConcatProperties
<1>5. /\ r \in Seq(Bit) /\ Len(r) = Len(s) + Len(z)
      /\ \A k \in 1..(Len(s) + Len(z)) :
           r[k] = IF k <= Len(s) THEN s[k] ELSE z[k - Len(s)]
  BY <1>2, <1>4, Zenon
<1> HIDE DEF r
<1>6. Len(r) = 32 /\ 32 \in Nat
  BY <1>2, <1>5
<1>7. r \in [1..32 -> Bit]
  BY <1>5, <1>6, SeqIsFunction, Zenon
<1>8. ASSUME NEW k \in 1..32 PROVE r[k] = IF k <= 8 THEN s[k] ELSE 0
  <2>1. r[k] = IF k <= 8 THEN s[k] ELSE z[k - 8]
    <3>1. k \in 1..(Len(s) + Len(z))
      BY <1>2
    <3>2. r[k] = IF k <= Len(s) THEN s[k] ELSE z[k - Len(s)]
      BY <1>5, <3>1
    <3>3. Len(s) = 8
      BY <1>2
    <3> QED
      BY <3>2, <3>3, Zenon
  <2>2. ~(k <= 8) => k - 8 \in 1..24
    OBVIOUS
  <2> QED
    BY <1>3, <2>1, <2>2
<1> QED
  BY <1>7, <1>8 DEF r, s, z, Word, Bit

\* An entry of crc_tab: eight steps of the division of its index.
LEMMA TableSteps ==
  ASSUME NEW i \in Byte
  PROVE  \E f \in [0..8 -> Word] :
           /\ f[0] = Bits(i, 8) \o Bits(0, 24)
           /\ \A n \in 1..8 : f[n] = Divide(f[n - 1])
           /\ crc_tab[i] = f[8]
<1> DEFINE a == Bits(i, 8) \o Bits(0, 24)
           D == [n \in 1..8 |-> [v \in Word |-> Divide(v)]]
<1>1. D \in [1..8 -> [Word -> Word]]
  BY DivideIsStep
<1>2. \A n \in 1..8, v \in Word : D[n][v] = Divide(v)
  OBVIOUS
<1>3. a \in Word
  BY ByteInFront
<1> HIDE DEF a, D
<1>4. PICK p : Primitive(p, 8, Word, a, D)
  BY <1>1, <1>3, PrimitiveRecursion
<1>5. p = [n \in 0..8 |-> IF n = 0 THEN a ELSE Divide(p[n - 1])]
  <2>1. ASSUME NEW n \in 0..8 PROVE p[n] = IF n = 0 THEN a ELSE Divide(p[n - 1])
    <3>1. CASE n = 0
      BY <1>4, <3>1 DEF Primitive
    <3>2. CASE n # 0
      <4>1. n \in 1..8 /\ n - 1 \in 0..8
        BY <3>2
      <4>2. p[n] = D[n][p[n - 1]] /\ p[n - 1] \in Word
        BY <1>4, <4>1 DEF Primitive
      <4> QED
        BY <1>2, <3>2, <4>1, <4>2
    <3> QED
      BY <3>1, <3>2
  <2>2. p = [n \in 0..8 |-> p[n]]
    BY <1>4 DEF Primitive
  <2> QED
    BY <2>1, <2>2, Zenon
<1> DEFINE f == CHOOSE g : g = [n \in 0..8 |-> IF n = 0 THEN a ELSE Divide(g[n - 1])]
<1>6. f = [n \in 0..8 |-> IF n = 0 THEN a ELSE Divide(f[n - 1])]
  BY <1>5, Zenon
<1>7. crc_tab[i] = f[8]
  BY Zenon DEF crc_tab, a, Byte
<1> HIDE DEF f
<1>8. /\ f = [n \in 0..8 |-> f[n]] /\ f[0] = a
      /\ \A n \in 1..8 : f[n] = Divide(f[n - 1])
  BY <1>6
<1>9. \A n \in 1..8 : f[n - 1] \in Word => f[n] = D[n][f[n - 1]]
  BY <1>2, <1>8
<1>10. Primitive(f, 8, Word, a, D)
  BY <1>1, <1>3, <1>8, <1>9, PrimitiveTyped
<1> QED
  BY <1>7, <1>8, <1>10 DEF Primitive, a

\* A byte is divided bit by bit.
LEMMA DivideByteSteps ==
  ASSUME NEW x \in Byte, NEW a \in Word
  PROVE  \E f \in [0..8 -> Word] :
           /\ f[0] = a
           /\ \A n \in 1..8 : f[n] = DivideBit(f[n - 1], Bits(x, 8)[n])
           /\ DivideByte(x)[a] = f[8]
<1> DEFINE D == [n \in 1..8 |-> [v \in Word |-> DivideBit(v, Bits(x, 8)[n])]]
<1>1. D \in [1..8 -> [Word -> Word]]
  <2>1. x \in Nat
    BY DEF Byte
  <2>2. \A n \in 1..8 : Bits(x, 8)[n] \in Bit
    <3>1. Bits(x, 8) \in [1..8 -> Bit]
      BY <2>1, BitsTyped
    <3> QED
      BY <3>1, Zenon
  <2>3. \A n \in 1..8, v \in Word : DivideBit(v, Bits(x, 8)[n]) \in Word
    BY <2>2, DivideBitSum
  <2> QED
    BY <2>3
<1>2. \A n \in 1..8, v \in Word : D[n][v] = DivideBit(v, Bits(x, 8)[n])
  OBVIOUS
<1> HIDE DEF D
<1>3. PICK p : Primitive(p, 8, Word, a, D)
  BY <1>1, PrimitiveRecursion
<1>4. p = [n \in 0..8 |-> IF n = 0 THEN a ELSE DivideBit(p[n - 1], Bits(x, 8)[n])]
  <2>1. ASSUME NEW n \in 0..8
        PROVE  p[n] = IF n = 0 THEN a ELSE DivideBit(p[n - 1], Bits(x, 8)[n])
    <3>1. CASE n = 0
      BY <1>3, <3>1 DEF Primitive
    <3>2. CASE n # 0
      <4>1. n \in 1..8 /\ n - 1 \in 0..8
        BY <3>2
      <4>2. p[n] = D[n][p[n - 1]] /\ p[n - 1] \in Word
        BY <1>3, <4>1 DEF Primitive
      <4> QED
        BY <1>2, <3>2, <4>1, <4>2
    <3> QED
      BY <3>1, <3>2
  <2>2. p = [n \in 0..8 |-> p[n]]
    BY <1>3 DEF Primitive
  <2> QED
    BY <2>1, <2>2, Zenon
<1> DEFINE f == CHOOSE g : g = [n \in 0..8 |-> IF n = 0 THEN a
                                               ELSE DivideBit(g[n - 1], Bits(x, 8)[n])]
<1>5. f = [n \in 0..8 |-> IF n = 0 THEN a ELSE DivideBit(f[n - 1], Bits(x, 8)[n])]
  BY <1>4, Zenon
<1>6. DivideByte(x)[a] = f[8]
  BY Zenon DEF DivideByte
<1> HIDE DEF f
<1>7. /\ f = [n \in 0..8 |-> f[n]] /\ f[0] = a
      /\ \A n \in 1..8 : f[n] = DivideBit(f[n - 1], Bits(x, 8)[n])
  BY <1>5
<1>8. \A n \in 1..8 : f[n - 1] \in Word => f[n] = D[n][f[n - 1]]
  BY <1>2, <1>7
<1>9. Primitive(f, 8, Word, a, D)
  BY <1>1, <1>7, <1>8, PrimitiveTyped
<1> QED
  BY <1>6, <1>7, <1>9 DEF Primitive

\* The highest eight bits of a word, and with a byte added to them.
LEMMA TopByte ==
  ASSUME NEW a \in Word, NEW k \in 0..3
  PROVE  /\ SubSeq(a, 8 * k + 1, 8 * k + 8) \in [1..8 -> Bit]
         /\ \A j \in 1..8 : SubSeq(a, 8 * k + 1, 8 * k + 8)[j] = a[8 * k + j]
<1> DEFINE m == 8 * k + 1
           n == 8 * k + 8
           s == SubSeq(a, m, n)
<1>1. m \in Int /\ n \in Int /\ m <= n /\ n - m + 1 = 8
  OBVIOUS
<1>2. ASSUME NEW i \in m..n PROVE a[i] \in Bit
  <2>1. i \in 1..32
    OBVIOUS
  <2> QED
    BY <2>1, BitOf
<1> HIDE DEF m, n
<1>3. /\ SubSeq(a, m, n) \in Seq(Bit)
      /\ Len(SubSeq(a, m, n)) = IF m <= n THEN n - m + 1 ELSE 0
      /\ \A i \in 1..(n - m + 1) : SubSeq(a, m, n)[i] = a[m + i - 1]
  BY <1>1, <1>2, SubSeqProperties
<1> HIDE DEF s
<1>4. s \in Seq(Bit) /\ Len(s) = 8 /\ 8 \in Nat
  BY <1>1, <1>3 DEF s
<1>5. s \in [1..8 -> Bit]
  BY <1>4, SeqIsFunction, Zenon
<1>6. \A j \in 1..8 : s[j] = a[8 * k + j]
  <2> SUFFICES ASSUME NEW j \in 1..8 PROVE s[j] = a[8 * k + j]
    OBVIOUS
  <2>1. m + j - 1 = 8 * k + j
    BY DEF m
  <2>2. s[j] = a[m + j - 1]
    BY <1>1, <1>3 DEF s
  <2> QED
    BY <2>1, <2>2, Zenon
<1> QED
  BY <1>5, <1>6 DEF s, m, n

\* The sum of two sequences of eight bits.
LEMMA XorEight ==
  ASSUME NEW c \in [1..8 -> Bit], NEW d \in [1..8 -> Bit]
  PROVE  /\ Xor(c, d) \in [1..8 -> Bit]
         /\ \A k \in 1..8 : Xor(c, d)[k] = (c[k] + d[k]) % 2
<1>1. Xor(c, d) = [k \in 1..8 |-> (c[k] + d[k]) % 2]
  BY DEF Xor
<1>2. \A k \in 1..8 : (c[k] + d[k]) % 2 \in Bit
  BY BitSum
<1> QED
  BY <1>1, <1>2

(***************************************************************************)
(* One step of crc.h divides a byte.  The register of the division, with   *)
(* the bits that are still to come added to it (X), and the entry of the   *)
(* table so far, with the rest of the old register added to it (L), are    *)
(* the same word before and after each bit.                                *)
(***************************************************************************)
LEMMA ByteDivided ==
  ASSUME NEW x \in Byte, NEW a \in Word
  PROVE  /\ DivideByte(x)[a] = CrcByte(a, x)
         /\ CrcByte(a, x) \in Word
<1> DEFINE b == Bits(x, 8)
           h == SubSeq(a, 1, 8)
           c == Xor(h, b)
           i == Number(c)
           X == [k \in 1..32 |-> IF k <= 8 THEN b[k] ELSE 0]
           L == [k \in 1..32 |-> IF k <= 8 THEN 0 ELSE a[k]]
           t0 == Bits(i, 8) \o Bits(0, 24)
<1>1. b \in [1..8 -> Bit]
  <2>1. x \in Nat /\ 8 \in 1..24
    BY DEF Byte
  <2> QED
    BY <2>1, BitsTyped, Zenon
<1>2. h \in [1..8 -> Bit] /\ \A k \in 1..8 : h[k] = a[k]
  <2>1. 0 \in 0..3 /\ 8 * 0 + 1 = 1 /\ 8 * 0 + 8 = 8 /\ \A k \in 1..8 : 8 * 0 + k = k
    OBVIOUS
  <2> QED
    BY <2>1, TopByte
<1> HIDE DEF b, h
<1>3. c \in [1..8 -> Bit] /\ \A k \in 1..8 : c[k] = (a[k] + b[k]) % 2
  BY <1>1, <1>2, XorEight
<1> HIDE DEF c
<1>4. i \in Byte /\ Bits(i, 8) = c
  BY <1>3, NumberBits
<1>5. t0 \in Word /\ \A k \in 1..32 : t0[k] = IF k <= 8 THEN c[k] ELSE 0
  <2>1. t0 \in Word /\ \A k \in 1..32 : t0[k] = IF k <= 8 THEN Bits(i, 8)[k] ELSE 0
    BY <1>4, ByteInFront, Zenon
  <2> HIDE DEF t0, i
  <2> QED
    BY <1>4, <2>1
<1> HIDE DEF i, t0
<1>6. X \in Word /\ \A k \in 1..32 : X[k] = IF k <= 8 THEN b[k] ELSE 0
  <2>1. \A k \in 1..32 : (IF k <= 8 THEN b[k] ELSE 0) \in Bit
    BY <1>1 DEF Bit
  <2> QED
    BY <2>1 DEF Word, Bit
<1>7. L \in Word /\ \A k \in 1..32 : L[k] = IF k <= 8 THEN 0 ELSE a[k]
  <2>1. \A k \in 1..32 : (IF k <= 8 THEN 0 ELSE a[k]) \in Bit
    BY BitOf DEF Bit
  <2> QED
    BY <2>1 DEF Word, Bit
<1> HIDE DEF X, L
<1>8. PICK t \in [0..8 -> Word] :
        /\ t[0] = t0
        /\ \A n \in 1..8 : t[n] = Divide(t[n - 1])
        /\ crc_tab[i] = t[8]
  BY <1>4, TableSteps DEF t0
<1>9. PICK w \in [0..8 -> Word] :
        /\ w[0] = a
        /\ \A n \in 1..8 : w[n] = DivideBit(w[n - 1], b[n])
        /\ DivideByte(x)[a] = w[8]
  BY DivideByteSteps DEF b
<1> DEFINE S == {n \in 0..8 : Xor(w[n], ShiftLeft(X, n)) = Xor(t[n], ShiftLeft(L, n))}
<1>10. 0 \in S
  <2>1. ShiftLeft(X, 0) = X /\ ShiftLeft(L, 0) = L
    BY <1>6, <1>7, ShiftAlgebra
  <2>2. Xor(a, X) \in Word /\ Xor(t0, L) \in Word
    BY <1>5, <1>6, <1>7, XorBits
  <2>3. ASSUME NEW k \in 1..32 PROVE Xor(a, X)[k] = Xor(t0, L)[k]
    <3>1. Xor(a, X)[k] = (a[k] + X[k]) % 2 /\ Xor(t0, L)[k] = (t0[k] + L[k]) % 2
      BY <1>5, <1>6, <1>7, XorBits
    <3>2. a[k] \in Bit
      BY BitOf
    <3>3. CASE k <= 8
      <4>1. k \in 1..8
        BY <3>3
      <4>2. b[k] \in Bit /\ c[k] \in Bit /\ c[k] = (a[k] + b[k]) % 2
        BY <1>1, <1>3, <4>1
      <4>3. X[k] = b[k] /\ t0[k] = c[k] /\ L[k] = 0
        BY <1>5, <1>6, <1>7, <3>3
      <4>4. (c[k] + 0) % 2 = c[k]
        BY <4>2, BitSum
      <4> QED
        BY <3>1, <4>2, <4>3, <4>4
    <3>4. CASE ~(k <= 8)
      <4>1. X[k] = 0 /\ t0[k] = 0 /\ L[k] = a[k]
        BY <1>5, <1>6, <1>7, <3>4
      <4>2. (a[k] + 0) % 2 = a[k] /\ (0 + a[k]) % 2 = a[k]
        BY <3>2, BitSum
      <4> QED
        BY <3>1, <4>1, <4>2
    <3> QED
      BY <3>3, <3>4
  <2>4. Xor(a, X) = Xor(t0, L)
    BY <2>2, <2>3, WordEqual
  <2> QED
    BY <1>8, <1>9, <2>1, <2>4
<1>11. ASSUME NEW n \in 1..8, n - 1 \in S PROVE n \in S
  <2> DEFINE y == ShiftLeft(X, n - 1)
             m == ShiftLeft(L, n - 1)
             u == w[n - 1]
             v == t[n - 1]
  <2>1. n - 1 \in 0..32 /\ n - 1 \in 0..8 /\ 1 \in 0..32 /\ (n - 1) + 1 = n
    OBVIOUS
  <2>2. /\ y \in Word /\ y[1] = b[n] /\ ShiftLeft(y, 1) = ShiftLeft(X, n)
    <3>1. y \in Word /\ y[1] = IF 1 + (n - 1) <= 32 THEN X[1 + (n - 1)] ELSE 0
      BY <1>6, <2>1, ShiftBits
    <3>2. 1 + (n - 1) = n /\ n <= 8 /\ n \in 1..32
      OBVIOUS
    <3>3. ShiftLeft(y, 1) = ShiftLeft(X, (n - 1) + 1)
      BY <1>6, <2>1, ShiftTwice
    <3> QED
      BY <1>6, <2>1, <3>1, <3>2, <3>3
  <2>3. /\ m \in Word /\ m[1] = 0 /\ ShiftLeft(m, 1) = ShiftLeft(L, n)
    <3>1. m \in Word /\ m[1] = IF 1 + (n - 1) <= 32 THEN L[1 + (n - 1)] ELSE 0
      BY <1>7, <2>1, ShiftBits
    <3>2. 1 + (n - 1) = n /\ n <= 8 /\ n \in 1..32
      OBVIOUS
    <3>3. ShiftLeft(m, 1) = ShiftLeft(L, (n - 1) + 1)
      BY <1>7, <2>1, ShiftTwice
    <3> QED
      BY <1>7, <2>1, <3>1, <3>2, <3>3
  <2>4. u \in Word /\ v \in Word
    BY <2>1
  <2>5. Xor(u, y) = Xor(v, m)
    BY <1>11
  <2> HIDE DEF y, m
  <2>6. Divide(Xor(u, y)) = Xor(w[n], ShiftLeft(X, n))
    <3>1. Divide(Xor(u, y)) = Xor(DivideBit(u, y[1]), ShiftLeft(y, 1))
      BY <2>2, <2>4, StepLinear
    <3>2. DivideBit(u, y[1]) = w[n]
      BY <1>9, <2>2
    <3> QED
      BY <2>2, <3>1, <3>2
  <2>7. Divide(Xor(v, m)) = Xor(t[n], ShiftLeft(L, n))
    <3>1. Divide(Xor(v, m)) = Xor(DivideBit(v, m[1]), ShiftLeft(m, 1))
      BY <2>3, <2>4, StepLinear
    <3>2. DivideBit(v, m[1]) = t[n]
      BY <1>8, <2>3, <2>4, DivideIsStep
    <3> QED
      BY <2>3, <3>1, <3>2
  <2> QED
    BY <2>5, <2>6, <2>7
<1>12. 8 \in S
  <2> HIDE DEF S
  <2>1. 8 \in Nat /\ \A n \in 0..8 : n \in S
    BY <1>10, <1>11, InductUpTo
  <2> QED
    BY <2>1
<1>13. ShiftLeft(X, 8) = Zero
  <2>1. ShiftLeft(X, 8) \in Word
        /\ \A k \in 1..32 : ShiftLeft(X, 8)[k] = IF k + 8 <= 32 THEN X[k + 8] ELSE 0
    BY <1>6, ShiftBits
  <2>2. ASSUME NEW k \in 1..32 PROVE ShiftLeft(X, 8)[k] = Zero[k]
    <3>1. k + 8 <= 32 => X[k + 8] = 0
      BY <1>6
    <3> QED
      BY <2>1, <3>1, ZeroWord
  <2> QED
    BY <2>1, <2>2, ZeroWord, WordEqual
<1>14. ShiftLeft(L, 8) = ShiftLeft(a, 8)
  <2>1. /\ ShiftLeft(L, 8) \in Word /\ ShiftLeft(a, 8) \in Word
        /\ \A k \in 1..32 : ShiftLeft(L, 8)[k] = IF k + 8 <= 32 THEN L[k + 8] ELSE 0
        /\ \A k \in 1..32 : ShiftLeft(a, 8)[k] = IF k + 8 <= 32 THEN a[k + 8] ELSE 0
    BY <1>7, ShiftBits
  <2>2. ASSUME NEW k \in 1..32 PROVE ShiftLeft(L, 8)[k] = ShiftLeft(a, 8)[k]
    <3>1. k + 8 <= 32 => L[k + 8] = a[k + 8]
      BY <1>7
    <3> QED
      BY <2>1, <3>1
  <2> QED
    BY <2>1, <2>2, WordEqual
<1>15. w[8] = Xor(ShiftLeft(a, 8), crc_tab[i]) /\ w[8] \in Word
  <2>1. w[8] \in Word /\ t[8] \in Word /\ ShiftLeft(a, 8) \in Word
    BY ShiftBits
  <2>2. Xor(w[8], Zero) = Xor(t[8], ShiftLeft(a, 8))
    BY <1>12, <1>13, <1>14
  <2>3. Xor(w[8], Zero) = w[8] /\ Xor(t[8], ShiftLeft(a, 8)) = Xor(ShiftLeft(a, 8), t[8])
    BY <2>1, XorAlgebra
  <2> QED
    BY <1>8, <2>1, <2>2, <2>3
<1>16. CrcByte(a, x) = Xor(ShiftLeft(a, 8), crc_tab[i])
  BY DEF CrcByte, i, c, h, b
<1> QED
  BY <1>9, <1>15, <1>16
-----------------------------------------------------------------------------
Ones == [k \in 1..32 |-> 1]

\* The checksum of a sequence of bytes: a step of crc.h for each.
LEMMA ChecksumSteps ==
  ASSUME NEW s \in Seq(Byte)
  PROVE  \E f \in [0..Len(s) -> Word] :
           /\ f[0] = Ones
           /\ \A n \in 1..Len(s) : f[n] = CrcByte(f[n - 1], s[n])
           /\ calc_crc32(s) = f[Len(s)]
<1> DEFINE N == Len(s)
           D == [n \in 1..N |-> [v \in Word |-> CrcByte(v, s[n])]]
<1>1. N \in Nat /\ \A n \in 1..N : s[n] \in Byte
  BY ElementOfSeq, LenProperties
<1> HIDE DEF N
<1>2. D \in [1..N -> [Word -> Word]]
  <2>1. \A n \in 1..N, v \in Word : CrcByte(v, s[n]) \in Word
    BY <1>1, ByteDivided
  <2> QED
    BY <2>1
<1>3. \A n \in 1..N, v \in Word : D[n][v] = CrcByte(v, s[n])
  OBVIOUS
<1>4. Ones \in Word
  BY DEF Ones, Word
<1> HIDE DEF D
<1>5. PICK p : Primitive(p, N, Word, Ones, D)
  BY <1>1, <1>2, <1>4, PrimitiveRecursion
<1>6. p = [n \in 0..N |-> IF n = 0 THEN Ones ELSE CrcByte(p[n - 1], s[n])]
  <2>1. ASSUME NEW n \in 0..N
        PROVE  p[n] = IF n = 0 THEN Ones ELSE CrcByte(p[n - 1], s[n])
    <3>1. CASE n = 0
      BY <1>5, <3>1 DEF Primitive
    <3>2. CASE n # 0
      <4>1. n \in 1..N /\ n - 1 \in 0..N
        BY <1>1, <3>2
      <4>2. p[n] = D[n][p[n - 1]] /\ p[n - 1] \in Word
        BY <1>5, <4>1 DEF Primitive
      <4>3. p[n] = CrcByte(p[n - 1], s[n]) /\ s[n] \in Byte
        BY <1>1, <1>3, <4>1, <4>2
      <4> QED
        BY <3>2, <4>2, <4>3
    <3> QED
      BY <3>1, <3>2
  <2>2. p = [n \in 0..N |-> p[n]]
    BY <1>5 DEF Primitive
  <2> QED
    BY <2>1, <2>2, Zenon
<1> DEFINE f == CHOOSE g : g = [n \in 0..N |-> IF n = 0 THEN Ones ELSE CrcByte(g[n - 1], s[n])]
<1>7. f = [n \in 0..N |-> IF n = 0 THEN Ones ELSE CrcByte(f[n - 1], s[n])]
  BY <1>6, Zenon
<1>8. calc_crc32(s) = f[N]
  BY Zenon DEF calc_crc32, N, Ones
<1> HIDE DEF f
<1>9. /\ f = [n \in 0..N |-> f[n]] /\ f[0] = Ones
      /\ \A n \in 1..N : f[n] = CrcByte(f[n - 1], s[n])
  <2>1. \A n \in 0..N : f[n] = IF n = 0 THEN Ones ELSE CrcByte(f[n - 1], s[n])
    BY <1>7, Zenon
  <2>2. f = [n \in 0..N |-> f[n]]
    BY <1>7, <2>1, Zenon
  <2>3. 0 \in 0..N /\ \A n \in 1..N : n \in 0..N /\ n # 0
    BY <1>1
  <2> QED
    BY <2>1, <2>2, <2>3, Zenon
<1>10. \A n \in 1..N : f[n - 1] \in Word => f[n] = D[n][f[n - 1]]
  <2> SUFFICES ASSUME NEW n \in 1..N, f[n - 1] \in Word PROVE f[n] = D[n][f[n - 1]]
    OBVIOUS
  <2>1. f[n] = CrcByte(f[n - 1], s[n])
    BY <1>1, <1>9
  <2> QED
    BY <1>3, <2>1
<1>11. Primitive(f, N, Word, Ones, D)
  BY <1>1, <1>2, <1>4, <1>9, <1>10, PrimitiveTyped
<1>12. ASSUME NEW n \in 1..N PROVE f[n] = CrcByte(f[n - 1], s[n])
  <2>1. f[n] = D[n][f[n - 1]] /\ f[n - 1] \in Word
    <3>1. n - 1 \in 0..N
      BY <1>1
    <3> QED
      BY <1>11, <3>1 DEF Primitive
  <2> QED
    BY <1>3, <2>1
<1>13. f \in [0..N -> Word] /\ f[0] = Ones
  BY <1>11 DEF Primitive
<1> QED
  BY <1>8, <1>12, <1>13 DEF N

\* The division of a sequence of bytes is the same steps.
LEMMA RemainderSteps ==
  ASSUME NEW s \in Seq(Byte)
  PROVE  \E f \in [0..Len(s) -> Word] :
           /\ f[0] = Ones
           /\ \A n \in 1..Len(s) : f[n] = CrcByte(f[n - 1], s[n])
           /\ Remainder(s) = f[Len(s)]
<1> DEFINE N == Len(s)
           D == [n \in 1..N |-> [v \in Word |-> CrcByte(v, s[n])]]
<1>1. N \in Nat /\ \A n \in 1..N : s[n] \in Byte
  BY ElementOfSeq, LenProperties
<1> HIDE DEF N
<1>2. D \in [1..N -> [Word -> Word]]
  <2>1. \A n \in 1..N, v \in Word : CrcByte(v, s[n]) \in Word
    BY <1>1, ByteDivided
  <2> QED
    BY <2>1
<1>3. \A n \in 1..N, v \in Word : D[n][v] = CrcByte(v, s[n])
  OBVIOUS
<1>4. Ones \in Word
  BY DEF Ones, Word
<1> HIDE DEF D
<1>5. PICK p : Primitive(p, N, Word, Ones, D)
  BY <1>1, <1>2, <1>4, PrimitiveRecursion
<1>6. p = [n \in 0..N |-> IF n = 0 THEN Ones ELSE DivideByte(s[n])[p[n - 1]]]
  <2>1. ASSUME NEW n \in 0..N
        PROVE  p[n] = IF n = 0 THEN Ones ELSE DivideByte(s[n])[p[n - 1]]
    <3>1. CASE n = 0
      BY <1>5, <3>1 DEF Primitive
    <3>2. CASE n # 0
      <4>1. n \in 1..N /\ n - 1 \in 0..N
        BY <1>1, <3>2
      <4>2. p[n] = D[n][p[n - 1]] /\ p[n - 1] \in Word
        BY <1>5, <4>1 DEF Primitive
      <4>3. p[n] = CrcByte(p[n - 1], s[n]) /\ s[n] \in Byte
        BY <1>1, <1>3, <4>1, <4>2
      <4> QED
        BY <3>2, <4>2, <4>3, ByteDivided
    <3> QED
      BY <3>1, <3>2
  <2>2. p = [n \in 0..N |-> p[n]]
    BY <1>5 DEF Primitive
  <2> QED
    BY <2>1, <2>2, Zenon
<1> DEFINE f == CHOOSE g : g = [n \in 0..N |-> IF n = 0 THEN Ones ELSE DivideByte(s[n])[g[n - 1]]]
<1>7. f = [n \in 0..N |-> IF n = 0 THEN Ones ELSE DivideByte(s[n])[f[n - 1]]]
  BY <1>6, Zenon
<1>8. Remainder(s) = f[N]
  BY Zenon DEF Remainder, N, Ones
<1> HIDE DEF f
<1>9. /\ f = [n \in 0..N |-> f[n]] /\ f[0] = Ones
      /\ \A n \in 1..N : f[n] = DivideByte(s[n])[f[n - 1]]
  <2>1. \A n \in 0..N : f[n] = IF n = 0 THEN Ones ELSE DivideByte(s[n])[f[n - 1]]
    BY <1>7, Zenon
  <2>2. f = [n \in 0..N |-> f[n]]
    BY <1>7, <2>1, Zenon
  <2>3. 0 \in 0..N /\ \A n \in 1..N : n \in 0..N /\ n # 0
    BY <1>1
  <2> QED
    BY <2>1, <2>2, <2>3, Zenon
<1>10. \A n \in 1..N : f[n - 1] \in Word => f[n] = D[n][f[n - 1]]
  <2> SUFFICES ASSUME NEW n \in 1..N, f[n - 1] \in Word PROVE f[n] = D[n][f[n - 1]]
    OBVIOUS
  <2>1. f[n] = CrcByte(f[n - 1], s[n])
    BY <1>1, <1>9, ByteDivided
  <2> QED
    BY <1>3, <2>1
<1>11. Primitive(f, N, Word, Ones, D)
  BY <1>1, <1>2, <1>4, <1>9, <1>10, PrimitiveTyped
<1>12. ASSUME NEW n \in 1..N PROVE f[n] = CrcByte(f[n - 1], s[n])
  <2>1. f[n] = D[n][f[n - 1]] /\ f[n - 1] \in Word
    <3>1. n - 1 \in 0..N
      BY <1>1
    <3> QED
      BY <1>11, <3>1 DEF Primitive
  <2> QED
    BY <1>3, <2>1
<1>13. f \in [0..N -> Word] /\ f[0] = Ones
  BY <1>11 DEF Primitive
<1> QED
  BY <1>8, <1>12, <1>13 DEF N

\* Nothing is left of a step by the byte that is in front of the register: the
\* register moves on, and zeros follow it.
LEMMA OwnByte ==
  ASSUME NEW a \in Word, NEW x \in Byte, Bits(x, 8) = SubSeq(a, 1, 8)
  PROVE  CrcByte(a, x) = ShiftLeft(a, 8)
<1> DEFINE h == SubSeq(a, 1, 8)
           c == Xor(h, h)
           i == Number(c)
<1>1. h \in [1..8 -> Bit]
  <2>1. 0 \in 0..3 /\ 8 * 0 + 1 = 1 /\ 8 * 0 + 8 = 8
    OBVIOUS
  <2> QED
    BY <2>1, TopByte
<1> HIDE DEF h
<1>2. c \in [1..8 -> Bit] /\ \A k \in 1..8 : c[k] = 0
  <2>1. c \in [1..8 -> Bit] /\ \A k \in 1..8 : c[k] = (h[k] + h[k]) % 2
    BY <1>1, XorEight
  <2>2. \A k \in 1..8 : h[k] \in Bit
    BY <1>1
  <2> HIDE DEF c
  <2>3. \A k \in 1..8 : (h[k] + h[k]) % 2 = 0
    BY <2>2, BitSum
  <2> QED
    BY <2>1, <2>3
<1> HIDE DEF c
<1>3. i \in Byte /\ Bits(i, 8) = c
  BY <1>2, NumberBits
<1> HIDE DEF i
<1>4. PICK t \in [0..8 -> Word] :
        /\ t[0] = Bits(i, 8) \o Bits(0, 24)
        /\ \A n \in 1..8 : t[n] = Divide(t[n - 1])
        /\ crc_tab[i] = t[8]
  BY <1>3, TableSteps
<1>5. t[0] = Zero
  <2>1. t[0] \in Word /\ \A k \in 1..32 : t[0][k] = IF k <= 8 THEN Bits(i, 8)[k] ELSE 0
    <3> DEFINE z == Bits(i, 8) \o Bits(0, 24)
    <3>1. z \in Word /\ \A k \in 1..32 : z[k] = IF k <= 8 THEN Bits(i, 8)[k] ELSE 0
      BY <1>3, ByteInFront, Zenon
    <3>2. t[0] = z
      BY <1>4
    <3> HIDE DEF z
    <3> QED
      BY <3>1, <3>2
  <2>2. ASSUME NEW k \in 1..32 PROVE t[0][k] = Zero[k]
    <3>1. k <= 8 => c[k] = 0
      BY <1>2
    <3> QED
      BY <1>3, <2>1, <3>1, ZeroWord
  <2> QED
    BY <2>1, <2>2, ZeroWord, WordEqual
<1>6. Divide(Zero) = Zero
  <2>1. Zero[1] = 0 /\ Zero \in Word
    BY ZeroWord
  <2>2. Divide(Zero) = ShiftLeft(Zero, 1)
    BY <2>1 DEF Divide
  <2>3. /\ ShiftLeft(Zero, 1) \in Word
        /\ \A k \in 1..32 : ShiftLeft(Zero, 1)[k] = Zero[k]
    BY ZeroWord, ShiftBits
  <2> QED
    BY <2>1, <2>2, <2>3, WordEqual
<1> DEFINE S == {n \in 0..8 : t[n] = Zero}
<1>7. 0 \in S
  BY <1>5
<1>8. ASSUME NEW n \in 1..8, n - 1 \in S PROVE n \in S
  BY <1>4, <1>6, <1>8
<1>9. t[8] = Zero
  <2> HIDE DEF S
  <2>1. 8 \in Nat /\ \A n \in 0..8 : n \in S
    BY <1>7, <1>8, InductUpTo
  <2>2. 8 \in S
    BY <2>1
  <2> QED
    BY <2>2 DEF S
<1>10. CrcByte(a, x) = Xor(ShiftLeft(a, 8), crc_tab[i])
  BY DEF CrcByte, i, c, h
<1> QED
  <2>1. ShiftLeft(a, 8) \in Word
    BY ShiftBits
  <2>2. Xor(ShiftLeft(a, 8), Zero) = ShiftLeft(a, 8)
    BY <2>1, XorAlgebra
  <2> QED
    BY <1>4, <1>9, <1>10, <2>2

\* The bytes of the checksum.
LEMMA ChecksumBytes ==
  ASSUME NEW r \in Word, NEW j \in 1..4
  PROVE  /\ Number(SubSeq(r, 8 * j - 7, 8 * j)) \in Byte
         /\ CrcByte(ShiftLeft(r, 8 * (j - 1)), Number(SubSeq(r, 8 * j - 7, 8 * j)))
              = ShiftLeft(r, 8 * j)
<1> DEFINE k == j - 1
           m == 8 * k
           s == SubSeq(r, 8 * k + 1, 8 * k + 8)
           a == ShiftLeft(r, m)
           x == Number(s)
<1>1. /\ k \in 0..3 /\ m \in 0..32 /\ m + 8 = 8 * j /\ 8 \in 0..32 /\ m + 8 <= 32
      /\ 8 * k + 1 = 8 * j - 7 /\ 8 * k + 8 = 8 * j /\ 8 * (j - 1) = m
  OBVIOUS
<1> HIDE DEF k
<1>2. s \in [1..8 -> Bit] /\ \A i \in 1..8 : s[i] = r[m + i]
  BY <1>1, TopByte
<1>3. x \in Byte /\ Bits(x, 8) = s
  BY <1>2, NumberBits
<1>4. /\ a \in Word
      /\ \A i \in 1..32 : a[i] = IF i + m <= 32 THEN r[i + m] ELSE 0
  BY <1>1, ShiftBits
<1>5. s = SubSeq(r, 8 * j - 7, 8 * j)
  BY <1>1
<1> HIDE DEF s, a, x, m
<1>6. SubSeq(a, 1, 8) = s
  <2> DEFINE h == SubSeq(a, 1, 8)
  <2>1. h \in [1..8 -> Bit] /\ \A i \in 1..8 : h[i] = a[i]
    <3>1. 0 \in 0..3 /\ 8 * 0 + 1 = 1 /\ 8 * 0 + 8 = 8 /\ \A i \in 1..8 : 8 * 0 + i = i
      OBVIOUS
    <3> QED
      BY <1>4, <3>1, TopByte
  <2> HIDE DEF h
  <2>2. ASSUME NEW i \in 1..8 PROVE h[i] = s[i]
    <3>1. i \in 1..32 /\ i + m <= 32 /\ i + m = m + i
      BY <1>1
    <3> QED
      BY <1>2, <1>4, <2>1, <3>1
  <2>3. h = s
    BY <1>2, <2>1, <2>2
  <2> QED
    BY <2>3 DEF h
<1>7. CrcByte(a, x) = ShiftLeft(a, 8)
  BY <1>3, <1>4, <1>6, OwnByte
<1>8. ShiftLeft(a, 8) = ShiftLeft(r, m + 8)
  BY <1>1, ShiftTwice DEF a
<1> QED
  BY <1>1, <1>3, <1>5, <1>7, <1>8, Zenon DEF a, x

\* They are bytes, and four.
LEMMA ChecksumTyped ==
  ASSUME NEW data \in Seq(Byte)
  PROVE  CrcBytes(data) \in Seq(Byte) /\ Len(CrcBytes(data)) = 4
<1> DEFINE r == calc_crc32(data)
           c == CrcBytes(data)
<1>1. r \in Word
  <2>1. PICK f \in [0..Len(data) -> Word] : r = f[Len(data)]
    BY ChecksumSteps
  <2>2. Len(data) \in 0..Len(data)
    OBVIOUS
  <2> HIDE DEF r
  <2> QED
    BY <2>1, <2>2, Zenon
<1>2. c = [j \in 1..4 |-> Number(SubSeq(r, 8 * j - 7, 8 * j))]
  BY Zenon DEF CrcBytes
<1> HIDE DEF r
<1>3. c \in [1..4 -> Byte]
  BY <1>1, <1>2, ChecksumBytes, Zenon
<1> HIDE DEF c
<1>4. c \in Seq(Byte) /\ Len(c) = 4
  BY <1>3, FunctionIsSeq
<1> QED
  BY <1>4 DEF c

\* The checksum is right: a receiver that divides a section and the checksum
\* behind it by the polynomial has nothing left, whatever the section is.
THEOREM ChecksumCorrect ==
  ASSUME NEW data \in Seq(Byte)
  PROVE  /\ data \o CrcBytes(data) \in Seq(Byte)
         /\ Len(data \o CrcBytes(data)) = Len(data) + 4
         /\ Remainder(data \o CrcBytes(data)) = [k \in 1..32 |-> 0]
<1> DEFINE N == Len(data)
           r == calc_crc32(data)
           c == CrcBytes(data)
           s == data \o c
<1>1. N \in Nat
  OBVIOUS
<1>2. PICK f \in [0..N -> Word] :
        /\ f[0] = Ones
        /\ \A n \in 1..N : f[n] = CrcByte(f[n - 1], data[n])
        /\ r = f[N]
  BY ChecksumSteps
<1> HIDE DEF N, r
<1>3. r \in Word
  BY <1>1, <1>2
<1>4. c = [j \in 1..4 |-> Number(SubSeq(r, 8 * j - 7, 8 * j))]
  BY Zenon DEF CrcBytes, r
<1>5. /\ c \in Seq(Byte) /\ Len(c) = 4
      /\ \A j \in 1..4 : c[j] = Number(SubSeq(r, 8 * j - 7, 8 * j))
  <2>1. c \in Seq(Byte) /\ Len(c) = 4
    BY ChecksumTyped
  <2>2. \A j \in 1..4 : c[j] = Number(SubSeq(r, 8 * j - 7, 8 * j))
    BY <1>4, Zenon
  <2> HIDE DEF c
  <2> QED
    BY <2>1, <2>2
<1> HIDE DEF c
<1>6. /\ s \in Seq(Byte) /\ Len(s) = N + 4
      /\ \A n \in 1..N : s[n] = data[n]
      /\ \A j \in 1..4 : s[N + j] = c[j]
  <2>1. \A u, v \in Seq(Byte) :
          /\ u \o v \in Seq(Byte) /\ Len(u \o v) = Len(u) + Len(v)
          /\ \A k \in 1..(Len(u) + Len(v)) :
               (u \o v)[k] = IF k <= Len(u) THEN u[k] ELSE v[k - Len(u)]
    BY ConcatProperties
  <2>2. /\ s \in Seq(Byte) /\ Len(s) = N + Len(c)
        /\ \A k \in 1..(N + Len(c)) : s[k] = IF k <= N THEN data[k] ELSE c[k - N]
    BY <1>5, <2>1, Zenon DEF N
  <2> HIDE DEF s
  <2>3. ASSUME NEW n \in 1..N PROVE s[n] = data[n]
    BY <1>1, <1>5, <2>2
  <2>4. ASSUME NEW j \in 1..4 PROVE s[N + j] = c[j]
    <3>1. N + j \in 1..(N + Len(c)) /\ ~(N + j <= N) /\ (N + j) - N = j
      BY <1>1, <1>5
    <3> QED
      BY <2>2, <3>1
  <2> QED
    BY <1>5, <2>2, <2>3, <2>4
<1> HIDE DEF s
<1>7. PICK g \in [0..(N + 4) -> Word] :
        /\ g[0] = Ones
        /\ \A n \in 1..(N + 4) : g[n] = CrcByte(g[n - 1], s[n])
        /\ Remainder(s) = g[N + 4]
  BY <1>6, RemainderSteps
<1>8. g[N] = r
  <2> DEFINE S == {n \in 0..N : g[n] = f[n]}
  <2>1. 0 \in S
    BY <1>1, <1>2, <1>7
  <2>2. ASSUME NEW n \in 1..N, n - 1 \in S PROVE n \in S
    <3>1. n \in 1..(N + 4) /\ n \in 0..N
      BY <1>1
    <3>2. g[n] = CrcByte(g[n - 1], s[n]) /\ f[n] = CrcByte(f[n - 1], data[n])
      BY <1>2, <1>7, <3>1
    <3>3. g[n - 1] = f[n - 1] /\ s[n] = data[n]
      BY <1>6, <2>2
    <3> QED
      BY <3>1, <3>2, <3>3
  <2> HIDE DEF S
  <2>3. \A n \in 0..N : n \in S
    BY <1>1, <2>1, <2>2, InductUpTo
  <2>4. N \in S
    BY <1>1, <2>3
  <2> QED
    BY <1>2, <2>4 DEF S
<1> DEFINE Moved == {j \in 0..4 : g[N + j] = ShiftLeft(r, 8 * j)}
<1>9. 0 \in Moved
  <2>1. N + 0 = N /\ 8 * 0 = 0 /\ 0 \in 0..4
    BY <1>1
  <2>2. ShiftLeft(r, 0) = r
    BY <1>3, ShiftAlgebra
  <2> QED
    BY <1>8, <2>1, <2>2
<1>10. ASSUME NEW j \in 1..4, j - 1 \in Moved PROVE j \in Moved
  <2>1. /\ N + j \in 1..(N + 4) /\ (N + j) - 1 = N + (j - 1) /\ j \in 0..4
    BY <1>1
  <2>2. g[N + j] = CrcByte(g[N + (j - 1)], s[N + j])
    BY <1>7, <2>1
  <2>3. g[N + (j - 1)] = ShiftLeft(r, 8 * (j - 1))
    BY <1>10
  <2>4. s[N + j] = Number(SubSeq(r, 8 * j - 7, 8 * j))
    BY <1>5, <1>6
  <2>5. g[N + j] = ShiftLeft(r, 8 * j)
    BY <1>3, <2>2, <2>3, <2>4, ChecksumBytes, Zenon
  <2> QED
    BY <2>1, <2>5
<1>11. g[N + 4] = Zero
  <2> HIDE DEF Moved
  <2>1. 4 \in Nat /\ \A j \in 0..4 : j \in Moved
    BY <1>9, <1>10, InductUpTo
  <2>2. 4 \in Moved
    BY <2>1
  <2>3. g[N + 4] = ShiftLeft(r, 8 * 4)
    BY <2>2 DEF Moved
  <2>4. 8 * 4 = 32 /\ ShiftLeft(r, 32) = Zero
    BY <1>3, ShiftAlgebra
  <2> QED
    BY <2>3, <2>4
<1> QED
  BY <1>6, <1>7, <1>11, Zenon DEF s, c, N, Zero
-----------------------------------------------------------------------------

(***************************************************************************)
(* What ReadsBack needs to know of a packet beyond PacketsWellFormed: the  *)
(* packets that begin a frame are marked, and an adaptation field has the  *)
(* length its contents take.                                               *)
(***************************************************************************)
Marked(init, afc, aflen, pcr, from) ==
  /\ init = 1 <=> from = 0
  /\ init = 1 => afc = 3
  /\ afc = 3 => aflen >= 1
  /\ pcr => aflen = 7

MarkedPacket(p) ==
  IF p.frame = 0
  THEN p.pid \in TablePids /\ p.play_init = 1 /\ p.ada_field_C = 1
  ELSE /\ p.pid \in MediaPids
       /\ Marked(p.play_init, p.ada_field_C, p.aflen, p.pcr, p.from)
       /\ p.pcr => p.pid = TS_H264_PID

PacketsMarked == \A i \in DOMAIN ts_file : MarkedPacket(ts_file[i])

(***************************************************************************)
(* A call hands over a frame, and only one of video asks for a PCR.        *)
(***************************************************************************)
CallMarked ==
  /\ HasPcr(arg.head) => arg.pid = TS_H264_PID
  /\ pc # "idle" => tspes[arg.pid].frame # 0

MInv == PacketsMarked /\ CallMarked
-----------------------------------------------------------------------------
\* A packet that is marked keeps the file so.
LEMMA WriteMarked ==
  ASSUME TypeOK, PacketsMarked, ts_file' \in Seq(Packet),
         NEW p, MarkedPacket(p), Write(p)
  PROVE  PacketsMarked'
<1> DEFINE q == WriteStruct_Packetheader(p, continuity_counter[p.pid])
<1>1. ts_file' = Append(ts_file, q) /\ ts_file \in Seq(Packet)
  BY DEF Write, TypeOK
<1>2. MarkedPacket(q)
  BY DEF WriteStruct_Packetheader, MarkedPacket
<1> HIDE DEF q
<1>3. \A i \in DOMAIN ts_file' :
        ts_file'[i] = (IF i \in DOMAIN ts_file THEN ts_file[i] ELSE q)
  BY <1>1
<1> QED
  BY <1>2, <1>3 DEF PacketsMarked

\* The packets of a frame.
LEMMA MediaMarked ==
  ASSUME IInv, IInv', PacketsMarked, NEW init, NEW afc, NEW aflen, NEW pcr,
         NEW at, NEW from, NEW n, Marked(init, afc, aflen, pcr, from),
         pcr => arg.pid = TS_H264_PID, tspes[arg.pid].frame # 0,
         WriteMedia(init, afc, aflen, pcr, at, from, n)
  PROVE  PacketsMarked'
<1> DEFINE p == [pid |-> arg.pid, play_init |-> init, ada_field_C |-> afc,
                 aflen |-> aflen, pcr |-> pcr, at |-> at,
                 frame |-> tspes[arg.pid].frame, from |-> from, len |-> n]
<1>1. TypeOK /\ ts_file' \in Seq(Packet)
  BY DEF IInv, TypeOK
<1>2. MarkedPacket(p)
  BY <1>1 DEF MarkedPacket, TypeOK
<1>3. Write(p)
  BY DEF WriteMedia
<1> HIDE DEF p
<1> QED
  BY <1>1, <1>2, <1>3, WriteMarked

\* Every write of PES2TS marks its packet.
LEMMA MarkedNext ==
  ASSUME IInv, IInv', MInv, [Next]_vars
  PROVE  PacketsMarked'
<1> USE DEF MInv, CallMarked
<1>1. /\ arg \in [pid : MediaPids, head : {1, 7}]
      /\ Beyond \in Nat /\ Size \in Nat
  BY DEF IInv, TypeOK, Beyond, Size, Heads
<1>2. pc # "idle" => tspes[arg.pid].frame # 0
  OBVIOUS
<1>3. CASE UNCHANGED ts_file
  BY <1>3 DEF PacketsMarked
<1>4. CASE WriteSingle
  <2>1. Beyond \in 1..167
    <3>1. Beyond > 0 /\ Beyond < FirstPacketLoadLength
      BY <1>4 DEF IInv, Progress, WriteSingle, At
    <3>2. arg \in [pid : MediaPids, head : Heads]
      BY DEF IInv, TypeOK
    <3> QED
      BY <1>1, <3>1, <3>2, FirstLoad
  <2>2. Marked(1, 3, 184 - Beyond - 9 - 5 - 1, FALSE, 0)
    BY <2>1 DEF Marked
  <2> QED
    BY <1>4, <1>2, <2>2, MediaMarked DEF WriteSingle, At
<1>5. CASE WriteTable
  <2>1. TypeOK /\ ts_file' \in Seq(Packet)
    BY DEF IInv, TypeOK
  <2>2. MarkedPacket(WriteStruct_Table(Head(tables)))
    <3>1. tables \in {<<TS_PAT_PID, TS_PMT_PID>>, <<TS_PMT_PID>>}
      BY <1>5 DEF IInv, TypeOK, WriteTable
    <3>2. Head(tables) \in TablePids
      BY <3>1 DEF TablePids
    <3> QED
      BY <3>2 DEF MarkedPacket, WriteStruct_Table
  <2> QED
    BY <1>5, <2>1, <2>2, WriteMarked DEF WriteTable
<1>6. CASE WriteFirst
  <2>1. Marked(1, 3, arg.head, HasPcr(arg.head), 0)
    BY <1>1 DEF Marked, HasPcr
  <2> QED
    BY <1>6, <1>2, <2>1, MediaMarked DEF WriteFirst, At
<1>7. pc \in {"body", "last"} => NeafBuf \in Nat /\ NeafBuf # 0
  <2>1. pc \in {"body", "last"} =>
          Beyond < Size /\ Beyond # 0 /\ (Beyond # 0 => NeafBuf = Size - Beyond)
    BY <1>1 DEF IInv, Progress
  <2> QED
    BY <1>1, <2>1
<1>8. CASE WriteMiddle
  <2>1. Marked(0, 1, 0, FALSE, NeafBuf)
    BY <1>7, <1>8 DEF Marked, WriteMiddle, At
  <2> QED
    BY <1>8, <1>2, <2>1, MediaMarked DEF WriteMiddle, At
<1>9. CASE WriteAlmostFull
  <2>1. Marked(0, 3, 1, FALSE, NeafBuf)
    BY <1>7, <1>9 DEF Marked, WriteAlmostFull, At
  <2>2. WriteMedia(0, 3, 1, FALSE, 4 + 2, NeafBuf, 182)
    BY <1>9 DEF WriteAlmostFull
  <2>3. tspes[arg.pid].frame # 0
    BY <1>9, <1>2 DEF WriteAlmostFull, At
  <2> QED
    BY <2>1, <2>2, <2>3, MediaMarked, Zenon
<1>10. CASE WriteLast
  <2>1. Beyond \in 1..183 /\ Beyond \notin {182, 183}
    BY <1>10 DEF IInv, Progress, WriteLast, At
  <2>2. 184 - Beyond - 1 >= 1
    BY <2>1
  <2>3. NeafBuf # 0
    BY <1>7, <1>10 DEF WriteLast, At
  <2>4. Marked(0, 3, 184 - Beyond - 1, FALSE, NeafBuf)
    BY <2>2, <2>3 DEF Marked
  <2> QED
    BY <1>10, <1>2, <2>4, MediaMarked DEF WriteLast, At
<1> QED
  BY <1>3, <1>4, <1>5, <1>6, <1>8, <1>9, <1>10
     DEF Next, Step, vars, Submit, EnterFragmented, LoopReturn, LoopCheck, LastCheck

\* The frame and the caller of a call do not change while it runs.
LEMMA CallMarkedNext ==
  ASSUME IInv, MInv, [Next]_vars
  PROVE  CallMarked'
<1>1. TypeOK /\ CallMarked
  BY DEF IInv, MInv
<1>2. CASE UNCHANGED vars
  BY <1>1, <1>2 DEF vars, CallMarked
<1>3. ASSUME NEW call \in Calls, NEW size \in FrameSizes, Submit(call, size)
      PROVE  CallMarked'
  <2>1. call[1] \in MediaPids /\ call[2] \in Heads /\ (call[1] = TS_AAC_PID => call[2] = 1)
    BY DEF Calls
  <2>2. arg' = [pid |-> call[1], head |-> call[2]] /\ Len(frames) + 1 # 0
    BY <1>1, <1>3 DEF Submit, TypeOK
  <2>3. tspes' = [tspes EXCEPT ![call[1]] =
                   [frame |-> Len(frames) + 1, size |-> size, beyond |-> size]]
    BY <1>3 DEF Submit
  <2>4. tspes'[call[1]].frame = Len(frames) + 1
    BY <1>1, <2>1, <2>3 DEF TypeOK
  <2>5. HasPcr(call[2]) => call[1] = TS_H264_PID
    BY <2>1 DEF HasPcr, MediaPids
  <2> QED
    BY <2>2, <2>4, <2>5 DEF CallMarked
<1>4. ASSUME NEW n, Consume(n), arg' = arg, pc # "idle"
      PROVE  CallMarked'
  <2>1. arg.pid \in MediaPids /\ tspes \in [MediaPids -> [frame : Nat, size : Nat, beyond : Nat]]
    BY <1>1 DEF TypeOK
  <2>2. tspes' = [tspes EXCEPT ![arg.pid] = [tspes[arg.pid] EXCEPT !.beyond = @ - n]]
    BY <1>4 DEF Consume
  <2>3. tspes'[arg.pid].frame = tspes[arg.pid].frame
    BY <2>1, <2>2
  <2> QED
    BY <1>1, <1>4, <2>3 DEF CallMarked
<1>5. ASSUME UNCHANGED <<tspes, arg>>, pc # "idle" \/ pc' = pc
      PROVE  CallMarked'
  BY <1>1, <1>5 DEF CallMarked
<1> QED
  BY <1>2, <1>3, <1>4, <1>5, ZenonT(60)
     DEF Next, Step, WriteSingle, EnterFragmented, WriteTable, WriteFirst, LoopReturn,
         LoopCheck, WriteMiddle, LastCheck, WriteAlmostFull, WriteLast, At

\* Every packet of every file is marked.
LEMMA MarkedInvariance == Spec => []PacketsMarked
<1>1. Init => MInv
  BY DEF Init, MInv, PacketsMarked, CallMarked, HasPcr
<1>2. ASSUME IInv, IInv', MInv, [Next]_vars PROVE MInv'
  <2>1. PacketsMarked'
    BY <1>2, MarkedNext
  <2>2. CallMarked'
    BY <1>2, CallMarkedNext
  <2> QED
    BY <2>1, <2>2 DEF MInv
<1>3. MInv => PacketsMarked
  BY DEF MInv
<1> QED
  BY <1>1, <1>2, <1>3, Invariance, PTL DEF Spec
-----------------------------------------------------------------------------
(***************************************************************************)
(* Arithmetic of bytes and bits: a number is its quotient and remainder,   *)
(* and halving or splitting it twice loses nothing.                        *)
(***************************************************************************)
LEMMA Bytes ==
  ASSUME NEW n \in Nat, n <= 65535
  PROVE  /\ n \div 256 \in Nat /\ n \div 256 <= 255
         /\ n % 256 \in Nat /\ n % 256 <= 255
         /\ (n \div 256) * 256 + (n % 256) = n
         /\ (n % 256) % 2 = n % 2
BY SMT

\* A marker bit is dropped again by halving.
LEMMA Marker ==
  ASSUME NEW n \in Nat
  PROVE  (2 * n + 1) \div 2 = n /\ (2 * n + 1) % 2 = 1
BY SMT

\* The fields of a PTS: two bits and fourteen of the high half, one and fifteen
\* of the low one.
LEMMA HighFields ==
  ASSUME NEW h \in Nat, h <= 65535
  PROVE  \E q, r \in Nat : /\ q = h \div 16384 /\ r = h % 16384
                           /\ q <= 3 /\ r <= 16383 /\ q * 16384 + r = h
<1> DEFINE q == h \div 16384
           r == h % 16384
<1>1. q \in Nat /\ r \in Nat /\ q <= 3 /\ r <= 16383 /\ q * 16384 + r = h
  BY SMT
<1> HIDE DEF q, r
<1>2. q = h \div 16384 /\ r = h % 16384
  BY DEF q, r
<1> QED
  BY <1>1, <1>2

\* The highest bit of a 16-bit number and the others.
LEMMA LowFields ==
  ASSUME NEW l \in Nat, l <= 65535
  PROVE  \E s, y \in Nat : /\ s = l \div 32768 /\ y = l % 32768
                           /\ s <= 1 /\ y <= 32767 /\ s * 32768 + y = l
<1> DEFINE s == l \div 32768
           y == l % 32768
<1>1. s \in Nat /\ y \in Nat /\ s <= 1 /\ y <= 32767 /\ s * 32768 + y = l
  BY SMT
<1> HIDE DEF s, y
<1>2. s = l \div 32768 /\ y = l % 32768
  BY DEF s, y
<1> QED
  BY <1>1, <1>2

\* Two and one bits that are put together are taken apart again.
LEMMA Pairs ==
  ASSUME NEW r \in Nat, NEW s \in Nat, s <= 1
  PROVE  (r * 2 + s) \div 2 = r /\ (r * 2 + s) % 2 = s
BY SMT

\* The bits 0011 in front of the first field do not disturb it.
LEMMA FirstField ==
  ASSUME NEW q \in Nat, q <= 3
  PROVE  /\ ((48 + 2 * q + 1) \div 2) % 8 = q
         /\ (48 + 2 * q + 1) % 2 = 1
BY SMT

\* The five bytes of a PTS give back its two halves.
LEMMA PtsReadBack ==
  ASSUME NEW h \in Nat, h <= 65535, NEW l \in Nat, l <= 65535, NEW b, NEW at \in Nat,
         \A k \in 1..5 : b[at + k] = PtsBytes(<<h, l>>)[k]
  PROVE  ReadPts(b, at) = <<h, l>> /\ MarkersSet(b, at)
<1>1. <<h, l>>[1] = h /\ <<h, l>>[2] = l
  OBVIOUS
<1>2. 2^14 = 16384 /\ 2^15 = 32768
  BY SMT
<1>3. PICK q \in Nat, r \in Nat :
        /\ q = h \div 16384 /\ r = h % 16384
        /\ q <= 3 /\ r <= 16383 /\ q * 16384 + r = h
  BY HighFields
<1>4. PICK s \in Nat, y \in Nat :
        /\ s = l \div 32768 /\ y = l % 32768
        /\ s <= 1 /\ y <= 32767 /\ s * 32768 + y = l
  BY LowFields
<1>5. PICK u \in Nat, v \in Nat :
        u = 2 * (r * 2 + s) + 1 /\ v = 2 * y + 1 /\ u <= 65535 /\ v <= 65535
  <2>1. r * 2 + s \in Nat /\ 2 * (r * 2 + s) + 1 \in Nat /\ 2 * (r * 2 + s) + 1 <= 65535
    BY <1>3, <1>4
  <2>2. 2 * y + 1 \in Nat /\ 2 * y + 1 <= 65535
    BY <1>4
  <2> QED
    BY <2>1, <2>2
<1>6. PtsBytes(<<h, l>>) = <<48 + 2 * q + 1, u \div 256, u % 256, v \div 256, v % 256>>
  BY <1>1, <1>2, <1>3, <1>4, <1>5 DEF PtsBytes
<1>7. /\ b[at + 1] = 48 + 2 * q + 1
      /\ b[at + 2] = u \div 256 /\ b[at + 3] = u % 256
      /\ b[at + 4] = v \div 256 /\ b[at + 5] = v % 256
  BY <1>6
<1>8. u \div 2 = r * 2 + s /\ u % 2 = 1 /\ v \div 2 = y /\ v % 2 = 1
  BY <1>4, <1>5, Marker
<1>9. /\ (b[at + 2] * 256 + b[at + 3]) \div 2 = r * 2 + s
      /\ (b[at + 4] * 256 + b[at + 5]) \div 2 = y
  <2>1. b[at + 2] * 256 + b[at + 3] = u /\ b[at + 4] * 256 + b[at + 5] = v
    BY <1>5, <1>7, Bytes
  <2> QED
    BY <1>8, <2>1
<1>10. (b[at + 1] \div 2) % 8 = q /\ b[at + 1] % 2 = 1
  BY <1>3, <1>7, FirstField
<1>11. ReadPts(b, at) = <<q * 16384 + (r * 2 + s) \div 2, ((r * 2 + s) % 2) * 32768 + y>>
  BY <1>2, <1>9, <1>10 DEF ReadPts
<1>12. ReadPts(b, at) = <<h, l>>
  <2>1. (r * 2 + s) \div 2 = r /\ (r * 2 + s) % 2 = s
    BY <1>4, Pairs
  <2> QED
    BY <1>3, <1>4, <1>11, <2>1
<1>13. b[at + 3] % 2 = 1 /\ b[at + 5] % 2 = 1
  BY <1>5, <1>7, <1>8, Bytes
<1>14. MarkersSet(b, at)
  BY <1>10, <1>13 DEF MarkersSet
<1> QED
  BY <1>12, <1>14

\* Division by 300 of a half, and of the remainder with the other half behind it.
LEMMA HalfBy300 ==
  ASSUME NEW h \in Nat, h <= 65535
  PROVE  \E q, e \in Nat : /\ q = h \div 300 /\ e = h % 300
                           /\ q <= 218 /\ e <= 299 /\ q * 300 + e = h
<1> DEFINE q == h \div 300
           e == h % 300
<1>1. q \in Nat /\ e \in Nat /\ q <= 218 /\ e <= 299 /\ q * 300 + e = h
  BY SMT
<1> HIDE DEF q, e
<1>2. q = h \div 300 /\ e = h % 300
  BY DEF q, e
<1> QED
  BY <1>1, <1>2

\* A number by 300, and the rest.
LEMMA RestBy300 ==
  ASSUME NEW r \in Nat
  PROVE  \E d, x \in Nat : /\ d = r \div 300 /\ x = r % 300
                           /\ x <= 299 /\ d * 300 + x = r
<1> DEFINE d == r \div 300
           x == r % 300
<1>1. d \in Nat /\ x \in Nat /\ x <= 299 /\ d * 300 + x = r
  BY SMT
<1> HIDE DEF d, x
<1>2. d = r \div 300 /\ x = r % 300
  BY DEF d, x
<1> QED
  BY <1>1, <1>2

\* The product of a clock with 300 is a clock; the base of a clock has 24 bits
\* and its extension 9.
LEMMA PcrType ==
  ASSUME NEW h \in Nat, h <= 65535, NEW l \in Nat, l <= 65535
  PROVE  /\ \E x, y \in Nat : x <= 65535 /\ y <= 65535 /\ Pcr(<<h, l>>) = <<x, y>>
         /\ \E base, ext \in Nat : /\ base <= 14316557 /\ base = Base(<<h, l>>)
                                   /\ ext <= 299 /\ ext = Extension(<<h, l>>)
<1>1. <<h, l>>[1] = h /\ <<h, l>>[2] = l
  OBVIOUS
<1>2. \E x, y \in Nat : x <= 65535 /\ y <= 65535 /\ Pcr(<<h, l>>) = <<x, y>>
  <2> DEFINE x == (h * 300 + ((l * 300) \div 65536)) % 65536
             y == (l * 300) % 65536
  <2>1. x \in Nat /\ x <= 65535 /\ y \in Nat /\ y <= 65535
    BY SMT
  <2>2. Pcr(<<h, l>>) = <<x, y>>
    BY <1>1, SMT DEF Pcr
  <2> HIDE DEF x, y
  <2> QED
    BY <2>1, <2>2
<1>3. PICK q \in Nat, e \in Nat : /\ q = h \div 300 /\ e = h % 300
                                  /\ q <= 218 /\ e <= 299 /\ q * 300 + e = h
  BY HalfBy300
<1>4. e * 65536 + l \in Nat
  BY SMT
<1>5. PICK d \in Nat, x \in Nat :
        /\ d = (e * 65536 + l) \div 300 /\ x = (e * 65536 + l) % 300
        /\ x <= 299 /\ d * 300 + x = e * 65536 + l
  BY <1>4, RestBy300
<1>6. q * 65536 + d \in Nat /\ q * 65536 + d <= 14316557
  <2>1. q * 300 + e <= 65535
    BY <1>3
  <2>2. q * 300 * 65536 + e * 65536 + l <= 4294967295
    BY <2>1, SMT
  <2>3. (q * 65536 + d) * 300 <= 4294967295
    BY <1>5, <2>2, SMT
  <2> QED
    BY <2>3, SMT
<1>7. Base(<<h, l>>) = q * 65536 + d /\ Extension(<<h, l>>) = x
  BY <1>1, <1>3, <1>5, SMT DEF Base, Extension
<1> QED
  BY <1>2, <1>5, <1>6, <1>7, SMT

\* Base and extension of w, put together again, are w.
Split(w, base, ext) ==
  /\ base \in Nat /\ base = Base(w)
  /\ ext \in Nat /\ ext = Extension(w) /\ ext < 300
  /\ Ticks27MHz(base \div 65536, base % 65536, ext) = w

\* Those of every clock are.
LEMMA PcrTicks ==
  ASSUME NEW h \in Nat, h <= 65535, NEW l \in Nat, l <= 65535
  PROVE  \E base, ext : Split(<<h, l>>, base, ext)
<1>1. <<h, l>>[1] = h /\ <<h, l>>[2] = l
  OBVIOUS
<1>2. PICK q \in Nat, e \in Nat : /\ q = h \div 300 /\ e = h % 300
                                  /\ q <= 218 /\ e <= 299 /\ q * 300 + e = h
  BY HalfBy300
<1>3. e * 65536 + l \in Nat
  BY SMT
<1>4. PICK d \in Nat, x \in Nat :
        /\ d = (e * 65536 + l) \div 300 /\ x = (e * 65536 + l) % 300
        /\ x <= 299 /\ d * 300 + x = e * 65536 + l
  BY <1>3, RestBy300
<1>5. Base(<<h, l>>) = q * 65536 + d /\ Extension(<<h, l>>) = x
  BY <1>1, <1>2, <1>4, SMT DEF Base, Extension
<1>6. d <= 65535
  BY <1>2, <1>4, SMT
<1> DEFINE base == q * 65536 + d
<1>7. base \in Nat /\ base \div 65536 = q /\ base % 65536 = d
  BY <1>6, SMT
<1>8. base = Base(<<h, l>>)
  BY <1>5
<1> HIDE DEF base
<1>9. Ticks27MHz(q, d, x) = <<h, l>>
  <2> DEFINE n == d * 300 + x
  <2>1. n = e * 65536 + l
    BY <1>4
  <2>2. n \div 65536 = e /\ n % 65536 = l
    <3> HIDE DEF n
    <3> QED BY <2>1, SMT
  <2>3. Ticks27MHz(q, d, x) = <<(q * 300 + (n \div 65536)) % 65536, n % 65536>>
    BY DEF Ticks27MHz
  <2> HIDE DEF n
  <2>4. (q * 300 + (n \div 65536)) % 65536 = h
    <3>1. q * 300 + (n \div 65536) = h
      BY <1>2, <2>2
    <3>2. h % 65536 = h
      BY SMT
    <3> QED
      BY <3>1, <3>2
  <2> QED
    BY <2>2, <2>3, <2>4
<1> QED
  BY <1>4, <1>5, <1>7, <1>8, <1>9 DEF Split

\* The base is spread over five bytes, the extension over two.
PcrRange(base, ext) ==
  base \in Nat /\ base <= 14316557 /\ ext \in Nat /\ ext <= 299

PcrAt7(b, base, ext) ==
  /\ b[7] = (base \div 33554432) % 256 /\ b[8] = (base \div 131072) % 256
  /\ b[9] = (base \div 512) % 256 /\ b[10] = (base \div 2) % 256
  /\ b[11] = (base % 2) * 128 + 126 + (ext \div 256) /\ b[12] = ext % 256

\* The clock reference that stands in six bytes of this form is read back.
LEMMA SixBytes ==
  ASSUME NEW base, NEW ext, NEW b, PcrRange(base, ext), PcrAt7(b, base, ext)
  PROVE  ReadPcr(b) = <<0, base, ext>>
<1> USE DEF PcrRange, PcrAt7
<1>1. PICK n \in Nat, z \in Nat : /\ n = base \div 2 /\ z = base % 2
                                  /\ z <= 1 /\ 2 * n + z = base /\ n <= 7158278
  <2> DEFINE n == base \div 2
             z == base % 2
  <2>1. n \in Nat /\ z \in Nat /\ z <= 1 /\ 2 * n + z = base /\ n <= 7158278
    BY SMT
  <2> HIDE DEF n, z
  <2>2. n = base \div 2 /\ z = base % 2
    BY DEF n, z
  <2> QED
    BY <2>1, <2>2
<1>2. PICK m \in Nat, y \in Nat : /\ m = n \div 256 /\ y = n % 256
                                  /\ y <= 255 /\ 256 * m + y = n /\ m <= 27962
  <2> DEFINE m == n \div 256
             y == n % 256
  <2>1. m \in Nat /\ y \in Nat /\ y <= 255 /\ 256 * m + y = n /\ m <= 27962
    BY <1>1, SMT
  <2> HIDE DEF m, y
  <2>2. m = n \div 256 /\ y = n % 256
    BY DEF m, y
  <2> QED
    BY <2>1, <2>2
<1>3. PICK k \in Nat, x \in Nat : /\ k = m \div 256 /\ x = m % 256
                                  /\ x <= 255 /\ 256 * k + x = m /\ k <= 109
  <2> DEFINE k == m \div 256
             x == m % 256
  <2>1. k \in Nat /\ x \in Nat /\ x <= 255 /\ 256 * k + x = m /\ k <= 109
    BY <1>2, SMT
  <2> HIDE DEF k, x
  <2>2. k = m \div 256 /\ x = m % 256
    BY DEF k, x
  <2> QED
    BY <2>1, <2>2
<1>4. base = 131072 * k + 512 * x + 2 * y + z
  BY <1>1, <1>2, <1>3
<1>5. base \div 131072 = k /\ base \div 512 = m /\ base \div 33554432 = 0
  <2>1. base = 512 * m + (2 * y + z) /\ 2 * y + z \in 0..511
    BY <1>1, <1>2
  <2>2. base \div 512 = m
    BY <2>1, <1>2, SMT
  <2>3. base \div 131072 = k
    BY <1>1, <1>2, <1>3, <1>4, SMT
  <2> QED
    BY <2>2, <2>3, SMT
<1>6. b[7] = 0 /\ b[8] = k /\ b[9] = x /\ b[10] = y
  <2>1. k % 256 = k /\ 0 % 256 = 0
    BY <1>3, SMT
  <2> QED
    BY <1>1, <1>2, <1>3, <1>5, <2>1, SMT
<1>7. PICK f \in Nat, g \in Nat : /\ f = ext \div 256 /\ g = ext % 256
                                  /\ f <= 1 /\ f * 256 + g = ext
  <2> DEFINE f == ext \div 256
             g == ext % 256
  <2>1. f \in Nat /\ g \in Nat /\ f <= 1 /\ f * 256 + g = ext
    BY SMT
  <2> HIDE DEF f, g
  <2>2. f = ext \div 256 /\ g = ext % 256
    BY DEF f, g
  <2> QED
    BY <2>1, <2>2
<1>8. b[11] = z * 128 + 126 + f /\ b[12] = g
  BY <1>1, <1>7
<1>9. (z * 128 + 126 + f) \div 128 = z /\ (z * 128 + 126 + f) % 2 = f
  BY <1>1, <1>7, SMT
<1>10. /\ b[7] = 0
       /\ ((b[8] * 256 + b[9]) * 256 + b[10]) * 2 + (b[11] \div 128) = base
       /\ (b[11] % 2) * 256 + b[12] = ext
  BY <1>1, <1>2, <1>3, <1>6, <1>7, <1>8, <1>9, SMT
<1> QED
  BY <1>10, SMT DEF ReadPcr

\* The six bytes of a PCR give back its base and its extension.
LEMMA PcrReadBack ==
  ASSUME NEW h \in Nat, h <= 65535, NEW l \in Nat, l <= 65535, NEW b,
         \A k \in 1..6 : b[k + 6] = PcrBytes(<<h, l>>)[k]
  PROVE  ReadPcr(b) = <<0, Base(<<h, l>>), Extension(<<h, l>>)>>
<1>1. PICK base, ext : PcrRange(base, ext) /\ base = Base(<<h, l>>)
                                           /\ ext = Extension(<<h, l>>)
  BY PcrType DEF PcrRange
<1>2. 2^25 = 33554432 /\ 2^17 = 131072 /\ 2^9 = 512
  BY SMT
<1>3. PcrBytes(<<h, l>>) =
        <<(base \div 33554432) % 256, (base \div 131072) % 256, (base \div 512) % 256,
          (base \div 2) % 256, (base % 2) * 128 + 126 + (ext \div 256), ext % 256>>
  BY <1>1, <1>2, SMT DEF PcrBytes, PcrRange
<1>4. PcrAt7(b, base, ext)
  BY <1>3, SMT DEF PcrAt7
<1>5. ReadPcr(b) = <<0, base, ext>>
  BY ONLY <1>1, <1>4, SixBytes, Zenon
<1> QED
  BY ONLY <1>1, <1>5, Zenon
-----------------------------------------------------------------------------
\* Two sequences behind each other.
Joined(S, r, s, t, m, n) ==
  /\ r \in Seq(S) /\ Len(r) = m + n
  /\ \A k \in 1..m : r[k] = s[k]
  /\ \A k \in 1..n : r[m + k] = t[k]

\* Two sequences joined are that.
LEMMA TwoParts ==
  \A S : \A s, t \in Seq(S) : Joined(S, s \o t, s, t, Len(s), Len(t))
<1> SUFFICES ASSUME NEW S, NEW s \in Seq(S), NEW t \in Seq(S)
             PROVE  Joined(S, s \o t, s, t, Len(s), Len(t))
  OBVIOUS
<1>1. Len(s) \in Nat /\ Len(t) \in Nat
  OBVIOUS
<1> QED
  BY <1>1, ConcatProperties DEF Joined

\* Three sequences behind each other.
ThreeJoined(S, r, s, t, u) ==
  /\ r \in Seq(S)
  /\ Len(r) = Len(s) + Len(t) + Len(u)
  /\ \A k \in 1..Len(s) : r[k] = s[k]
  /\ \A k \in 1..Len(t) : r[Len(s) + k] = t[k]
  /\ \A k \in 1..Len(u) : r[Len(s) + Len(t) + k] = u[k]

\* So are three.
LEMMA ThreeParts ==
  \A S : \A s, t, u \in Seq(S) : ThreeJoined(S, s \o t \o u, s, t, u)
<1> SUFFICES ASSUME NEW S, NEW s \in Seq(S), NEW t \in Seq(S), NEW u \in Seq(S)
             PROVE  ThreeJoined(S, s \o t \o u, s, t, u)
  OBVIOUS
<1>1. Len(s) \in Nat /\ Len(t) \in Nat /\ Len(u) \in Nat
  OBVIOUS
<1> DEFINE v == s \o t
<1>2. Joined(S, v, s, t, Len(s), Len(t))
  BY TwoParts, Zenon
<1> HIDE DEF v
<1>3. v \in Seq(S) /\ Len(v) = Len(s) + Len(t)
  BY <1>2 DEF Joined
<1>4. Joined(S, v \o u, v, u, Len(v), Len(u))
  BY <1>3, TwoParts, Zenon
<1> QED
  BY <1>1, <1>2, <1>3, <1>4 DEF v, Joined, ThreeJoined

\* The clocks a frame is stamped with.
Clocks == [MediaPids -> Half \X Half]

\* A half of 32 bits.
LEMMA HalfBounds ==
  ASSUME NEW h, h \in Half
  PROVE  h \in Nat /\ h <= 65535
<1> DEFINE n == 65535
<1>1. h \in 0..n
  BY SMTT(60) DEF Half
<1>2. n \in Nat
  OBVIOUS
<1> HIDE DEF n
<1>3. h \in Nat /\ h <= n
  BY <1>1, <1>2
<1> QED
  BY <1>3 DEF n

\* A clock is a pair of halves.
LEMMA Clock ==
  ASSUME NEW times \in Clocks, NEW pid \in MediaPids
  PROVE  \E h, l \in Nat : h <= 65535 /\ l <= 65535 /\ times[pid] = <<h, l>>
<1>1. times[pid] \in Half \X Half
  BY Zenon DEF Clocks
<1>2. PICK h \in Half, l \in Half : times[pid] = <<h, l>>
  BY <1>1, SMT
<1>3. h \in Nat /\ l \in Nat /\ h <= 65535 /\ l <= 65535
  BY HalfBounds, SMT
<1> QED
  BY <1>2, <1>3, SMT

\* The adaptation field is as long as the packet says, and begins with its
\* length and its flags; a PCR follows them.
LEMMA AdaptationParts ==
  ASSUME NEW p, p.ada_field_C \in {1, 3}, p.aflen \in Nat, p.pcr \in BOOLEAN,
         p.pcr => p.ada_field_C = 3,
         Marked(p.play_init, p.ada_field_C, p.aflen, p.pcr, p.from),
         NEW times \in Clocks, NEW a, a = AdaptationBytes(p, times[TS_H264_PID])
  PROVE  /\ a \in Seq(Int)
         /\ Len(a) = IF p.ada_field_C = 3 THEN 1 + p.aflen ELSE 0
         /\ p.ada_field_C = 3 =>
              /\ Len(a) >= 2
              /\ a[1] = p.aflen
              /\ a[2] = IF p.pcr THEN 16 ELSE 0
              /\ p.pcr => /\ Len(a) = 8
                          /\ \A k \in 1..6 : a[k + 2] = PcrBytes(Pcr(times[TS_H264_PID]))[k]
<1> DEFINE pcr == Pcr(times[TS_H264_PID])
<1>1. CASE p.ada_field_C = 1
  <2>1. a = <<>>
    <3>1. ~p.pcr
      BY <1>1
    <3> QED
      BY <1>1, <3>1, Zenon DEF AdaptationBytes
  <2> QED
    BY <1>1, <2>1
<1>2. CASE p.ada_field_C = 3 /\ p.pcr
  <2>1. a = <<p.aflen, 16>> \o PcrBytes(pcr)
    BY <1>2 DEF AdaptationBytes
  <2>2. PcrBytes(pcr) \in Seq(Int) /\ Len(PcrBytes(pcr)) = 6
    <3>1. PICK h \in Nat, l \in Nat : h <= 65535 /\ l <= 65535 /\ times[TS_H264_PID] = <<h, l>>
      BY Clock DEF MediaPids
    <3>2. PICK x \in Nat, y \in Nat : x <= 65535 /\ y <= 65535 /\ pcr = <<x, y>>
      BY <3>1, PcrType
    <3>3. PICK base, ext : PcrRange(base, ext) /\ base = Base(pcr) /\ ext = Extension(pcr)
      BY <3>2, PcrType DEF PcrRange
    <3> HIDE DEF pcr
    <3>4. base \in Int /\ ext \in Int
      BY <3>3, SMT DEF PcrRange
    <3>5. 2^25 = 33554432 /\ 2^17 = 131072 /\ 2^9 = 512
      BY SMT
    <3> QED
      BY <3>3, <3>4, <3>5, SMT DEF PcrBytes
  <2> HIDE DEF pcr
  <2>3. <<p.aflen, 16>> \in Seq(Int) /\ Len(<<p.aflen, 16>>) = 2
    OBVIOUS
  <2>4. /\ a \in Seq(Int) /\ Len(a) = 8
        /\ \A k \in 1..2 : a[k] = <<p.aflen, 16>>[k]
        /\ \A k \in 1..6 : a[2 + k] = PcrBytes(pcr)[k]
    <3> DEFINE f == <<p.aflen, 16>>
               g == PcrBytes(pcr)
    <3>1. f \in Seq(Int) /\ 2 = Len(f) /\ g \in Seq(Int) /\ 6 = Len(g)
      BY <2>2, <2>3
    <3>2. a = f \o g
      BY <2>1
    <3> HIDE DEF f, g
    <3>3. /\ f \o g \in Seq(Int) /\ Len(f \o g) = 2 + 6
          /\ \A k \in 1..2 : (f \o g)[k] = f[k]
          /\ \A k \in 1..6 : (f \o g)[2 + k] = g[k]
      <4>1. Joined(Int, f \o g, f, g, Len(f), Len(g))
        BY <3>1, TwoParts, Zenon
      <4> QED
        BY <3>1, <4>1 DEF Joined
    <3> QED
      BY <3>2, <3>3, SMTT(30) DEF f, g
  <2>5. a[1] = p.aflen /\ a[2] = 16 /\ \A k \in 1..6 : a[k + 2] = PcrBytes(pcr)[k]
    BY <2>4
  <2>6. p.aflen = 7
    BY <1>2 DEF Marked
  <2> QED
    BY <1>2, <2>4, <2>5, <2>6 DEF pcr
<1>3. CASE p.ada_field_C = 3 /\ ~p.pcr
  <2> DEFINE stuffing == [k \in 1..(p.aflen - 1) |-> 255]
  <2>1. a = <<p.aflen, 0>> \o stuffing
    <3>1. ~(p.ada_field_C = 1)
      BY <1>3
    <3> QED
      BY <1>3, <3>1, Zenon DEF AdaptationBytes
  <2>2. p.aflen >= 1
    BY <1>3 DEF Marked
  <2>3. stuffing \in Seq(Int) /\ Len(stuffing) = p.aflen - 1
    BY <2>2
  <2> HIDE DEF stuffing
  <2>4. <<p.aflen, 0>> \in Seq(Int) /\ Len(<<p.aflen, 0>>) = 2
    OBVIOUS
  <2>5. /\ a \in Seq(Int) /\ Len(a) = 1 + p.aflen
        /\ \A k \in 1..2 : a[k] = <<p.aflen, 0>>[k]
    <3>1. Joined(Int, <<p.aflen, 0>> \o stuffing, <<p.aflen, 0>>, stuffing,
                 Len(<<p.aflen, 0>>), Len(stuffing))
      BY <2>3, <2>4, TwoParts, Zenon
    <3> QED
      BY <2>1, <2>2, <2>3, <2>4, <3>1 DEF Joined
  <2>6. a[1] = p.aflen /\ a[2] = 0
    BY <2>5
  <2> QED
    BY <1>3, <2>2, <2>5, <2>6
<1> QED
  BY <1>1, <1>2, <1>3

\* The header of a frame: nine fixed bytes and its clock.
PesFields(a, pts) ==
  /\ a \in Seq(Int) /\ Len(a) = 14
  /\ a[1] = 0 /\ a[2] = 0 /\ a[3] = 1 /\ a[8] = 128 /\ a[9] = 5
  /\ \A k \in 1..5 : a[9 + k] = PtsBytes(pts)[k]

\* The header of a PES packet has these fields.
LEMMA PesParts ==
  ASSUME NEW pid \in MediaPids, NEW times \in Clocks
  PROVE  PesFields(PesHeader(pid, times), times[pid])
<1> DEFINE a == PesHeader(pid, times)
<1>1. PICK h \in Nat, l \in Nat : h <= 65535 /\ l <= 65535 /\ times[pid] = <<h, l>>
  BY Clock
<1>2. PtsBytes(times[pid]) \in Seq(Int) /\ Len(PtsBytes(times[pid])) = 5
  <2>1. <<h, l>>[1] = h /\ <<h, l>>[2] = l
    OBVIOUS
  <2>2. 2^14 = 16384 /\ 2^15 = 32768
    BY SMT
  <2>3. \E u, v, w \in Int : PtsBytes(<<h, l>>) = <<w, u \div 256, u % 256, v \div 256, v % 256>>
    <3> DEFINE u == 2 * ((h % 16384) * 2 + (l \div 32768)) + 1
               v == 2 * (l % 32768) + 1
               w == 48 + 2 * (h \div 16384) + 1
    <3>1. u \in Int /\ v \in Int /\ w \in Int
      BY SMT
    <3>2. PtsBytes(<<h, l>>) = <<w, u \div 256, u % 256, v \div 256, v % 256>>
      BY <2>1, <2>2, SMT DEF PtsBytes
    <3> HIDE DEF u, v, w
    <3> QED
      BY <3>1, <3>2
  <2>4. PICK u \in Int, v \in Int, w \in Int :
          PtsBytes(times[pid]) = <<w, u \div 256, u % 256, v \div 256, v % 256>>
    BY <1>1, <2>3
  <2>5. u \div 256 \in Int /\ u % 256 \in Int /\ v \div 256 \in Int /\ v % 256 \in Int
    BY SMT
  <2> QED
    BY <2>4, <2>5
<1>3. /\ FixedBytes(pid) \in Seq(Int) /\ Len(FixedBytes(pid)) = 9
      /\ FixedBytes(pid)[1] = 0 /\ FixedBytes(pid)[2] = 0 /\ FixedBytes(pid)[3] = 1
      /\ FixedBytes(pid)[8] = 128 /\ FixedBytes(pid)[9] = 5
  BY DEF FixedBytes, H2642PES, AAC2PES
<1>4. a = FixedBytes(pid) \o PtsBytes(times[pid])
  BY DEF PesHeader
<1> HIDE DEF a
<1>5. /\ a \in Seq(Int) /\ Len(a) = 14
      /\ \A k \in 1..9 : a[k] = FixedBytes(pid)[k]
      /\ \A k \in 1..5 : a[9 + k] = PtsBytes(times[pid])[k]
  <2> DEFINE f == FixedBytes(pid)
             g == PtsBytes(times[pid])
  <2>1. f \in Seq(Int) /\ 9 = Len(f) /\ g \in Seq(Int) /\ 5 = Len(g)
    BY <1>2, <1>3
  <2>2. a = f \o g
    BY <1>4
  <2> HIDE DEF f, g
  <2>3. /\ f \o g \in Seq(Int) /\ Len(f \o g) = 9 + 5
        /\ \A k \in 1..9 : (f \o g)[k] = f[k]
        /\ \A k \in 1..5 : (f \o g)[9 + k] = g[k]
    <3>1. Joined(Int, f \o g, f, g, Len(f), Len(g))
      BY <2>1, TwoParts, Zenon
    <3> QED
      BY <2>1, <3>1 DEF Joined
  <2>4. /\ a \in Seq(Int) /\ Len(a) = 14
        /\ \A k \in 1..9 : a[k] = f[k]
        /\ \A k \in 1..5 : a[9 + k] = g[k]
    <3>1. /\ a \in Seq(Int) /\ Len(a) = 9 + 5
          /\ \A k \in 1..9 : a[k] = f[k]
          /\ \A k \in 1..5 : a[9 + k] = g[k]
      BY <2>2, <2>3, Zenon
    <3> QED
      BY <3>1
  <2> QED
    BY <2>4, Zenon DEF f, g
<1> QED
  BY <1>3, <1>5 DEF PesFields, a

\* The PID and the flag of a first packet share a byte and a half, the kind of
\* the packet and its counter a byte.
LEMMA HeaderFields ==
  ASSUME NEW init \in 0..1, NEW pid \in MediaPids, NEW afc \in {1, 3}, NEW c \in 0..15,
         NEW b, b[2] = init * 64 + ((pid \div 256) % 32), b[3] = pid % 256,
         b[4] = afc * 16 + c
  PROVE  /\ Pid(b) = pid
         /\ b[4] % 16 = c
         /\ HasPes(b) <=> init = 1
         /\ (b[4] \div 32) % 2 = 1 <=> afc = 3
<1>1. b[3] = (IF pid = 256 THEN 0 ELSE 1) /\ b[2] = init * 64 + 1
  BY DEF MediaPids, TS_H264_PID, TS_AAC_PID
<1>2. b[2] = IF init = 1 THEN 65 ELSE 1
  BY <1>1
<1>3. Pid(b) = pid
  BY <1>1, <1>2 DEF Pid, MediaPids, TS_H264_PID, TS_AAC_PID
<1>4. HasPes(b) <=> init = 1
  BY <1>2 DEF HasPes
<1>5. b[4] % 16 = c
  BY SMT
<1>6. (b[4] \div 32) % 2 = 1 <=> afc = 3
  BY SMT
<1> QED
  BY <1>3, <1>4, <1>5, <1>6

\* A receiver reads back every packet PES2TS writes, whatever its clocks are.
LEMMA PacketReadsBack ==
  ASSUME NEW p \in Packet, WellFormed(p), MarkedPacket(p), p.frame # 0, NEW times \in Clocks
  PROVE  ReadsBack(p, times)
<1> DEFINE h == HeaderBytes(p)
           a == AdaptationBytes(p, times[TS_H264_PID])
           f == IF p.play_init = 1 THEN PesHeader(p.pid, times) ELSE <<>>
           b == MediaBytes(p, times)
           at == TS_PACKET_HEADER + AfLen(b)
           pcr == Pcr(times[TS_H264_PID])
<1>1. /\ p.pid \in MediaPids
      /\ Marked(p.play_init, p.ada_field_C, p.aflen, p.pcr, p.from)
      /\ p.at = PayloadStart(p)
      /\ p.pcr => p.ada_field_C = 3
  BY DEF MarkedPacket, WellFormed
<1>2. /\ p.ada_field_C \in {1, 3} /\ p.aflen \in Nat /\ p.pcr \in BOOLEAN
      /\ p.play_init \in 0..1 /\ p.conti_cter \in 0..15
  BY DEF Packet
<1>3. /\ h \in Seq(Int) /\ Len(h) = 4
      /\ h[1] = 71 /\ h[2] = p.play_init * 64 + ((p.pid \div 256) % 32)
      /\ h[3] = p.pid % 256 /\ h[4] = p.ada_field_C * 16 + p.conti_cter
  BY <1>1, <1>2 DEF HeaderBytes, MediaPids, TS_H264_PID, TS_AAC_PID
<1>4. /\ a \in Seq(Int)
      /\ Len(a) = IF p.ada_field_C = 3 THEN 1 + p.aflen ELSE 0
      /\ p.ada_field_C = 3 =>
           /\ Len(a) >= 2
           /\ a[1] = p.aflen
           /\ a[2] = IF p.pcr THEN 16 ELSE 0
           /\ p.pcr => /\ Len(a) = 8
                       /\ \A k \in 1..6 : a[k + 2] = PcrBytes(pcr)[k]
  BY <1>1, <1>2, AdaptationParts
<1>5. /\ f \in Seq(Int)
      /\ Len(f) = IF p.play_init = 1 THEN 14 ELSE 0
      /\ p.play_init = 1 =>
           /\ f[1] = 0 /\ f[2] = 0 /\ f[3] = 1 /\ f[8] = 128 /\ f[9] = 5
           /\ \A k \in 1..5 : f[9 + k] = PtsBytes(times[p.pid])[k]
  <2>1. CASE p.play_init = 1
    <3> DEFINE g == PesHeader(p.pid, times)
    <3>1. f = g
      BY <2>1
    <3>2. g = PesHeader(p.pid, times)
      OBVIOUS
    <3> HIDE DEF f, g
    <3>3. PesFields(g, times[p.pid])
      BY <1>1, <3>2, PesParts, Zenon
    <3> QED
      BY <2>1, <3>1, <3>3 DEF PesFields
  <2>2. CASE p.play_init # 1
    <3>1. f = <<>>
      BY <2>2
    <3> HIDE DEF f
    <3> QED
      BY <2>2, <3>1
  <2> QED
    BY <2>1, <2>2
<1>6. b = h \o a \o f
  BY DEF MediaBytes
<1> HIDE DEF h, a, f, b, pcr
<1>7. /\ b \in Seq(Int)
      /\ Len(b) = 4 + Len(a) + Len(f)
      /\ \A k \in 1..4 : b[k] = h[k]
      /\ \A k \in 1..Len(a) : b[4 + k] = a[k]
      /\ \A k \in 1..Len(f) : b[4 + Len(a) + k] = f[k]
  <2>1. ThreeJoined(Int, h \o a \o f, h, a, f)
    BY <1>3, <1>4, <1>5, ThreeParts, Zenon
  <2> QED
    BY <1>3, <1>6, <2>1, ZenonT(60) DEF ThreeJoined
<1>8. /\ b[1] = 71 /\ Pid(b) = p.pid /\ b[4] % 16 = p.conti_cter
      /\ HasPes(b) <=> p.play_init = 1
      /\ (b[4] \div 32) % 2 = 1 <=> p.ada_field_C = 3
  <2>1. /\ b[1] = 71 /\ b[2] = p.play_init * 64 + ((p.pid \div 256) % 32)
        /\ b[3] = p.pid % 256 /\ b[4] = p.ada_field_C * 16 + p.conti_cter
    BY <1>3, <1>7
  <2> QED
    BY <1>1, <1>2, <2>1, HeaderFields
<1>9. AfLen(b) = Len(a)
  <2>1. p.ada_field_C = 3 => b[5] = p.aflen
    BY <1>4, <1>7
  <2> QED
    BY <1>2, <1>4, <1>8, <2>1 DEF AfLen
<1>10. Len(b) = p.at
  BY <1>1, <1>2, <1>4, <1>5, <1>7
     DEF PayloadStart, TS_PACKET_HEADER, PES_HEADER
<1>11. HasPes(b) <=> p.from = 0
  BY <1>1, <1>8 DEF Marked
<1>12. ASSUME HasPes(b)
       PROVE  /\ SubSeq(b, at + 1, at + 3) = <<0, 0, 1>>
              /\ b[at + 8] \div 64 = 2 /\ b[at + 9] = 5
              /\ at + 9 + b[at + 9] = p.at
              /\ ReadPts(b, at + 9) = times[p.pid] /\ MarkersSet(b, at + 9)
  <2>1. p.play_init = 1 /\ Len(f) = 14
    BY <1>5, <1>8, <1>12
  <2>2. at = 4 + Len(a) /\ at \in Nat /\ Len(b) = at + 14
    <3>1. Len(a) \in Nat
      BY <1>4
    <3>2. at = 4 + Len(a)
      BY <1>9 DEF TS_PACKET_HEADER
    <3> HIDE DEF at
    <3> QED
      BY <1>7, <2>1, <3>1, <3>2
  <2> HIDE DEF at
  <2>3. \A k \in 1..14 : b[at + k] = f[k]
    BY <1>7, <2>1, <2>2
  <2>4. /\ b[at + 1] = 0 /\ b[at + 2] = 0 /\ b[at + 3] = 1
        /\ b[at + 8] = 128 /\ b[at + 9] = 5
    BY <1>5, <2>1, <2>3
  <2>5. SubSeq(b, at + 1, at + 3) = <<0, 0, 1>>
    <3> DEFINE s == SubSeq(b, at + 1, at + 3)
    <3>1. s \in Seq(Int) /\ Len(s) = 3 /\ \A k \in 1..3 : s[k] = b[at + k]
      BY <1>7, <2>2, SubSeqProperties
    <3> HIDE DEF s
    <3>2. s[1] = 0 /\ s[2] = 0 /\ s[3] = 1
      BY <2>4, <3>1
    <3>3. s = <<0, 0, 1>>
      BY <3>1, <3>2, SeqEqual
    <3> QED
      BY <3>3 DEF s
  <2>6. PICK x \in Nat, y \in Nat : x <= 65535 /\ y <= 65535 /\ times[p.pid] = <<x, y>>
    BY <1>1, Clock
  <2>7. \A k \in 1..5 : b[(at + 9) + k] = PtsBytes(<<x, y>>)[k]
    <3> SUFFICES ASSUME NEW k \in 1..5
                 PROVE  b[(at + 9) + k] = PtsBytes(times[p.pid])[k]
      BY <2>6
    <3>1. 9 + k \in 1..14 /\ (at + 9) + k = at + (9 + k)
      BY <2>2
    <3> QED
      BY <1>5, <2>1, <2>3, <3>1
  <2>8. ReadPts(b, at + 9) = <<x, y>> /\ MarkersSet(b, at + 9)
    <3>1. at + 9 \in Nat
      BY <2>2
    <3> QED
      BY <2>6, <2>7, <3>1, PtsReadBack
  <2> QED
    BY <1>10, <2>2, <2>4, <2>5, <2>6, <2>8
<1>13. CarriesPcr(b) <=> p.pcr
  <2>1. AfLen(b) > 1 <=> p.ada_field_C = 3
    BY <1>2, <1>4, <1>9
  <2>2. p.ada_field_C = 3 => b[6] = IF p.pcr THEN 16 ELSE 0
    <3>1. p.ada_field_C = 3 => b[4 + 2] = a[2]
      BY <1>4, <1>7
    <3> QED
      BY <1>4, <3>1
  <2>3. (16 \div 16) % 2 = 1 /\ (0 \div 16) % 2 = 0
    BY SMT
  <2> QED
    BY <1>1, <1>2, <2>1, <2>2, <2>3 DEF CarriesPcr
<1> DEFINE clock == times[TS_H264_PID]
<1>14. ASSUME p.pcr
       PROVE  LET read == ReadPcr(b)
              IN  /\ read[1] = 0 /\ read[3] < 300
                  /\ Ticks27MHz(read[2] \div 65536, read[2] % 65536, read[3])
                       = Ticks27MHz(clock[1], clock[2], 0)
  <2>1. p.ada_field_C = 3 /\ p.pcr
    BY <1>1, <1>14
  <2>4. \A k \in 1..6 : b[k + 6] = PcrBytes(pcr)[k]
    <3> SUFFICES ASSUME NEW k \in 1..6 PROVE b[k + 6] = PcrBytes(pcr)[k]
      OBVIOUS
    <3>1. k + 2 \in 1..8 /\ 4 + (k + 2) = k + 6
      OBVIOUS
    <3>2. Len(a) = 8 /\ a[k + 2] = PcrBytes(pcr)[k]
      BY <1>4, <2>1
    <3>3. b[4 + (k + 2)] = a[k + 2]
      BY <1>7, <3>1, <3>2
    <3> QED
      BY <3>1, <3>2, <3>3
  <2>5. PICK u \in Nat, v \in Nat : u <= 65535 /\ v <= 65535 /\ clock = <<u, v>>
    BY Clock DEF MediaPids
  <2>6. pcr = Ticks27MHz(clock[1], clock[2], 0)
    <3>1. v * 300 + 0 = v * 300
      BY <2>5
    <3>2. pcr = Pcr(clock)
      BY DEF pcr
    <3> HIDE DEF clock
    <3> QED
      BY <2>5, <3>1, <3>2 DEF Pcr, Ticks27MHz
  <2>7. PICK x \in Nat, y \in Nat : x <= 65535 /\ y <= 65535 /\ pcr = <<x, y>>
    <3>1. pcr = Pcr(<<u, v>>)
      BY <2>5 DEF pcr
    <3> QED
      BY <2>5, <3>1, PcrType
  <2>8. PICK base, ext : Split(pcr, base, ext)
    BY <2>7, PcrTicks
  <2>9. ReadPcr(b) = <<0, base, ext>>
    BY <2>4, <2>7, <2>8, PcrReadBack DEF Split
  <2> HIDE DEF clock
  <2> QED
    BY <2>6, <2>8, <2>9 DEF Split
<1> QED
  BY <1>8, <1>10, <1>11, <1>12, <1>13, <1>14 DEF ReadsBack, b, pcr

\* A receiver finds in the bytes of the last packet what was meant: the PID and
\* its counter, the frame where it was put, its clock and the PCR.
THEOREM ReceiverCorrect == Spec => []ReceiverReadsPacket
<1>1. ASSUME IInv, PacketsMarked PROVE ReceiverReadsPacket
  <2> DEFINE n == Len(ts_file)
             p == ts_file[n]
  <2> SUFFICES ASSUME n > 0, p.frame # 0,
                      NEW times \in [MediaPids -> (IF p.play_init = 1 THEN Times ELSE {<<0, 0>>})]
               PROVE  ReadsBack(p, times)
    BY Zenon DEF ReceiverReadsPacket
  <2>1. ts_file \in Seq(Packet)
    BY <1>1 DEF IInv, TypeOK
  <2>2. n \in DOMAIN ts_file /\ p \in Packet
    BY <2>1
  <2>3. WellFormed(p) /\ MarkedPacket(p)
    BY <1>1, <2>2 DEF IInv, PacketsWellFormed, PacketsMarked
  <2>4. times \in Clocks
    <3>1. Times \subseteq Half \X Half /\ <<0, 0>> \in Half \X Half
      <4>1. 0 \in Half
        BY SMT DEF Half
      <4> QED
        BY <4>1, TimesAssumption, Zenon
    <3>2. (IF p.play_init = 1 THEN Times ELSE {<<0, 0>>}) \subseteq Half \X Half
      BY <3>1, Zenon
    <3> HIDE DEF p
    <3> QED
      BY <3>2, Zenon DEF Clocks
  <2> HIDE DEF p
  <2> QED
    BY <2>2, <2>3, <2>4, PacketReadsBack
<1> QED
  BY <1>1, Invariance, MarkedInvariance, PTL
-----------------------------------------------------------------------------
\* The section of the PAT: its length, and the PID of the PMT.
LEMMA PatFields ==
  /\ PatSection \in Seq(Byte) /\ Len(PatSection) = 12
  /\ PatSection[1] = 0 /\ PatSection[2] = 176 /\ PatSection[3] = 13
  /\ PatSection[11] = 239 /\ PatSection[12] = 255
BY DEF PatSection, TS_PMT_PID, Byte

\* The section of the PMT: its length, the PID of the PCR and the two streams.
LEMMA PmtFields ==
  /\ PmtSection \in Seq(Byte) /\ Len(PmtSection) = 22
  /\ PmtSection[1] = 2 /\ PmtSection[2] = 176 /\ PmtSection[3] = 23
  /\ PmtSection[9] = 225 /\ PmtSection[10] = 0
  /\ PmtSection[13] = 27 /\ PmtSection[14] = 225 /\ PmtSection[15] = 0
  /\ PmtSection[18] = 15 /\ PmtSection[19] = 225 /\ PmtSection[20] = 1
<1> DEFINE s == <<2, 176, 23, 0, 1, 193, 0, 0, 7 * 32 + ((TS_H264_PID \div 256) % 32),
                  TS_H264_PID % 256, 240, 0>>
           t == PmtStream(PMT_STREAM_TYPE_VIDEO, TS_H264_PID)
           u == PmtStream(PMT_STREAM_TYPE_AUDIO, TS_AAC_PID)
<1>1. /\ s \in Seq(Byte) /\ Len(s) = 12 /\ s[1] = 2 /\ s[2] = 176 /\ s[3] = 23
      /\ s[9] = 225 /\ s[10] = 0
  BY DEF TS_H264_PID, Byte
<1>2. t \in Seq(Byte) /\ Len(t) = 5 /\ t[1] = 27 /\ t[2] = 225 /\ t[3] = 0
  BY DEF TS_H264_PID, Byte, PmtStream, PMT_STREAM_TYPE_VIDEO
<1>3. u \in Seq(Byte) /\ Len(u) = 5 /\ u[1] = 15 /\ u[2] = 225 /\ u[3] = 1
  BY DEF TS_AAC_PID, Byte, PmtStream, PMT_STREAM_TYPE_AUDIO
<1>4. PmtSection = s \o t \o u
  BY DEF PmtSection
<1> HIDE DEF s, t, u
<1>5. ThreeJoined(Byte, s \o t \o u, s, t, u)
  BY <1>1, <1>2, <1>3, ThreeParts, Zenon
<1> DEFINE r == PmtSection
<1>6. /\ r \in Seq(Byte) /\ Len(r) = Len(s) + Len(t) + Len(u)
      /\ \A k \in 1..Len(s) : r[k] = s[k]
      /\ \A k \in 1..Len(t) : r[Len(s) + k] = t[k]
      /\ \A k \in 1..Len(u) : r[Len(s) + Len(t) + k] = u[k]
  BY <1>4, <1>5, Zenon DEF ThreeJoined
<1> HIDE DEF r
<1>7. /\ r \in Seq(Byte) /\ Len(r) = 22
      /\ \A k \in 1..12 : r[k] = s[k]
      /\ \A k \in 1..5 : r[12 + k] = t[k]
      /\ \A k \in 1..5 : r[17 + k] = u[k]
  BY <1>1, <1>2, <1>3, <1>6
<1> QED
  BY <1>1, <1>2, <1>3, <1>7 DEF r

\* The length of a section without its checksum.
LEMMA SectionLength ==
  ASSUME NEW pid \in TablePids, NEW s,
         s = IF pid = TS_PAT_PID THEN PatSection ELSE PmtSection
  PROVE  \E m \in Nat : m >= 12 /\ m <= 22 /\ Len(s) = m /\ s[2] = 176 /\ s[3] = m + 1
<1>1. CASE s = PatSection
  <2>1. Len(s) = 12 /\ s[2] = 176 /\ s[3] = 12 + 1
    BY <1>1, PatFields
  <2>2. 12 \in Nat /\ 12 >= 12 /\ 12 <= 22
    OBVIOUS
  <2> QED
    BY <2>1, <2>2, Zenon
<1>2. CASE s = PmtSection
  <2>1. Len(s) = 22 /\ s[2] = 176 /\ s[3] = 22 + 1
    BY <1>2, PmtFields
  <2>2. 22 \in Nat /\ 22 >= 12 /\ 22 <= 22
    OBVIOUS
  <2> QED
    BY <2>1, <2>2, Zenon
<1> QED
  BY <1>1, <1>2, Zenon

\* A section is as long as it says, and its checksum is right.
LEMMA SectionFields ==
  ASSUME NEW pid \in TablePids, NEW s,
         s = IF pid = TS_PAT_PID THEN PatSection ELSE PmtSection
  PROVE  /\ SectionOf(pid) \in Seq(Byte)
         /\ Len(SectionOf(pid)) = Len(s) + 4
         /\ \A k \in 1..Len(s) : SectionOf(pid)[k] = s[k]
         /\ Remainder(SectionOf(pid)) = [k \in 1..32 |-> 0]
<1> DEFINE z == SectionOf(pid)
           c == CrcBytes(s)
<1>1. s \in Seq(Byte) /\ Len(s) \in Nat
  BY PatFields, PmtFields
<1>2. z = s \o c
  BY DEF SectionOf
<1>3. /\ s \o c \in Seq(Byte) /\ Len(s \o c) = Len(s) + 4
      /\ Remainder(s \o c) = [k \in 1..32 |-> 0]
  BY <1>1, ChecksumCorrect, Zenon
<1>4. c \in Seq(Byte)
  BY <1>1, ChecksumTyped
<1> HIDE DEF c, z
<1>5. Joined(Byte, s \o c, s, c, Len(s), Len(c))
  BY <1>1, <1>4, TwoParts, Zenon
<1>6. \A k \in 1..Len(s) : (s \o c)[k] = s[k]
  BY <1>5, Zenon DEF Joined
<1>7. /\ z \in Seq(Byte) /\ Len(z) = Len(s) + 4
      /\ \A k \in 1..Len(s) : z[k] = s[k]
      /\ Remainder(z) = [k \in 1..32 |-> 0]
  BY <1>2, <1>3, <1>6, Zenon
<1> QED
  BY <1>7 DEF z

\* The bytes of a table packet are its header, a zero, the section and stuffing.
LEMMA TableParts ==
  ASSUME NEW p, p.pid \in TablePids, p.play_init = 1, p.ada_field_C = 1,
         p.conti_cter \in 0..15, NEW b, b = TableBytes(p)
  PROVE  /\ Len(b) = 188 /\ b[4] \div 16 = 1 /\ Pid(b) = p.pid
         /\ b[5] = 0
         /\ \A k \in 1..Len(SectionOf(p.pid)) : b[5 + k] = SectionOf(p.pid)[k]
<1> DEFINE h == HeaderBytes(p)
           z == SectionOf(p.pid)
           o == <<0>>
           u == h \o o \o z
           f == [k \in 1..(TS_PACKET_SIZE - Len(u)) |-> 255]
<1>1. /\ h \in Seq(Int) /\ Len(h) = 4
      /\ h[2] = 64 + ((p.pid \div 256) % 32) /\ h[3] = p.pid % 256
      /\ h[4] = 16 + p.conti_cter
  BY DEF HeaderBytes, TablePids, TS_PAT_PID, TS_PMT_PID
<1>2. z \in Seq(Int) /\ Len(z) \in Nat /\ Len(z) <= 26
  <2> DEFINE s == IF p.pid = TS_PAT_PID THEN PatSection ELSE PmtSection
  <2>1. PICK m \in Nat : m >= 12 /\ m <= 22 /\ Len(s) = m /\ s[2] = 176 /\ s[3] = m + 1
    BY SectionLength
  <2>2. z \in Seq(Byte) /\ Len(z) = Len(s) + 4
    BY SectionFields
  <2>3. z \in Seq(Int)
    <3>1. Byte \subseteq Int
      BY DEF Byte
    <3> QED
      BY <2>2, <3>1, SeqMonotonic
  <2> HIDE DEF z, s
  <2>4. Len(z) \in Nat /\ Len(z) <= 26
    BY <2>1, <2>2
  <2> QED
    BY <2>3, <2>4
<1>3. o \in Seq(Int) /\ Len(o) = 1 /\ o[1] = 0
  OBVIOUS
<1>4. b = u \o f
  BY Zenon DEF TableBytes
<1> HIDE DEF h, z, o
<1>5. ThreeJoined(Int, u, h, o, z)
  BY <1>1, <1>2, <1>3, ThreeParts, Zenon
<1> HIDE DEF u
<1>6. /\ u \in Seq(Int) /\ Len(u) = 5 + Len(z)
      /\ \A k \in 1..4 : u[k] = h[k]
      /\ u[5] = 0
      /\ \A k \in 1..Len(z) : u[5 + k] = z[k]
  <2>1. /\ u \in Seq(Int) /\ Len(u) = 4 + 1 + Len(z)
        /\ \A k \in 1..4 : u[k] = h[k]
        /\ \A k \in 1..1 : u[4 + k] = o[k]
        /\ \A k \in 1..Len(z) : u[4 + 1 + k] = z[k]
    BY <1>1, <1>3, <1>5 DEF ThreeJoined
  <2> QED
    BY <1>2, <1>3, <2>1
<1>7. f \in Seq(Int) /\ Len(f) = 188 - Len(u)
  <2>1. 188 - Len(u) \in Nat /\ TS_PACKET_SIZE = 188
    BY <1>2, <1>6 DEF TS_PACKET_SIZE
  <2>2. f \in [1..(188 - Len(u)) -> Int]
    BY <2>1
  <2> HIDE DEF f
  <2> QED
    BY <2>1, <2>2, FunctionIsSeq
<1> HIDE DEF f
<1>8. Joined(Int, u \o f, u, f, Len(u), Len(f))
  BY <1>6, <1>7, TwoParts, Zenon
<1>9. Len(b) = 188 /\ \A k \in 1..Len(u) : b[k] = u[k]
  <2>1. Len(b) = Len(u) + Len(f) /\ \A k \in 1..Len(u) : b[k] = u[k]
    BY <1>4, <1>8, Zenon DEF Joined
  <2> QED
    BY <1>6, <1>7, <2>1
<1>10. b[5] = 0 /\ \A k \in 1..Len(z) : b[5 + k] = z[k]
  <2>1. 5 \in 1..Len(u) /\ \A k \in 1..Len(z) : 5 + k \in 1..Len(u)
    BY <1>2, <1>6
  <2> QED
    BY <1>6, <1>9, <2>1
<1>11. b[2] = h[2] /\ b[3] = h[3] /\ b[4] = h[4]
  BY <1>2, <1>6, <1>9
<1>12. b[4] \div 16 = 1
  <2>1. (16 + p.conti_cter) \div 16 = 1
    BY SMT
  <2> QED
    BY <1>1, <1>11, <2>1
<1>13. Pid(b) = p.pid
  BY <1>1, <1>11 DEF Pid, TablePids, TS_PAT_PID, TS_PMT_PID
<1> QED
  BY <1>9, <1>10, <1>12, <1>13 DEF z

\* A receiver finds the section where it is, as long as it is.
LEMMA SectionFound ==
  ASSUME NEW p, p.pid \in TablePids, p.play_init = 1, p.ada_field_C = 1,
         p.conti_cter \in 0..15
  PROVE  Section(TableBytes(p)) = SectionOf(p.pid)
<1> DEFINE b == TableBytes(p)
           z == SectionOf(p.pid)
           s == IF p.pid = TS_PAT_PID THEN PatSection ELSE PmtSection
<1>1. b[5] = 0 /\ \A k \in 1..Len(z) : b[5 + k] = z[k]
  BY TableParts
<1>2. /\ z \in Seq(Byte) /\ Len(z) = Len(s) + 4
      /\ \A k \in 1..Len(s) : z[k] = s[k]
  BY SectionFields
<1>3. PICK m \in Nat : m >= 12 /\ m <= 22 /\ Len(s) = m /\ s[2] = 176 /\ s[3] = m + 1
  BY SectionLength
<1> HIDE DEF b, z, s
<1>4. /\ Len(z) \in Nat /\ Len(z) >= 16 /\ z[2] = 176 /\ z[3] = Len(z) - 3
  <2>1. Len(s) >= 12 /\ Len(s) \in Nat
    BY <1>3
  <2>2. z[2] = s[2] /\ z[3] = s[3]
    BY <1>2, <2>1
  <2> QED
    BY <1>2, <1>3, <2>1, <2>2
<1>5. b[7] = 176 /\ b[8] = Len(z) - 3
  <2>1. b[5 + 2] = z[2] /\ b[5 + 3] = z[3]
    <3>1. 2 \in 1..Len(z) /\ 3 \in 1..Len(z)
      BY <1>4
    <3> QED
      BY <1>1, <3>1
  <2> QED
    BY <1>4, <2>1
<1> DEFINE n == Len(z)
           r == SubSeq(b, 6, 5 + n)
<1>6. Section(b) = r
  <2>1. TS_PACKET_HEADER + 1 + b[TS_PACKET_HEADER + 1] = 5
    BY <1>1 DEF TS_PACKET_HEADER
  <2>2. 5 + 3 + (b[5 + 2] % 16) * 256 + b[5 + 3] = 5 + n
    BY <1>4, <1>5
  <2>3. Section(b) = SubSeq(b, 5 + 1, 5 + 3 + (b[5 + 2] % 16) * 256 + b[5 + 3])
    BY <2>1, Zenon DEF Section
  <2> QED
    BY <2>2, <2>3
<1>7. r = z
  <2>1. \A i \in 6..(5 + n) : b[i] \in Byte
    <3> SUFFICES ASSUME NEW i \in 6..(5 + n) PROVE b[i] \in Byte
      OBVIOUS
    <3>1. i - 5 \in 1..n /\ 5 + (i - 5) = i
      BY <1>4
    <3>2. b[i] = z[i - 5]
      BY <1>1, <3>1
    <3> QED
      BY <1>2, <3>1, <3>2, ElementOfSeq
  <2>2. 6 \in Int /\ 5 + n \in Int /\ 6 <= 5 + n /\ (5 + n) - 6 + 1 = n
    BY <1>4
  <2>3. /\ r \in Seq(Byte) /\ Len(r) = n
        /\ \A i \in 1..n : r[i] = b[6 + i - 1]
    BY <2>1, <2>2, SubSeqProperties
  <2> HIDE DEF r
  <2>4. ASSUME NEW i \in 1..n PROVE r[i] = z[i]
    <3>1. 6 + i - 1 = 5 + i
      BY <1>4
    <3> QED
      BY <1>1, <2>3, <3>1
  <2> QED
    BY <1>2, <2>3, <2>4, SeqEqual
<1> QED
  BY <1>6, <1>7 DEF b, z

\* What a receiver finds in the packets of the two tables.
LEMMA PatFound ==
  ASSUME NEW s, s = SectionOf(TS_PAT_PID)
  PROVE  s[1] = 0 /\ Len(s) = 16 /\ PidAt(s, 11) = TS_PMT_PID
<1>1. /\ Len(s) = Len(PatSection) + 4
      /\ \A k \in 1..Len(PatSection) : s[k] = PatSection[k]
  <2>1. TS_PAT_PID \in TablePids
    BY DEF TablePids
  <2> QED
    BY <2>1, SectionFields
<1>2. Len(s) = 16 /\ s[1] = 0 /\ s[11] = 239 /\ s[12] = 255
  <2>1. Len(PatSection) = 12
    BY PatFields
  <2>2. Len(s) = 16 /\ \A k \in 1..12 : s[k] = PatSection[k]
    BY <1>1, <2>1
  <2> QED
    BY <2>2, PatFields
<1> QED
  BY <1>2 DEF PidAt, TS_PMT_PID

\* What the receiver looks for in the PMT is in its section.
LEMMA PmtFound ==
  ASSUME NEW s, s = SectionOf(TS_PMT_PID)
  PROVE  /\ s[1] = 2 /\ Len(s) = 26
         /\ s[13] = 27 /\ PidAt(s, 14) = TS_H264_PID
         /\ s[18] = 15 /\ PidAt(s, 19) = TS_AAC_PID
         /\ PidAt(s, 9) = TS_H264_PID
<1>1. /\ Len(s) = Len(PmtSection) + 4
      /\ \A k \in 1..Len(PmtSection) : s[k] = PmtSection[k]
  <2>1. TS_PMT_PID \in TablePids /\ TS_PMT_PID # TS_PAT_PID
    BY DEF TablePids, TS_PMT_PID, TS_PAT_PID
  <2> QED
    BY <2>1, SectionFields
<1>2. Len(s) = 26 /\ \A k \in 1..22 : s[k] = PmtSection[k]
  <2>1. Len(PmtSection) = 22
    BY PmtFields
  <2> QED
    BY <1>1, <2>1
<1>3. /\ s[1] = 2 /\ s[9] = 225 /\ s[10] = 0
      /\ s[13] = 27 /\ s[14] = 225 /\ s[15] = 0
      /\ s[18] = 15 /\ s[19] = 225 /\ s[20] = 1
  BY <1>2, PmtFields
<1> QED
  BY <1>2, <1>3 DEF PidAt, TS_H264_PID, TS_AAC_PID

\* The tables of every file announce its streams: their sections and checksums
\* are right, the PAT leads to the PMT, the PMT to the video and the audio, and
\* no packet has a PID, or a PCR, that is not announced.
THEOREM TablesCorrect == Spec => []TablesAnnounceStreams
<1>1. ASSUME IInv, PacketsMarked PROVE TablesAnnounceStreams
  <2> DEFINE n == Len(ts_file)
             p == ts_file[n]
             b == TableBytes(p)
             s == Section(b)
  <2>1. ts_file \in Seq(Packet)
    BY <1>1 DEF IInv, TypeOK
  <2>2. CASE n > 0 /\ p.frame = 0
    <3>1. n \in DOMAIN ts_file /\ p \in Packet
      BY <2>1, <2>2
    <3>2. p.pid \in TablePids /\ p.play_init = 1 /\ p.ada_field_C = 1
      BY <1>1, <2>2, <3>1 DEF PacketsMarked, MarkedPacket
    <3>3. p.conti_cter \in 0..15
      BY <3>1 DEF Packet
    <3>4. Len(b) = 188 /\ b[4] \div 16 = 1 /\ Pid(b) = p.pid
      BY <3>2, <3>3, TableParts
    <3>5. s = SectionOf(p.pid)
      BY <3>2, <3>3, SectionFound
    <3>6. Remainder(s) = [k \in 1..32 |-> 0]
      BY <3>2, <3>5, SectionFields, Zenon
    <3> HIDE DEF b, s
    <3>7. CASE p.pid = TS_PAT_PID
      <4>1. s[1] = 0 /\ Len(s) = 16 /\ PidAt(s, 11) = TS_PMT_PID
        BY <3>5, <3>7, PatFound
      <4>2. Pid(b) = 0
        BY <3>4, <3>7 DEF TS_PAT_PID
      <4>3. Len(b) = TS_PACKET_SIZE
        BY <3>4 DEF TS_PACKET_SIZE
      <4> QED
        BY <3>4, <3>6, <4>1, <4>2, <4>3, Zenon DEF TablesAnnounceStreams, b, s
    <3>8. CASE p.pid # TS_PAT_PID
      <4>1. p.pid = TS_PMT_PID /\ Pid(b) = TS_PMT_PID /\ Pid(b) # 0
        BY <3>2, <3>4, <3>8 DEF TablePids, TS_PMT_PID, TS_PAT_PID
      <4>2. /\ s[1] = 2 /\ Len(s) = 26
            /\ s[13] = 27 /\ PidAt(s, 14) = TS_H264_PID
            /\ s[18] = 15 /\ PidAt(s, 19) = TS_AAC_PID
            /\ PidAt(s, 9) = TS_H264_PID
        BY <3>5, <4>1, PmtFound
      <4>3. ASSUME NEW i \in 1..n, ts_file[i].frame # 0
            PROVE  /\ ts_file[i].pid \in {PidAt(s, 14), PidAt(s, 19)}
                   /\ ts_file[i].pcr => ts_file[i].pid = PidAt(s, 9)
        <5>1. MarkedPacket(ts_file[i])
          BY <1>1, <2>1 DEF PacketsMarked
        <5> QED
          BY <4>2, <4>3, <5>1 DEF MarkedPacket, MediaPids
      <4>4. {<<s[13], PidAt(s, 14)>>, <<s[18], PidAt(s, 19)>>}
              = {<<27, TS_H264_PID>>, <<15, TS_AAC_PID>>}
        BY <4>2
      <4>5. Len(b) = TS_PACKET_SIZE
        BY <3>4 DEF TS_PACKET_SIZE
      <4> QED
        BY <3>4, <3>6, <4>1, <4>2, <4>3, <4>4, <4>5, Zenon
           DEF TablesAnnounceStreams, b, s
    <3> QED
      BY <3>7, <3>8
  <2>3. CASE ~(n > 0 /\ p.frame = 0)
    BY <2>3, Zenon DEF TablesAnnounceStreams
  <2> QED
    BY <2>2, <2>3
<1> QED
  BY <1>1, Invariance, MarkedInvariance, PTL
=============================================================================
