------------------------------ MODULE Induction ------------------------------
(***************************************************************************)
(* Induction and recursion over the natural numbers, in the form that the  *)
(* provers can instantiate: the statement that is proved by induction is a *)
(* set of numbers, and the step of a recursive definition a function.      *)
(* Both follow from < being well-founded on Nat.                           *)
(***************************************************************************)
EXTENDS Integers, WellFoundedInduction, TLAPS

\* A set of natural numbers that is not empty has a least element.
LEMMA LeastNumber ==
  ASSUME NEW S, S \subseteq Nat, S # {}
  PROVE  \E n \in S : \A m \in S : n <= m
<1> DEFINE R == OpToRel(<, Nat)
<1>1. IsWellFoundedOn(R, Nat)
  BY NatLessThanWellFounded
<1>2. \A x, y \in Nat : x < y => <<x, y>> \in R
  BY DEF OpToRel
<1> HIDE DEF R
<1>3. PICK n \in S : \A m \in S : ~(<<m, n>> \in R)
  BY <1>1, WFMin
<1>4. \A m \in S : m \in Nat /\ n \in Nat /\ ~(m < n)
  BY <1>2, <1>3
<1> QED
  BY <1>4

\* What holds of 0 and passes from each number to the next holds of all.
LEMMA NatInduct ==
  ASSUME NEW S, 0 \in S, \A n \in Nat : n \in S => n + 1 \in S
  PROVE  \A n \in Nat : n \in S
<1> DEFINE T == Nat \ S
<1>1. CASE T = {}
  BY <1>1
<1>2. CASE T # {}
  <2>1. PICK n \in T : \A m \in T : n <= m
    BY <1>2, LeastNumber
  <2>2. n # 0
    OBVIOUS
  <2>3. n - 1 \in Nat /\ n - 1 \in S
    BY <2>1, <2>2
  <2> QED
    BY <2>3
<1> QED
  BY <1>1, <1>2

\* The same of the numbers up to a bound.
LEMMA InductUpTo ==
  ASSUME NEW N \in Nat, NEW S, 0 \in S,
         \A n \in 1..N : n - 1 \in S => n \in S
  PROVE  \A n \in 0..N : n \in S
<1> DEFINE U == {n \in Nat : n <= N => n \in S}
<1>1. 0 \in U
  OBVIOUS
<1>2. ASSUME NEW n \in Nat, n \in U PROVE n + 1 \in U
  <2>1. CASE n + 1 <= N
    <3>1. n + 1 \in 1..N /\ n \in S /\ (n + 1) - 1 = n
      BY <1>2, <2>1
    <3> QED
      BY <3>1
  <2>2. CASE ~(n + 1 <= N)
    BY <2>2
  <2> QED
    BY <2>1, <2>2
<1> HIDE DEF U
<1>3. \A n \in Nat : n \in U
  BY <1>1, <1>2, NatInduct
<1> QED
  BY <1>3 DEF U

\* f is the function on 0..n with value a at 0 and at each other number i what
\* D[i] makes of its value at the number before.
Primitive(f, n, V, a, D) ==
  /\ f \in [0..n -> V]
  /\ f[0] = a
  /\ \A i \in 1..n : f[i] = D[i][f[i - 1]]

\* There is such a function.
LEMMA PrimitiveRecursion ==
  ASSUME NEW N \in Nat, NEW V, NEW a \in V, NEW D \in [1..N -> [V -> V]]
  PROVE  \E f : Primitive(f, N, V, a, D)
<1> DEFINE S == {n \in 0..N : \E f : Primitive(f, n, V, a, D)}
<1>1. 0 \in S
  <2> DEFINE f == [i \in 0..0 |-> a]
  <2>1. Primitive(f, 0, V, a, D)
    BY DEF Primitive
  <2> HIDE DEF f
  <2> QED
    BY <2>1
<1>2. ASSUME NEW n \in 1..N, n - 1 \in S PROVE n \in S
  <2>1. PICK f : Primitive(f, n - 1, V, a, D)
    BY <1>2
  <2> DEFINE g == [i \in 0..n |-> IF i = n THEN D[n][f[n - 1]] ELSE f[i]]
  <2>2. n - 1 \in 0..(n - 1) /\ f[n - 1] \in V /\ D[n] \in [V -> V]
    BY <2>1 DEF Primitive
  <2>3. g \in [0..n -> V]
    <3> SUFFICES ASSUME NEW i \in 0..n
                 PROVE  (IF i = n THEN D[n][f[n - 1]] ELSE f[i]) \in V
      OBVIOUS
    <3>1. i # n => i \in 0..(n - 1)
      OBVIOUS
    <3> QED
      BY <2>1, <2>2, <3>1 DEF Primitive
  <2>4. g[0] = a
    BY <2>1 DEF Primitive
  <2>5. ASSUME NEW i \in 1..n PROVE g[i] = D[i][g[i - 1]]
    <3>1. i - 1 \in 0..n /\ i - 1 # n /\ i \in 0..n
      OBVIOUS
    <3>2. g[i - 1] = f[i - 1]
      BY <3>1
    <3>3. CASE i = n
      BY <3>1, <3>2, <3>3
    <3>4. CASE i # n
      <4>1. i \in 1..(n - 1)
        BY <3>4
      <4>2. g[i] = f[i] /\ f[i] = D[i][f[i - 1]]
        BY <2>1, <3>1, <3>4, <4>1 DEF Primitive
      <4> QED
        BY <3>2, <4>2
    <3> QED
      BY <3>3, <3>4
  <2> HIDE DEF g
  <2>6. Primitive(g, n, V, a, D)
    BY <2>3, <2>4, <2>5 DEF Primitive
  <2>7. n \in 0..N
    OBVIOUS
  <2> QED
    BY <2>6, <2>7
<1> HIDE DEF S
<1>3. \A n \in 0..N : n \in S
  BY <1>1, <1>2, InductUpTo
<1>4. N \in 0..N
  OBVIOUS
<1>5. N \in S
  BY <1>3, <1>4
<1> QED
  BY <1>5 DEF S

\* A function on 0..N that takes the steps of D from a is that function.
LEMMA PrimitiveTyped ==
  ASSUME NEW N \in Nat, NEW V, NEW a \in V, NEW D \in [1..N -> [V -> V]], NEW f,
         f = [n \in 0..N |-> f[n]], f[0] = a,
         \A n \in 1..N : f[n - 1] \in V => f[n] = D[n][f[n - 1]]
  PROVE  Primitive(f, N, V, a, D)
<1> DEFINE S == {n \in 0..N : f[n] \in V}
<1>1. 0 \in S
  OBVIOUS
<1>2. ASSUME NEW n \in 1..N, n - 1 \in S PROVE n \in S
  <2>1. f[n - 1] \in V /\ D[n] \in [V -> V]
    BY <1>2
  <2>2. f[n] \in V
    BY <2>1
  <2> QED
    BY <2>2
<1> HIDE DEF S
<1>3. \A n \in 0..N : n \in S
  BY <1>1, <1>2, InductUpTo
<1>4. \A n \in 0..N : f[n] \in V
  BY <1>3 DEF S
<1>5. f \in [0..N -> V]
  BY <1>4, Zenon
<1>6. ASSUME NEW n \in 1..N PROVE f[n] = D[n][f[n - 1]]
  <2>1. n - 1 \in 0..N
    OBVIOUS
  <2> QED
    BY <1>4, <2>1
<1> QED
  BY <1>5, <1>6 DEF Primitive

\* f[k] is what P makes of a in k passes.
Loop(f, N, a, P) == f = [k \in 0..N |-> IF k = 0 THEN a ELSE P[f[k - 1]]]

\* A function that is made so and stays in the set R.
LoopIn(f, N, a, P, R) ==
  f \in [0..N -> R] /\ f[0] = a /\ \A k \in 1..N : f[k] = P[f[k - 1]]

\* P does not leave R.
Stays(P, R) == \A v \in R : P[v] \in R

\* There is such a function, and it stays in a set that P does not leave.
LEMMA LoopValues ==
  ASSUME NEW N \in Nat, NEW R, NEW a \in R, NEW P, Stays(P, R)
  PROVE  /\ \E f : Loop(f, N, a, P)
         /\ \A f : Loop(f, N, a, P) => LoopIn(f, N, a, P, R)
<1> DEFINE D == [k \in 1..N |-> [v \in R |-> P[v]]]
<1>1. D \in [1..N -> [R -> R]] /\ \A k \in 1..N, v \in R : D[k][v] = P[v]
  BY DEF Stays
<1> HIDE DEF D
<1>2. \E f : Loop(f, N, a, P)
  <2>1. PICK f : Primitive(f, N, R, a, D)
    BY <1>1, PrimitiveRecursion
  <2>2. ASSUME NEW k \in 0..N PROVE f[k] = IF k = 0 THEN a ELSE P[f[k - 1]]
    <3>1. CASE k = 0
      BY <2>1, <3>1 DEF Primitive
    <3>2. CASE k # 0
      <4>1. k \in 1..N /\ k - 1 \in 0..N
        BY <3>2
      <4>2. f[k] = D[k][f[k - 1]] /\ f[k - 1] \in R
        BY <2>1, <4>1 DEF Primitive
      <4> QED
        BY <1>1, <3>2, <4>1, <4>2
    <3> QED
      BY <3>1, <3>2
  <2>3. f = [k \in 0..N |-> f[k]]
    BY <2>1 DEF Primitive
  <2>4. Loop(f, N, a, P)
    BY <2>2, <2>3 DEF Loop
  <2> QED
    BY <2>4
<1>3. ASSUME NEW f, Loop(f, N, a, P)
      PROVE  LoopIn(f, N, a, P, R)
  <2>1. f = [k \in 0..N |-> f[k]]
    BY <1>3 DEF Loop
  <2>2. f[0] = a
    BY <1>3 DEF Loop
  <2>3. \A k \in 1..N : f[k] = P[f[k - 1]]
    BY <1>3 DEF Loop
  <2>4. \A k \in 1..N : f[k - 1] \in R => f[k] = D[k][f[k - 1]]
    BY <1>1, <2>3
  <2>5. Primitive(f, N, R, a, D)
    BY <1>1, <2>1, <2>2, <2>4, PrimitiveTyped
  <2> QED
    BY <2>2, <2>3, <2>5 DEF Primitive, LoopIn
<1> QED
  BY <1>2, <1>3

\* So does the function that is chosen where a module defines the loop with LET.
LEMMA LoopChosen ==
  ASSUME NEW N \in Nat, NEW R, NEW a \in R, NEW P, Stays(P, R)
  PROVE  LoopIn(CHOOSE f : Loop(f, N, a, P), N, a, P, R)
<1> DEFINE g == CHOOSE f : Loop(f, N, a, P)
<1>1. /\ \E f : Loop(f, N, a, P)
      /\ \A f : Loop(f, N, a, P) => LoopIn(f, N, a, P, R)
  BY LoopValues
<1>2. Loop(g, N, a, P)
  BY <1>1, Zenon
<1> HIDE DEF g
<1>3. LoopIn(g, N, a, P, R)
  BY <1>1, <1>2, Zenon
<1> QED
  BY <1>3 DEF g
=============================================================================
