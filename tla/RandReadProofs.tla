--------------------------- MODULE RandReadProofs ---------------------------
(***************************************************************************)
(* For words of any width, any feedback and cycle, any mappings, requests, *)
(* pages and threads: the skip-ahead is exact and the threads' streams are *)
(* disjoint, accesses stay in the region and cover it, and those of modes  *)
(* 1 and 2 keep bank and row of the DRAM.                                  *)
(***************************************************************************)
EXTENDS RandRead, FiniteSetTheorems, WellFoundedInduction, TLAPS

------------------------------------------------------------------------------
(* Induction and recursion over the naturals, stated of sets and functions *)
(* where the library's theorems take an operator.                          *)

LEMMA LeastNumber ==
    ASSUME NEW T, T \subseteq Nat, T # {}
    PROVE  \E x \in T : \A y \in T : x <= y
<1>1. PICK x \in T : \A y \in T : ~ (<<y, x>> \in OpToRel(<, Nat))
  BY NatLessThanWellFounded, WFMin
<1>2. ASSUME NEW y \in T
      PROVE  x <= y
  <2>1. ~ (<<y, x>> \in OpToRel(<, Nat)) /\ x \in Nat /\ y \in Nat
    BY <1>1
  <2>2. ~ (y < x)
    BY <2>1 DEF OpToRel
  <2>3. x \in Nat /\ y \in Nat
    OBVIOUS
  <2>4. QED
    BY <2>2, <2>3
<1>3. QED
  BY <1>2

LEMMA SetInduction ==
    ASSUME NEW T, 0 \in T, \A k \in Nat : k \in T => k + 1 \in T
    PROVE  \A k \in Nat : k \in T
<1>1. SUFFICES ASSUME Nat \ T # {} PROVE FALSE
  OBVIOUS
<1>2. PICK x \in Nat \ T : \A y \in Nat \ T : x <= y
  BY <1>1, LeastNumber
<1>3. x # 0 /\ x - 1 \in Nat /\ (x - 1) + 1 = x /\ ~ (x <= x - 1)
  BY <1>2
<1>4. x - 1 \in T
  BY <1>2, <1>3
<1>5. QED
  BY <1>2, <1>3, <1>4

\* A function of the naturals may be given by its first value and how each value
\* follows from the one before it.
Stepper(S) == [S \X Nat -> S]
Follows(f, S, a, D) == /\ f \in [Nat -> S]
                       /\ f[0] = a
                       /\ \A k \in Nat \ {0} : f[k] = D[<<f[k - 1], k>>]

LEMMA PrimitiveRecursion ==
    ASSUME NEW S, NEW a \in S, NEW D \in Stepper(S)
    PROVE  \E f : Follows(f, S, a, D)
<1> USE DEF Stepper
<1> DEFINE Upto(k) == {g \in [0 .. k -> S] : /\ g[0] = a
                                             /\ \A i \in 1 .. k : g[i] = D[<<g[i - 1], i>>]}
<1> DEFINE T == {k \in Nat : Upto(k) # {}}
<1>1. \A k \in Nat : k \in T
  <2>1. 0 \in T
    <3>1. [i \in 0 .. 0 |-> a] \in Upto(0)
      OBVIOUS
    <3>2. QED
      BY <3>1
  <2>2. ASSUME NEW k \in Nat, k \in T
        PROVE  k + 1 \in T
    <3>1. PICK g \in Upto(k) : TRUE
      BY <2>2
    <3> DEFINE h == [i \in 0 .. k + 1 |-> IF i = k + 1 THEN D[<<g[k], k + 1>>] ELSE g[i]]
    <3>2. g \in [0 .. k -> S] /\ g[0] = a /\ \A i \in 1 .. k : g[i] = D[<<g[i - 1], i>>]
      BY <3>1
    <3>3. D[<<g[k], k + 1>>] \in S
      <4>1. g[k] \in S
        BY <3>2
      <4>2. <<g[k], k + 1>> \in S \X Nat
        BY <4>1
      <4>3. QED
        BY <4>2
    <3>4. h \in [0 .. k + 1 -> S]
      <4>1. ASSUME NEW i \in 0 .. k + 1
            PROVE  (IF i = k + 1 THEN D[<<g[k], k + 1>>] ELSE g[i]) \in S
        <5>1. CASE i = k + 1
          BY <5>1, <3>3
        <5>2. CASE i # k + 1
          <6>1. i \in 0 .. k
            BY <5>2
          <6>2. QED
            BY <6>1, <5>2, <3>2
        <5>3. QED
          BY <5>1, <5>2
      <4>2. QED
        BY <4>1
    <3>5. h[0] = a
      BY <3>2
    <3>6. ASSUME NEW i \in 1 .. k + 1
          PROVE  h[i] = D[<<h[i - 1], i>>]
      <4>1. CASE i = k + 1
        <5>1. h[i] = D[<<g[k], k + 1>>] /\ h[i - 1] = g[k]
          BY <4>1
        <5>2. QED
          BY <4>1, <5>1
      <4>2. CASE i # k + 1
        <5>1. i \in 1 .. k /\ i - 1 \in 0 .. k
          BY <4>2
        <5>2. h[i] = g[i] /\ h[i - 1] = g[i - 1]
          BY <5>1
        <5>3. QED
          BY <5>1, <5>2, <3>2
      <4>3. QED
        BY <4>1, <4>2
    <3>7. h \in Upto(k + 1)
      BY <3>4, <3>5, <3>6
    <3> HIDE DEF h, Upto
    <3>8. Upto(k + 1) # {}
      BY <3>7
    <3>9. QED
      BY <3>8
  <2> HIDE DEF T
  <2>3. QED
    BY <2>1, <2>2, SetInduction
<1>2. ASSUME NEW m \in Nat, NEW k \in Nat, m <= k, NEW g \in Upto(m), NEW h \in Upto(k)
      PROVE  g[m] = h[m]
  <2> DEFINE U == {i \in Nat : i <= m => g[i] = h[i]}
  <2>1. 0 \in U
    OBVIOUS
  <2>2. ASSUME NEW i \in Nat, i \in U
        PROVE  i + 1 \in U
    <3>1. CASE i + 1 <= m
      <4>1. i <= m /\ i + 1 \in 1 .. m /\ i + 1 \in 1 .. k /\ (i + 1) - 1 = i
        BY <1>2, <3>1
      <4>2. g[i + 1] = D[<<g[i], i + 1>>] /\ h[i + 1] = D[<<h[i], i + 1>>]
        BY <4>1
      <4>3. QED
        BY <2>2, <4>1, <4>2
    <3>2. QED
      BY <3>1
  <2>3. m \in U
    <3> HIDE DEF U
    <3>1. QED
      BY <2>1, <2>2, SetInduction
  <2>4. QED
    BY <2>3
<1> DEFINE up == [k \in Nat |-> CHOOSE g \in Upto(k) : TRUE]
<1> DEFINE f == [k \in Nat |-> up[k][k]]
<1>3. \A k \in Nat : up[k] \in Upto(k)
  BY <1>1
<1>4. f \in [Nat -> S]
  <2>1. ASSUME NEW k \in Nat
        PROVE  up[k][k] \in S
    <3>1. up[k] \in [0 .. k -> S] /\ k \in 0 .. k
      BY <1>3
    <3>2. QED
      BY <3>1
  <2>2. QED
    BY <2>1
<1>5. ASSUME NEW k \in Nat
      PROVE  f[k] = IF k = 0 THEN a ELSE D[<<f[k - 1], k>>]
  <2>1. CASE k = 0
    BY <2>1, <1>3
  <2>2. CASE k # 0
    <3>1. k - 1 \in Nat /\ k - 1 <= k /\ k \in 1 .. k
      BY <2>2
    <3>2. up[k] \in Upto(k) /\ up[k - 1] \in Upto(k - 1)
      BY <3>1, <1>3
    <3>3. up[k][k] = D[<<up[k][k - 1], k>>]
      BY <3>1, <3>2
    <3>4. up[k - 1][k - 1] = up[k][k - 1]
      <4> HIDE DEF up, Upto
      <4>1. QED
        BY <3>1, <3>2, <1>2
    <3>5. f[k] = up[k][k] /\ f[k - 1] = up[k - 1][k - 1]
      BY <3>1
    <3> HIDE DEF f, up
    <3>6. QED
      BY <2>2, <3>3, <3>4, <3>5
  <2>3. QED
    BY <2>1, <2>2
<1>6. f[0] = a /\ \A k \in Nat \ {0} : f[k] = D[<<f[k - 1], k>>]
  <2> HIDE DEF f
  <2>1. QED
    BY <1>5
<1>7. QED
  <2> HIDE DEF f
  <2>1. Follows(f, S, a, D)
    BY <1>4, <1>6 DEF Follows
  <2>2. QED
    BY <2>1

\* 1 << k doubles with each k.
LEMMA Pow2Def == /\ Pow2 \in [Nat -> Nat]
                 /\ Pow2[0] = 1
                 /\ \A k \in Nat : Pow2[k + 1] = 2 * Pow2[k]
<1> DEFINE D == [p \in Nat \X Nat |-> 2 * p[1]]
<1>1. D \in Stepper(Nat)
  BY DEF Stepper
<1>2. PICK f : Follows(f, Nat, 1, D)
  <2> HIDE DEF D
  <2>1. 1 \in Nat
    OBVIOUS
  <2>2. QED
    BY <1>1, <2>1, PrimitiveRecursion
<1>3. f = [k \in Nat |-> IF k = 0 THEN 1 ELSE 2 * f[k - 1]]
  <2>1. ASSUME NEW k \in Nat, k # 0
        PROVE  f[k] = 2 * f[k - 1]
    <3>1. k - 1 \in Nat
      BY <2>1
    <3>2. <<f[k - 1], k>> \in Nat \X Nat
      BY <3>1, <1>2 DEF Follows
    <3>3. D[<<f[k - 1], k>>] = 2 * f[k - 1]
      BY <3>2
    <3> HIDE DEF D
    <3>4. QED
      BY <2>1, <1>2, <3>3 DEF Follows
  <2>2. f = [k \in Nat |-> f[k]]
    BY <1>2 DEF Follows
  <2> HIDE DEF D
  <2>3. QED
    BY <1>2, <2>1, <2>2 DEF Follows
<1>4. Pow2 = [k \in Nat |-> IF k = 0 THEN 1 ELSE 2 * Pow2[k - 1]]
  <2>1. Pow2 = CHOOSE g : g = [k \in Nat |-> IF k = 0 THEN 1 ELSE 2 * g[k - 1]]
    BY DEF Pow2
  <2> HIDE DEF Pow2
  <2>2. QED
    BY <1>3, <2>1
<1> HIDE DEF Pow2
<1>5. Pow2[0] = 1
  BY <1>4
<1>6. \A k \in Nat : Pow2[k + 1] = 2 * Pow2[k]
  <2>1. ASSUME NEW k \in Nat
        PROVE  Pow2[k + 1] = 2 * Pow2[k]
    <3>1. k + 1 \in Nat /\ k + 1 # 0 /\ (k + 1) - 1 = k
      OBVIOUS
    <3>2. Pow2[k + 1] = IF k + 1 = 0 THEN 1 ELSE 2 * Pow2[(k + 1) - 1]
      BY <1>4, <3>1
    <3>3. QED
      BY <3>1, <3>2
  <2>2. QED
    BY <2>1
<1>7. \A k \in Nat : Pow2[k] \in Nat
  <2> DEFINE T == {k \in Nat : Pow2[k] \in Nat}
  <2>1. 0 \in T
    BY <1>5
  <2>2. \A k \in Nat : k \in T => k + 1 \in T
    BY <1>6
  <2> HIDE DEF T
  <2>3. \A k \in Nat : k \in T
    BY <2>1, <2>2, SetInduction
  <2>4. QED
    BY <2>3 DEF T
<1>8. Pow2 \in [Nat -> Nat]
  <2>1. Pow2 = [k \in Nat |-> Pow2[k]]
    BY <1>4
  <2>2. QED
    BY <1>7, <2>1
<1>9. QED
  BY <1>5, <1>6, <1>8

------------------------------------------------------------------------------
(* Numbers and their bits.                                                 *)

LEMMA Pow2Facts ==
    ASSUME NEW k \in Nat
    PROVE  /\ Pow2[k] \in Nat /\ Pow2[k] > 0
           /\ Pow2[k + 1] = 2 * Pow2[k]
<1> DEFINE T == {i \in Nat : Pow2[i] > 0}
<1>1. \A i \in Nat : Pow2[i] \in Nat
  BY Pow2Def
<1>2. 0 \in T
  BY Pow2Def
<1>3. \A i \in Nat : i \in T => i + 1 \in T
  BY Pow2Def, <1>1
<1>4. k \in T
  <2> HIDE DEF T
  <2>1. QED
    BY <1>2, <1>3, SetInduction
<1>5. QED
  BY <1>1, <1>4, Pow2Def

LEMMA Pow2Sum ==
    ASSUME NEW a \in Nat, NEW b \in Nat
    PROVE  Pow2[a + b] = Pow2[a] * Pow2[b]
<1> DEFINE T == {i \in Nat : Pow2[a + i] = Pow2[a] * Pow2[i]}
<1>1. 0 \in T
  <2>1. a + 0 = a /\ Pow2[a] * 1 = Pow2[a]
    BY Pow2Facts
  <2>2. QED
    BY <2>1, Pow2Def
<1>2. ASSUME NEW i \in Nat, i \in T
      PROVE  i + 1 \in T
  <2>1. a + (i + 1) = (a + i) + 1 /\ a + i \in Nat
    OBVIOUS
  <2>2. Pow2[a + (i + 1)] = 2 * Pow2[a + i]
    BY <2>1, Pow2Facts
  <2>3. Pow2[i + 1] = 2 * Pow2[i]
    BY Pow2Facts
  <2>4. Pow2[a] \in Nat /\ Pow2[i] \in Nat
    BY Pow2Facts
  <2>5. Pow2[a] * (2 * Pow2[i]) = 2 * (Pow2[a] * Pow2[i])
    BY <2>4
  <2>6. QED
    BY <1>2, <2>2, <2>3, <2>5
<1>3. b \in T
  <2> HIDE DEF T
  <2>1. QED
    BY <1>1, <1>2, SetInduction
<1>4. QED
  BY <1>3

LEMMA Pow2Order ==
    ASSUME NEW a \in Nat, NEW b \in Nat, a <= b
    PROVE  /\ b - a \in Nat /\ Pow2[b] = Pow2[a] * Pow2[b - a]
           /\ Pow2[a] <= Pow2[b]
           /\ a < b => 2 * Pow2[a] <= Pow2[b]
<1>1. b - a \in Nat /\ a + (b - a) = b
  OBVIOUS
<1>2. Pow2[b] = Pow2[a] * Pow2[b - a]
  BY <1>1, Pow2Sum
<1>3. Pow2[a] \in Nat /\ Pow2[b - a] \in Nat /\ Pow2[b - a] >= 1
  BY <1>1, Pow2Facts
<1>4. Pow2[a] <= Pow2[a] * Pow2[b - a]
  BY <1>3
<1>5. ASSUME a < b
      PROVE  2 * Pow2[a] <= Pow2[b]
  <2>1. b - a - 1 \in Nat /\ (b - a - 1) + 1 = b - a
    BY <1>5
  <2>2. Pow2[b - a] = 2 * Pow2[b - a - 1] /\ Pow2[b - a - 1] \in Nat /\ Pow2[b - a - 1] >= 1
    BY <2>1, Pow2Facts
  <2>3. Pow2[b - a] >= 2
    BY <2>2
  <2>4. Pow2[a] * Pow2[b - a] >= Pow2[a] * 2
    BY <1>3, <2>3
  <2>5. QED
    BY <1>2, <1>3, <2>4
<1>6. QED
  BY <1>1, <1>2, <1>4, <1>5

\* A quotient and a remainder are those of one number.
LEMMA Quotient ==
    ASSUME NEW q \in Nat, NEW d \in Nat, NEW r \in Nat, r < d
    PROVE  /\ (d * q + r) \div d = q
           /\ (d * q + r) % d = r
OBVIOUS

LEMMA Divided ==
    ASSUME NEW x \in Nat, NEW d \in Nat, d > 0
    PROVE  /\ x \div d \in Nat /\ (x % d) \in Nat /\ (x % d) < d
           /\ x = d * (x \div d) + (x % d)
OBVIOUS

LEMMA DivDiv ==
    ASSUME NEW x \in Nat, NEW c \in Nat, c > 0, NEW d \in Nat, d > 0
    PROVE  (x \div c) \div d = x \div (c * d)
<1> DEFINE q == x \div c
<1> DEFINE r == x % c
<1> DEFINE e == q \div d
<1> DEFINE f == q % d
<1>1. q \in Nat /\ r \in Nat /\ r < c /\ x = c * q + r
  BY Divided
<1>2. e \in Nat /\ f \in Nat /\ f < d /\ q = d * e + f
  BY <1>1, Divided
<1> HIDE DEF q, r, e, f
<1>3. c * d \in Nat /\ c * f + r \in Nat
  BY <1>1, <1>2
<1>4. c * (f + 1) <= c * d
  BY <1>2
<1>5. c * (f + 1) = c * f + c /\ c * f \in Nat
  BY <1>2
<1>6. c * f + r < c * d
  BY <1>1, <1>3, <1>4, <1>5
<1>7. c * (d * e + f) = (c * d) * e + c * f
  BY <1>2
<1>8. x = (c * d) * e + (c * f + r)
  <2>1. c * q = c * (d * e + f)
    BY <1>2
  <2>2. (c * d) * e \in Nat /\ c * f \in Nat
    BY <1>2, <1>3
  <2>3. QED
    BY <1>1, <1>7, <2>1, <2>2
<1>9. x \div (c * d) = e
  BY <1>2, <1>3, <1>6, <1>8, Quotient
<1>10. QED
  BY <1>9 DEF e, q

LEMMA DivSum ==
    ASSUME NEW m \in Nat, NEW y \in Nat, NEW c \in Nat, c > 0
    PROVE  (c * m + y) \div c = m + (y \div c)
<1> DEFINE q == y \div c
<1> DEFINE r == y % c
<1>1. q \in Nat /\ r \in Nat /\ r < c /\ y = c * q + r
  BY Divided
<1> HIDE DEF q, r
<1>2. c * (m + q) = c * m + c * q /\ c * m \in Nat /\ c * q \in Nat
  BY <1>1
<1>3. c * m + y = c * (m + q) + r /\ m + q \in Nat
  BY <1>1, <1>2
<1>4. (c * m + y) \div c = m + q
  BY <1>1, <1>3, Quotient
<1>5. QED
  BY <1>4 DEF q

\* Bit k of a number, whatever the width of a word.
BitAt(x, k) == (x \div Pow2[k]) % 2

LEMMA BitAtType ==
    ASSUME NEW x \in Nat, NEW k \in Nat
    PROVE  BitAt(x, k) \in {0, 1}
<1>1. x \div Pow2[k] \in Nat
  BY Pow2Facts, Divided
<1>2. QED
  BY <1>1 DEF BitAt

LEMMA BitAtZero ==
    ASSUME NEW x \in Nat
    PROVE  BitAt(x, 0) = x % 2
<1>1. x \div 1 = x
  OBVIOUS
<1>2. QED
  BY <1>1, Pow2Def DEF BitAt

LEMMA BitAtShift ==
    ASSUME NEW x \in Nat, NEW k \in Nat, NEW p \in Nat
    PROVE  BitAt(x, k + p) = BitAt(x \div Pow2[p], k)
<1>1. Pow2[k + p] = Pow2[p] * Pow2[k]
  BY Pow2Sum, Pow2Facts
<1>2. (x \div Pow2[p]) \div Pow2[k] = x \div (Pow2[p] * Pow2[k])
  BY Pow2Facts, DivDiv
<1>3. QED
  BY <1>1, <1>2 DEF BitAt

LEMMA BitAtNext ==
    ASSUME NEW x \in Nat, NEW k \in Nat
    PROVE  BitAt(x, k + 1) = BitAt(x \div 2, k)
<1>1. Pow2[1] = 2
  <2>1. Pow2[0 + 1] = 2 * Pow2[0]
    BY Pow2Def
  <2>2. QED
    BY <2>1, Pow2Def
<1>2. 1 \in Nat /\ BitAt(x, k + 1) = BitAt(x \div Pow2[1], k)
  BY BitAtShift
<1>3. QED
  BY <1>1, <1>2

\* What is added above bit p does not reach the bits below it.
LEMMA BitAtLow ==
    ASSUME NEW q \in Nat, NEW y \in Nat, NEW p \in Nat, NEW k \in Nat, k < p
    PROVE  BitAt(q * Pow2[p] + y, k) = BitAt(y, k)
<1> DEFINE c == Pow2[k]
<1> DEFINE h == Pow2[p - k - 1]
<1>1. p - k - 1 \in Nat /\ p - k \in Nat /\ (p - k - 1) + 1 = p - k
  OBVIOUS
<1>2. c \in Nat /\ c > 0 /\ h \in Nat
  BY <1>1, Pow2Facts
<1>3. Pow2[p] = c * (2 * h)
  <2>1. Pow2[p] = Pow2[k] * Pow2[p - k]
    BY Pow2Order
  <2>2. Pow2[p - k] = 2 * h
    BY <1>1, Pow2Facts
  <2>3. QED
    BY <2>1, <2>2
<1> HIDE DEF c, h
<1>4. q * Pow2[p] = c * (2 * (q * h))
  BY <1>2, <1>3
<1>5. 2 * (q * h) \in Nat /\ q * h \in Nat
  BY <1>2
<1>6. (c * (2 * (q * h)) + y) \div c = 2 * (q * h) + (y \div c)
  BY <1>2, <1>5, DivSum
<1>7. y \div c \in Nat
  BY <1>2, Divided
<1>8. (2 * (q * h) + (y \div c)) % 2 = (y \div c) % 2
  BY <1>5, <1>7
<1>9. QED
  BY <1>4, <1>6, <1>8 DEF BitAt, c

\* And what is below it does not reach the bits from p on.
LEMMA BitAtHigh ==
    ASSUME NEW q \in Nat, NEW y \in Nat, NEW p \in Nat, y < Pow2[p], NEW k \in Nat
    PROVE  /\ BitAt(q * Pow2[p] + y, k + p) = BitAt(q, k)
           /\ (q * Pow2[p] + y) \div Pow2[p] = q
           /\ (q * Pow2[p] + y) % Pow2[p] = y
<1> DEFINE d == Pow2[p]
<1> DEFINE x == q * d + y
<1>1. d \in Nat /\ q * d = d * q /\ d * q \in Nat /\ y < d
  BY Pow2Facts
<1> HIDE DEF d
<1>2. x = d * q + y /\ x \in Nat
  BY <1>1
<1>3. (d * q + y) \div d = q /\ (d * q + y) % d = y
  BY <1>1, Quotient
<1> HIDE DEF x
<1>4. x \div d = q /\ x % d = y
  BY <1>2, <1>3
<1>5. BitAt(x, k + p) = BitAt(x \div d, k)
  BY <1>2, BitAtShift DEF d
<1>6. QED
  BY <1>4, <1>5 DEF x, d

LEMMA BitAtBeyond ==
    ASSUME NEW x \in Nat, NEW p \in Nat, x < Pow2[p], NEW k \in Nat, p <= k
    PROVE  BitAt(x, k) = 0
<1>1. x < Pow2[k] /\ Pow2[k] \in Nat
  BY Pow2Order, Pow2Facts
<1>2. x = Pow2[k] * 0 + x
  BY <1>1
<1>3. x \div Pow2[k] = 0
  BY <1>1, <1>2, Quotient
<1>4. QED
  BY <1>3 DEF BitAt

LEMMA SameBits ==
    ASSUME NEW p \in Nat, NEW x \in Nat, NEW y \in Nat, x < Pow2[p], y < Pow2[p],
           \A k \in 0 .. p - 1 : BitAt(x, k) = BitAt(y, k)
    PROVE  x = y
<1> DEFINE Same(i, u, v) == \A k \in 0 .. i - 1 : BitAt(u, k) = BitAt(v, k)
<1> DEFINE T == {i \in Nat : \A u, v \in Nat :
                    (u < Pow2[i] /\ v < Pow2[i] /\ Same(i, u, v)) => u = v}
<1>1. 0 \in T
  BY Pow2Def
<1>2. ASSUME NEW i \in Nat, i \in T
      PROVE  i + 1 \in T
  <2>1. SUFFICES ASSUME NEW u \in Nat, NEW v \in Nat, u < Pow2[i + 1], v < Pow2[i + 1],
                        Same(i + 1, u, v)
                 PROVE  u = v
    OBVIOUS
  <2>2. Pow2[i + 1] = 2 * Pow2[i] /\ Pow2[i] \in Nat
    BY Pow2Facts
  <2>3. /\ u \div 2 \in Nat /\ u = 2 * (u \div 2) + (u % 2)
        /\ v \div 2 \in Nat /\ v = 2 * (v \div 2) + (v % 2)
    OBVIOUS
  <2>4. u \div 2 < Pow2[i] /\ v \div 2 < Pow2[i]
    BY <2>1, <2>2
  <2>5. u % 2 = v % 2
    <3>1. BitAt(u, 0) = BitAt(v, 0)
      BY <2>1
    <3>2. QED
      BY <3>1, BitAtZero
  <2>6. ASSUME NEW k \in 0 .. i - 1
        PROVE  BitAt(u \div 2, k) = BitAt(v \div 2, k)
    <3>1. k + 1 \in 0 .. (i + 1) - 1 /\ k \in Nat
      OBVIOUS
    <3>2. BitAt(u, k + 1) = BitAt(v, k + 1)
      BY <2>1, <3>1
    <3>3. QED
      BY <3>1, <3>2, BitAtNext
  <2>7. u \div 2 = v \div 2
    <3>1. Same(i, u \div 2, v \div 2)
      BY <2>6
    <3> HIDE DEF Same
    <3>2. QED
      BY <1>2, <2>3, <2>4, <3>1
  <2>8. QED
    BY <2>3, <2>5, <2>7
<1>3. p \in T
  <2> HIDE DEF T
  <2>1. QED
    BY <1>1, <1>2, SetInduction
<1>4. Same(p, x, y)
  OBVIOUS
<1> HIDE DEF Same
<1>5. QED
  BY <1>3, <1>4

LEMMA TopBit ==
    ASSUME NEW x \in Nat, x > 0, NEW p \in Nat, x < Pow2[p]
    PROVE  \E k \in 0 .. p - 1 : Pow2[k] <= x /\ x < Pow2[k + 1] /\ BitAt(x, k) = 1
<1> DEFINE T == {k \in Nat : x < Pow2[k]}
<1>1. p \in T
  OBVIOUS
<1>2. PICK m \in T : \A k \in T : m <= k
  <2>1. T \subseteq Nat /\ T # {}
    BY <1>1
  <2> HIDE DEF T
  <2>2. QED
    BY <2>1, LeastNumber
<1>3. m \in Nat /\ x < Pow2[m] /\ m <= p
  BY <1>1, <1>2
<1>4. m # 0
  BY <1>3, Pow2Def
<1> DEFINE k == m - 1
<1>5. k \in 0 .. p - 1 /\ k \in Nat /\ k + 1 = m /\ ~ (m <= k)
  BY <1>3, <1>4
<1>6. ~ (x < Pow2[k])
  <2>1. k \notin T
    <3> HIDE DEF T
    <3>1. QED
      BY <1>2, <1>5
  <2>2. QED
    BY <1>5, <2>1
<1>7. Pow2[k] \in Nat /\ Pow2[k] <= x /\ x < 2 * Pow2[k]
  <2>1. Pow2[k] \in Nat /\ Pow2[k + 1] = 2 * Pow2[k]
    BY <1>5, Pow2Facts
  <2>2. QED
    BY <1>3, <1>5, <1>6, <2>1
<1>8. BitAt(x, k) = 1
  <2>1. x = Pow2[k] * 1 + (x - Pow2[k]) /\ x - Pow2[k] \in Nat /\ x - Pow2[k] < Pow2[k]
    BY <1>7
  <2>2. x \div Pow2[k] = 1
    BY <1>7, <2>1, Quotient
  <2>3. QED
    BY <2>2 DEF BitAt
<1>9. QED
  BY <1>3, <1>5, <1>7, <1>8

\* The bits of Pow2[p] - 1 are those below p.
LEMMA LowOnes ==
    ASSUME NEW p \in Nat, NEW k \in Nat
    PROVE  BitAt(Pow2[p] - 1, k) = 1 <=> k < p
<1> DEFINE T == {i \in Nat : \A b \in Nat : BitAt(Pow2[i] - 1, b) = 1 <=> b < i}
<1>1. 0 \in T
  <2>1. ASSUME NEW b \in Nat
        PROVE  BitAt(Pow2[0] - 1, b) = 0
    <3>1. Pow2[0] - 1 = 0 /\ 0 < Pow2[0]
      BY Pow2Def
    <3>2. BitAt(0, b) = 0
      BY <3>1, BitAtBeyond
    <3>3. QED
      BY <3>1, <3>2
  <2>2. QED
    BY <2>1
<1>2. ASSUME NEW i \in Nat, i \in T
      PROVE  i + 1 \in T
  <2> DEFINE x == Pow2[i + 1] - 1
  <2>1. x \in Nat /\ x \div 2 = Pow2[i] - 1 /\ x % 2 = 1
    <3>1. Pow2[i + 1] = 2 * Pow2[i] /\ Pow2[i] \in Nat /\ Pow2[i] > 0
      BY Pow2Facts
    <3>2. QED
      BY <3>1
  <2> HIDE DEF x
  <2>2. ASSUME NEW b \in Nat
        PROVE  BitAt(x, b) = 1 <=> b < i + 1
    <3>1. CASE b = 0
      BY <3>1, <2>1, BitAtZero
    <3>2. CASE b # 0
      <4>1. b - 1 \in Nat /\ (b - 1) + 1 = b
        BY <3>2
      <4>2. BitAt(x, (b - 1) + 1) = BitAt(x \div 2, b - 1)
        BY <2>1, <4>1, BitAtNext
      <4>3. BitAt(Pow2[i] - 1, b - 1) = 1 <=> b - 1 < i
        BY <1>2, <4>1
      <4>4. QED
        BY <2>1, <4>1, <4>2, <4>3
    <3>3. QED
      BY <3>1, <3>2
  <2>3. QED
    BY <2>2 DEF x
<1>3. p \in T
  <2> HIDE DEF T
  <2>1. QED
    BY <1>1, <1>2, SetInduction
<1>4. QED
  BY <1>3

\* The code's test: x & (x - 1) is 0.
LEMMA PowersOfTwo ==
    ASSUME NEW x \in Nat, x > 0, x < Pow2[W], PowerOfTwo(x)
    PROVE  \E k \in Bit : x = Pow2[k]
<1>1. W \in Nat
  BY WordAssumption
<1>2. PICK k \in 0 .. W - 1 : Pow2[k] <= x /\ x < Pow2[k + 1] /\ BitAt(x, k) = 1
  BY <1>1, TopBit
<1>3. Pow2[k] \in Nat /\ Pow2[k] > 0 /\ Pow2[k + 1] = 2 * Pow2[k]
  BY <1>1, Pow2Facts
<1>4. ASSUME x # Pow2[k]
      PROVE  FALSE
  <2>1. x - 1 = Pow2[k] * 1 + (x - 1 - Pow2[k]) /\ x - 1 - Pow2[k] \in Nat
        /\ x - 1 - Pow2[k] < Pow2[k]
    BY <1>2, <1>3, <1>4
  <2>2. (x - 1) \div Pow2[k] = 1
    BY <1>3, <2>1, Quotient
  <2>3. k \in BitsOf(x) /\ k \in BitsOf(x - 1)
    BY <1>2, <2>2 DEF BitsOf, Bit, BitAt
  <2>4. QED
    BY <2>3 DEF PowerOfTwo
<1>5. QED
  BY <1>4 DEF Bit

------------------------------------------------------------------------------
(* Words.                                                                  *)

LEMMA BitsOfBits == /\ \A x : BitsOf(x) \in Word
                    /\ \A x : \A b \in Bit : b \in BitsOf(x) <=> BitAt(x, b) = 1
BY DEF BitsOf, Word, BitAt

LEMMA BitNat == W \in Nat /\ \A b \in Bit : b \in Nat /\ b < W
BY WordAssumption DEF Bit

\* Num reads a word from its highest bit down.
LEMMA NumDef ==
    ASSUME NEW S
    PROVE  \E top : /\ \A k \in Nat : top[k] \in Nat
                    /\ top[0] = 0
                    /\ \A k \in Nat : top[k + 1] = 2 * top[k] + (IF W - (k + 1) \in S THEN 1 ELSE 0)
                    /\ Num(S) = top[W]
<1> DEFINE digit == [k \in Nat |-> IF W - k \in S THEN 1 ELSE 0]
<1> DEFINE D == [p \in Nat \X Nat |-> 2 * p[1] + digit[p[2]]]
<1>1. D \in Stepper(Nat)
  BY DEF Stepper
<1>2. PICK f : Follows(f, Nat, 0, D)
  <2> HIDE DEF D
  <2>1. 0 \in Nat
    OBVIOUS
  <2>2. QED
    BY <1>1, <2>1, PrimitiveRecursion
<1>3. f = [k \in Nat |-> IF k = 0 THEN 0 ELSE 2 * f[k - 1] + (IF W - k \in S THEN 1 ELSE 0)]
  <2>1. ASSUME NEW k \in Nat, k # 0
        PROVE  f[k] = 2 * f[k - 1] + (IF W - k \in S THEN 1 ELSE 0)
    <3>1. k - 1 \in Nat
      BY <2>1
    <3>2. <<f[k - 1], k>> \in Nat \X Nat
      BY <3>1, <1>2 DEF Follows
    <3>3. D[<<f[k - 1], k>>] = 2 * f[k - 1] + digit[k]
      BY <3>2
    <3>4. digit[k] = IF W - k \in S THEN 1 ELSE 0
      OBVIOUS
    <3> HIDE DEF D, digit
    <3>5. QED
      BY <2>1, <1>2, <3>3, <3>4 DEF Follows
  <2>2. f = [k \in Nat |-> f[k]]
    BY <1>2 DEF Follows
  <2> HIDE DEF D
  <2>3. QED
    BY <1>2, <2>1, <2>2 DEF Follows
<1> DEFINE top == CHOOSE g : g = [k \in Nat |->
                     IF k = 0 THEN 0 ELSE 2 * g[k - 1] + (IF W - k \in S THEN 1 ELSE 0)]
<1>4. Num(S) = top[W]
  BY DEF Num
<1>5. top = [k \in Nat |-> IF k = 0 THEN 0 ELSE 2 * top[k - 1] + (IF W - k \in S THEN 1 ELSE 0)]
  BY <1>3
<1> HIDE DEF top
<1>6. top[0] = 0
  BY <1>5
<1>7. ASSUME NEW k \in Nat
      PROVE  top[k + 1] = 2 * top[k] + (IF W - (k + 1) \in S THEN 1 ELSE 0)
  <2>1. k + 1 \in Nat /\ k + 1 # 0 /\ (k + 1) - 1 = k
    OBVIOUS
  <2>2. top[k + 1] = IF k + 1 = 0 THEN 0
                     ELSE 2 * top[(k + 1) - 1] + (IF W - (k + 1) \in S THEN 1 ELSE 0)
    BY <1>5, <2>1
  <2>3. QED
    BY <2>1, <2>2
<1>8. \A k \in Nat : top[k] \in Nat
  <2> DEFINE T == {k \in Nat : top[k] \in Nat}
  <2>1. 0 \in T
    BY <1>6
  <2>2. \A k \in Nat : k \in T => k + 1 \in T
    BY <1>7
  <2> HIDE DEF T
  <2>3. \A k \in Nat : k \in T
    BY <2>1, <2>2, SetInduction
  <2>4. QED
    BY <2>3 DEF T
<1>9. QED
  BY <1>4, <1>6, <1>7, <1>8

LEMMA NumFacts ==
    ASSUME NEW S \in Word
    PROVE  Num(S) \in Nat /\ Num(S) < Pow2[W] /\ BitsOf(Num(S)) = S
<1>1. PICK top : /\ \A k \in Nat : top[k] \in Nat
                 /\ top[0] = 0
                 /\ \A k \in Nat : top[k + 1] = 2 * top[k] + (IF W - (k + 1) \in S THEN 1 ELSE 0)
                 /\ Num(S) = top[W]
  BY NumDef
<1> DEFINE T == {i \in Nat : /\ top[i] < Pow2[i]
                             /\ \A k \in 0 .. i - 1 : BitAt(top[i], k) = 1 <=> W - i + k \in S}
<1>2. 0 \in T
  BY <1>1, Pow2Def
<1>3. ASSUME NEW i \in Nat, i \in T
      PROVE  i + 1 \in T
  <2> DEFINE x == top[i]
  <2> DEFINE y == top[i + 1]
  <2> DEFINE d == IF W - (i + 1) \in S THEN 1 ELSE 0
  <2>1. x \in Nat /\ y \in Nat /\ d \in {0, 1} /\ y = 2 * x + d /\ x < Pow2[i]
    BY <1>1, <1>3
  <2>2. y < Pow2[i + 1]
    BY <2>1, Pow2Facts
  <2>3. ASSUME NEW k \in 0 .. (i + 1) - 1
        PROVE  BitAt(y, k) = 1 <=> W - (i + 1) + k \in S
    <3>1. CASE k = 0
      <4>1. BitAt(y, 0) = y % 2
        BY <2>1, BitAtZero
      <4>2. y % 2 = d
        BY <2>1
      <4>3. W - (i + 1) + 0 = W - (i + 1)
        BY BitNat
      <4> HIDE DEF y
      <4>4. QED
        BY <3>1, <4>1, <4>2, <4>3
    <3>2. CASE k # 0
      <4>1. k - 1 \in Nat /\ (k - 1) + 1 = k /\ k - 1 \in 0 .. i - 1
        BY <3>2
      <4>2. y \div 2 = x
        BY <2>1
      <4>3. BitAt(y, (k - 1) + 1) = BitAt(y \div 2, k - 1)
        <5> HIDE DEF y
        <5>1. QED
          BY <2>1, <4>1, BitAtNext
      <4>4. BitAt(x, k - 1) = 1 <=> W - i + (k - 1) \in S
        BY <1>3, <4>1
      <4>5. W - i + (k - 1) = W - (i + 1) + k
        BY BitNat
      <4> HIDE DEF x, y
      <4>6. QED
        BY <4>1, <4>2, <4>3, <4>4, <4>5
    <3>3. QED
      BY <3>1, <3>2
  <2>4. QED
    BY <2>2, <2>3
<1>4. W \in T
  <2> HIDE DEF T
  <2>1. QED
    BY <1>2, <1>3, SetInduction, BitNat
<1>5. Num(S) \in Nat /\ Num(S) < Pow2[W]
  BY <1>1, <1>4, BitNat
<1>6. ASSUME NEW b \in Bit
      PROVE  b \in BitsOf(Num(S)) <=> b \in S
  <2>1. b \in 0 .. W - 1 /\ W - W + b = b
    BY BitNat DEF Bit
  <2>2. BitAt(Num(S), b) = 1 <=> b \in S
    BY <1>1, <1>4, <2>1
  <2>3. QED
    BY <2>2, BitsOfBits
<1>7. BitsOf(Num(S)) \subseteq Bit /\ S \subseteq Bit
  BY BitsOfBits DEF Word
<1>8. QED
  BY <1>5, <1>6, <1>7

\* Two numbers below 2^W with the same bits are the same.
LEMMA SameWord ==
    ASSUME NEW x \in Nat, NEW y \in Nat, x < Pow2[W], y < Pow2[W], BitsOf(x) = BitsOf(y)
    PROVE  x = y
<1>1. ASSUME NEW k \in 0 .. W - 1
      PROVE  BitAt(x, k) = BitAt(y, k)
  <2>1. k \in Bit /\ k \in Nat
    BY BitNat DEF Bit
  <2>2. BitAt(x, k) \in {0, 1} /\ BitAt(y, k) \in {0, 1}
    BY <2>1, BitAtType
  <2>3. BitAt(x, k) = 1 <=> BitAt(y, k) = 1
    BY <2>1, BitsOfBits
  <2>4. QED
    BY <2>2, <2>3
<1>2. QED
  BY <1>1, SameBits, BitNat

LEMMA NumOfBits ==
    ASSUME NEW x \in Nat, x < Pow2[W]
    PROVE  Num(BitsOf(x)) = x
BY NumFacts, BitsOfBits, SameWord

------------------------------------------------------------------------------
(* Parity and linear maps.                                                 *)

LEMMA OddXor ==
    ASSUME NEW A, NEW B, IsFiniteSet(A), IsFiniteSet(B)
    PROVE  Odd(SymDiff(A, B)) <=> ~(Odd(A) <=> Odd(B))
<1>1. /\ IsFiniteSet(A \cup B)
      /\ Cardinality(A \cup B) = Cardinality(A) + Cardinality(B) - Cardinality(A \cap B)
  BY FS_Union
<1>2. /\ IsFiniteSet(SymDiff(A, B))
      /\ Cardinality(SymDiff(A, B)) =
            Cardinality(A \cup B) - Cardinality((A \cup B) \cap (A \cap B))
  <2>1. SymDiff(A, B) = (A \cup B) \ (A \cap B)
    BY DEF SymDiff
  <2>2. QED
    BY <1>1, <2>1, FS_Difference
<1>3. Cardinality((A \cup B) \cap (A \cap B)) = Cardinality(A \cap B)
  <2>1. (A \cup B) \cap (A \cap B) = A \cap B
    OBVIOUS
  <2>2. QED
    BY <2>1
<1>4. /\ Cardinality(A) \in Nat
      /\ Cardinality(B) \in Nat
      /\ Cardinality(A \cap B) \in Nat
      /\ Cardinality(A \cup B) \in Nat
      /\ Cardinality(SymDiff(A, B)) \in Nat
  BY <1>1, <1>2, FS_CardinalityType, FS_Intersection
<1>5. Cardinality(SymDiff(A, B)) =
          Cardinality(A) + Cardinality(B) - 2 * Cardinality(A \cap B)
  BY <1>1, <1>2, <1>3, <1>4
<1>6. QED
  BY <1>4, <1>5 DEF Odd

LEMMA OddNone == ~Odd({})
<1>1. Cardinality({}) = 0
  BY FS_EmptySet
<1>2. QED
  BY <1>1 DEF Odd

LEMMA OddOne == \A e : Odd({e})
<1>1. \A e : Cardinality({e}) = 1
  BY FS_Singleton
<1>2. QED
  BY <1>1 DEF Odd

LEMMA BitsFinite ==
    ASSUME NEW S, S \subseteq Bit
    PROVE  IsFiniteSet(S)
<1>1. IsFiniteSet(Bit)
  BY BitNat, FS_Interval DEF Bit
<1>2. QED
  BY <1>1, FS_Subset

\* XOR-ing the index sets XORs the parities of what is selected from them.
Chosen(a, P) == {i \in a : i \in P}
LEMMA SelectXor ==
    ASSUME NEW a \in Word, NEW b \in Word, NEW P
    PROVE  Odd(Chosen(SymDiff(a, b), P)) <=> ~(Odd(Chosen(a, P)) <=> Odd(Chosen(b, P)))
<1> DEFINE A == {i \in a : i \in P}
<1> DEFINE B == {i \in b : i \in P}
<1>1. {i \in SymDiff(a, b) : i \in P} = SymDiff(A, B)
  BY DEF SymDiff
<1>2. IsFiniteSet(A) /\ IsFiniteSet(B)
  <2>1. A \subseteq Bit /\ B \subseteq Bit
    BY DEF Word
  <2> HIDE DEF A, B
  <2>2. QED
    BY <2>1, BitsFinite
<1> HIDE DEF A, B
<1>3. Odd(SymDiff(A, B)) <=> ~(Odd(A) <=> Odd(B))
  BY <1>2, OddXor
<1>4. QED
  BY <1>1, <1>3 DEF A, B, Chosen

LEMMA XorWord == \A a, b \in Word : SymDiff(a, b) \in Word
BY DEF SymDiff, Word

LEMMA OneBit == {} \in Word /\ \A b \in Bit : {b} \in Word
BY DEF Word

Linear(F) == /\ F \in [Word -> Word]
             /\ \A a, b \in Word : F[SymDiff(a, b)] = SymDiff(F[a], F[b])

LEMMA LinearNone ==
    ASSUME NEW F, Linear(F)
    PROVE  F[{}] = {}
<1>1. SymDiff({}, {}) = {} /\ SymDiff(F[{}], F[{}]) = {}
  BY DEF SymDiff
<1>2. F[SymDiff({}, {})] = SymDiff(F[{}], F[{}])
  BY OneBit DEF Linear
<1>3. QED
  BY <1>1, <1>2

\* A linear map is what it does to single bits.
LEMMA SameLinear ==
    ASSUME NEW F, NEW G, Linear(F), Linear(G), \A b \in Bit : F[{b}] = G[{b}]
    PROVE  \A a \in Word : F[a] = G[a]
<1> DEFINE T == {i \in Nat : \A a \in Word : a \subseteq 0 .. i - 1 => F[a] = G[a]}
<1>1. 0 \in T
  <2>1. ASSUME NEW a \in Word, a \subseteq 0 .. 0 - 1
        PROVE  F[a] = G[a]
    <3>1. a = {}
      BY <2>1
    <3>2. QED
      BY <3>1, LinearNone
  <2>2. QED
    BY <2>1
<1>2. ASSUME NEW i \in Nat, i \in T
      PROVE  i + 1 \in T
  <2>1. ASSUME NEW a \in Word, a \subseteq 0 .. (i + 1) - 1
        PROVE  F[a] = G[a]
    <3>1. CASE i \in a
      <4> DEFINE r == a \ {i}
      <4>1. r \in Word /\ r \subseteq 0 .. i - 1 /\ i \in Bit
        BY <2>1, <3>1 DEF Word
      <4>2. a = SymDiff(r, {i})
        BY <3>1 DEF SymDiff
      <4> HIDE DEF r
      <4>3. F[r] = G[r]
        BY <1>2, <4>1
      <4>4. F[SymDiff(r, {i})] = SymDiff(F[r], F[{i}])
        BY <4>1, OneBit DEF Linear
      <4>5. G[SymDiff(r, {i})] = SymDiff(G[r], G[{i}])
        BY <4>1, OneBit DEF Linear
      <4>6. QED
        BY <4>1, <4>2, <4>3, <4>4, <4>5
    <3>2. CASE i \notin a
      <4>1. a \subseteq 0 .. i - 1
        BY <2>1, <3>2
      <4>2. QED
        BY <1>2, <4>1
    <3>3. QED
      BY <3>1, <3>2
  <2>2. QED
    BY <2>1
<1>3. W \in T
  <2> HIDE DEF T
  <2>1. QED
    BY <1>1, <1>2, SetInduction, BitNat
<1>4. QED
  BY <1>3 DEF Word, Bit

------------------------------------------------------------------------------
(* The LFSR.                                                               *)

LEMMA StepXor == /\ \A r \in Word : Step(r) \in Word
                 /\ \A a, b \in Word : Step(SymDiff(a, b)) = SymDiff(Step(a), Step(b))
<1> DEFINE Up(r) == {b + 1 : b \in r \ {W - 1}}
<1> DEFINE Fold(r) == IF W - 1 \in r THEN POLY ELSE {}
<1>1. POLY \subseteq Bit /\ W \in Nat
  BY WordAssumption
<1>2. \A r \in Word : Up(r) \in Word
  BY <1>1 DEF Word, Bit
<1>3. \A r \in Word : Fold(r) \in Word
  BY <1>1 DEF Word
<1>4. \A r : Step(r) = SymDiff(Up(r), Fold(r))
  BY DEF Step
<1>5. ASSUME NEW a \in Word, NEW b \in Word
      PROVE  Up(SymDiff(a, b)) = SymDiff(Up(a), Up(b))
  <2>1. \A c \in Bit : c \in Int
    BY BitNat
  <2>2. \A r \in Word : \A x : x \in Up(r) <=> (x \in Int /\ x - 1 \in r \ {W - 1})
    BY <2>1 DEF Word
  <2>3. SymDiff(a, b) \in Word
    BY XorWord
  <2> HIDE DEF Up
  <2>4. \A x : x \in Up(SymDiff(a, b)) <=> x \in SymDiff(Up(a), Up(b))
    BY <2>2, <2>3 DEF SymDiff
  <2>5. QED
    BY <2>4
<1>6. ASSUME NEW a \in Word, NEW b \in Word
      PROVE  Fold(SymDiff(a, b)) = SymDiff(Fold(a), Fold(b))
  BY DEF SymDiff
<1>7. \A r \in Word : Step(r) \in Word
  <2> HIDE DEF Up, Fold
  <2>1. QED
    BY <1>2, <1>3, <1>4, XorWord
<1>8. ASSUME NEW a \in Word, NEW b \in Word
      PROVE  Step(SymDiff(a, b)) = SymDiff(Step(a), Step(b))
  <2> HIDE DEF Up, Fold
  <2>1. SymDiff(SymDiff(Up(a), Up(b)), SymDiff(Fold(a), Fold(b)))
            = SymDiff(SymDiff(Up(a), Fold(a)), SymDiff(Up(b), Fold(b)))
    BY DEF SymDiff
  <2>2. QED
    BY <1>4, <1>5, <1>6, <2>1
<1>9. QED
  BY <1>7, <1>8

\* The sequence from the first state on.
LEMMA OrbitDef == /\ Orbit[0] = {0}
                  /\ \A j \in Nat : Orbit[j] \in Word /\ Orbit[j + 1] = Step(Orbit[j])
<1> DEFINE D == [p \in Word \X Nat |-> Step(p[1])]
<1>1. D \in Stepper(Word)
  BY StepXor DEF Stepper
<1>2. {0} \in Word
  BY WordAssumption DEF Word, Bit
<1>3. PICK f : Follows(f, Word, {0}, D)
  <2> HIDE DEF D
  <2>1. QED
    BY <1>1, <1>2, PrimitiveRecursion
<1>4. f = [j \in Nat |-> IF j = 0 THEN {0} ELSE Step(f[j - 1])]
  <2>1. ASSUME NEW j \in Nat, j # 0
        PROVE  f[j] = Step(f[j - 1])
    <3>1. j - 1 \in Nat
      BY <2>1
    <3>2. <<f[j - 1], j>> \in Word \X Nat
      BY <3>1, <1>3 DEF Follows
    <3>3. D[<<f[j - 1], j>>] = Step(f[j - 1])
      BY <3>2
    <3> HIDE DEF D
    <3>4. QED
      BY <2>1, <1>3, <3>3 DEF Follows
  <2>2. f = [j \in Nat |-> f[j]]
    BY <1>3 DEF Follows
  <2> HIDE DEF D
  <2>3. QED
    BY <1>3, <2>1, <2>2 DEF Follows
<1>5. Orbit = [j \in Nat |-> IF j = 0 THEN {0} ELSE Step(Orbit[j - 1])]
  <2>1. Orbit = CHOOSE g : g = [j \in Nat |-> IF j = 0 THEN {0} ELSE Step(g[j - 1])]
    BY DEF Orbit
  <2> HIDE DEF Orbit
  <2>2. QED
    BY <1>4, <2>1
<1>6. Orbit[0] = {0}
  BY <1>5
<1>7. ASSUME NEW j \in Nat
      PROVE  Orbit[j + 1] = Step(Orbit[j])
  <2>1. j + 1 \in Nat /\ j + 1 # 0 /\ (j + 1) - 1 = j
    OBVIOUS
  <2>2. Orbit[j + 1] = IF j + 1 = 0 THEN {0} ELSE Step(Orbit[(j + 1) - 1])
    BY <1>5, <2>1
  <2>3. QED
    BY <2>1, <2>2
<1>8. \A j \in Nat : Orbit[j] \in Word
  <2> DEFINE T == {j \in Nat : Orbit[j] \in Word}
  <2>1. 0 \in T
    BY <1>2, <1>6
  <2>2. \A j \in Nat : j \in T => j + 1 \in T
    BY <1>7, StepXor
  <2> HIDE DEF T
  <2>3. \A j \in Nat : j \in T
    BY <2>1, <2>2, SetInduction
  <2>4. QED
    BY <2>3 DEF T
<1>9. QED
  BY <1>6, <1>7, <1>8

\* Before a bit falls out, a step is a shift.
LEMMA OrbitBit ==
    ASSUME NEW b \in Bit
    PROVE  Orbit[b] = {b}
<1> DEFINE T == {i \in Nat : i < W => Orbit[i] = {i}}
<1>1. 0 \in T
  BY OrbitDef
<1>2. ASSUME NEW i \in Nat, i \in T
      PROVE  i + 1 \in T
  <2>1. CASE i + 1 < W
    <3>1. Orbit[i] = {i} /\ i # W - 1
      BY <1>2, <2>1, BitNat
    <3>2. Step({i}) = {i + 1}
      BY <3>1 DEF Step, SymDiff
    <3>3. QED
      BY <3>1, <3>2, OrbitDef
  <2>2. QED
    BY <2>1
<1>3. b \in T
  <2> HIDE DEF T
  <2>1. QED
    BY <1>1, <1>2, SetInduction, BitNat
<1>4. QED
  BY <1>3, BitNat

\* m2[b] is what squaring makes of bit b: the state twice as far.
LEMMA M2Def == \A b \in Nat : M2[b] = Orbit[2 * b]
<1> DEFINE f == [b \in Nat |-> Orbit[2 * b]]
<1>1. ASSUME NEW b \in Nat, b # 0
      PROVE  f[b] = Step(Step(f[b - 1]))
  <2>1. /\ b - 1 \in Nat /\ 2 * (b - 1) \in Nat /\ 2 * (b - 1) + 1 \in Nat
        /\ (2 * (b - 1) + 1) + 1 = 2 * b
    BY <1>1
  <2>2. Orbit[(2 * (b - 1) + 1) + 1] = Step(Step(Orbit[2 * (b - 1)]))
    BY <2>1, OrbitDef
  <2>3. QED
    BY <2>1, <2>2
<1>2. f[0] = {0}
  BY OrbitDef
<1>3. f = [b \in Nat |-> IF b = 0 THEN {0} ELSE Step(Step(f[b - 1]))]
  <2>1. f = [b \in Nat |-> f[b]]
    OBVIOUS
  <2> HIDE DEF f
  <2>2. QED
    BY <1>1, <1>2, <2>1
<1>4. M2 = [b \in Nat |-> IF b = 0 THEN {0} ELSE Step(Step(M2[b - 1]))]
  <2>1. M2 = CHOOSE g : g = [b \in Nat |-> IF b = 0 THEN {0} ELSE Step(Step(g[b - 1]))]
    BY DEF M2
  <2> HIDE DEF M2, f
  <2>2. QED
    BY <1>3, <2>1
<1> HIDE DEF M2
<1> DEFINE T == {b \in Nat : M2[b] = f[b]}
<1>5. 0 \in T
  <2> HIDE DEF f
  <2>1. QED
    BY <1>2, <1>4
<1>6. ASSUME NEW b \in Nat, b \in T
      PROVE  b + 1 \in T
  <2>1. b + 1 \in Nat /\ b + 1 # 0 /\ (b + 1) - 1 = b
    OBVIOUS
  <2> HIDE DEF f
  <2>2. M2[b + 1] = IF b + 1 = 0 THEN {0} ELSE Step(Step(M2[(b + 1) - 1]))
    BY <1>4, <2>1
  <2>3. f[b + 1] = Step(Step(f[(b + 1) - 1]))
    BY <1>1, <2>1
  <2>4. QED
    BY <1>6, <2>1, <2>2, <2>3
<1>7. \A b \in Nat : b \in T
  <2> HIDE DEF T
  <2>1. QED
    BY <1>5, <1>6, SetInduction
<1>8. QED
  BY <1>7

\* I[i] steps a word i times.
Iterates(I) == /\ \A i \in Nat : I[i] \in [Word -> Word]
               /\ \A r \in Word : I[0][r] = r
               /\ \A i \in Nat : \A r \in Word : I[i + 1][r] = Step(I[i][r])

LEMMA SomeIterates == \E I : Iterates(I)
<1> DEFINE S == [Word -> Word]
<1> DEFINE D == [p \in S \X Nat |-> [r \in Word |-> Step(p[1][r])]]
<1> DEFINE id == [r \in Word |-> r]
<1>1. D \in Stepper(S)
  <2>1. ASSUME NEW p \in S \X Nat
        PROVE  [r \in Word |-> Step(p[1][r])] \in S
    <3>1. p[1] \in S
      OBVIOUS
    <3>2. \A r \in Word : Step(p[1][r]) \in Word
      BY <3>1, StepXor
    <3>3. QED
      BY <3>2
  <2> HIDE DEF S
  <2>2. QED
    BY <2>1 DEF Stepper
<1>2. id \in S
  OBVIOUS
<1>3. PICK I : Follows(I, S, id, D)
  <2> HIDE DEF S, D, id
  <2>1. QED
    BY <1>1, <1>2, PrimitiveRecursion
<1>4. \A i \in Nat : I[i] \in S
  <2> HIDE DEF S, D, id
  <2>1. QED
    BY <1>3 DEF Follows
<1>5. ASSUME NEW i \in Nat, NEW r \in Word
      PROVE  I[i + 1][r] = Step(I[i][r])
  <2>1. i + 1 \in Nat \ {0} /\ (i + 1) - 1 = i
    OBVIOUS
  <2>2. I[i + 1] = D[<<I[i], i + 1>>]
    <3> HIDE DEF S, D, id
    <3>1. QED
      BY <1>3, <2>1 DEF Follows
  <2>3. <<I[i], i + 1>> \in S \X Nat
    <3> HIDE DEF S, D, id
    <3>1. QED
      BY <1>4, <2>1
  <2>4. D[<<I[i], i + 1>>] = [x \in Word |-> Step(I[i][x])]
    <3> HIDE DEF S
    <3>1. QED
      BY <2>3
  <2>5. QED
    BY <2>2, <2>4
<1>6. \A r \in Word : I[0][r] = r
  <2>1. I[0] = id
    <3> HIDE DEF S, D, id
    <3>1. QED
      BY <1>3 DEF Follows
  <2>2. QED
    BY <2>1
<1>7. QED
  BY <1>4, <1>5, <1>6 DEF Iterates

LEMMA IteratesFacts ==
    ASSUME NEW I, Iterates(I), NEW i \in Nat
    PROVE  /\ \A r \in Word : I[i][r] \in Word
           /\ \A a, b \in Word : I[i][SymDiff(a, b)] = SymDiff(I[i][a], I[i][b])
           /\ \A j \in Nat : I[i][Orbit[j]] = Orbit[i + j]
           /\ \A r \in Word : I[i][Step(r)] = Step(I[i][r])
<1>1. \A k \in Nat : \A r \in Word : I[k][r] \in Word
  BY DEF Iterates
<1> DEFINE T == {k \in Nat : /\ \A a, b \in Word : I[k][SymDiff(a, b)] = SymDiff(I[k][a], I[k][b])
                             /\ \A j \in Nat : I[k][Orbit[j]] = Orbit[k + j]
                             /\ \A r \in Word : I[k][Step(r)] = Step(I[k][r])}
<1>2. 0 \in T
  <2>1. \A r \in Word : I[0][r] = r
    BY DEF Iterates
  <2>2. \A a, b \in Word : I[0][SymDiff(a, b)] = SymDiff(I[0][a], I[0][b])
    BY <2>1, XorWord
  <2>3. \A j \in Nat : I[0][Orbit[j]] = Orbit[0 + j]
    BY <2>1, OrbitDef
  <2>4. \A r \in Word : I[0][Step(r)] = Step(I[0][r])
    BY <2>1, StepXor
  <2>5. QED
    BY <2>2, <2>3, <2>4
<1>3. ASSUME NEW k \in Nat, k \in T
      PROVE  k + 1 \in T
  <2>1. \A r \in Word : I[k + 1][r] = Step(I[k][r])
    BY DEF Iterates
  <2>2. ASSUME NEW a \in Word, NEW b \in Word
        PROVE  I[k + 1][SymDiff(a, b)] = SymDiff(I[k + 1][a], I[k + 1][b])
    <3>1. SymDiff(a, b) \in Word /\ I[k][a] \in Word /\ I[k][b] \in Word
      BY <1>1, XorWord
    <3>2. Step(SymDiff(I[k][a], I[k][b])) = SymDiff(Step(I[k][a]), Step(I[k][b]))
      BY <3>1, StepXor
    <3>3. QED
      BY <1>3, <2>1, <3>1, <3>2
  <2>3. ASSUME NEW j \in Nat
        PROVE  I[k + 1][Orbit[j]] = Orbit[(k + 1) + j]
    <3>1. k + j \in Nat /\ (k + j) + 1 = (k + 1) + j
      OBVIOUS
    <3>2. Orbit[(k + j) + 1] = Step(Orbit[k + j]) /\ Orbit[j] \in Word
      BY <3>1, OrbitDef
    <3>3. QED
      BY <1>3, <2>1, <3>1, <3>2
  <2>4. ASSUME NEW r \in Word
        PROVE  I[k + 1][Step(r)] = Step(I[k + 1][r])
    <3>1. Step(r) \in Word
      BY StepXor
    <3>2. QED
      BY <1>3, <2>1, <3>1
  <2>5. QED
    BY <2>2, <2>3, <2>4
<1>4. i \in T
  <2> HIDE DEF T
  <2>1. QED
    BY <1>2, <1>3, SetInduction
<1>5. QED
  BY <1>1, <1>4

\* The product of two words modulo the feedback: b stepped by each bit of a, XORed.
Mul(I, a, b) == {c \in Bit : Odd({i \in a : c \in I[i][b]})}
MulBy(I, b) == [a \in Word |-> Mul(I, a, b)]
MulOf(I, a) == [b \in Word |-> Mul(I, a, b)]

LEMMA MulLinear ==
    ASSUME NEW I, Iterates(I)
    PROVE  /\ \A a, b \in Word : Mul(I, a, b) \in Word
           /\ \A b \in Word : Linear(MulBy(I, b))
           /\ \A a \in Word : Linear(MulOf(I, a))
           /\ \A i \in Bit : \A b \in Word : Mul(I, {i}, b) = I[i][b]
<1>1. \A a, b : Mul(I, a, b) \in Word
  BY DEF Mul, Word
<1>2. ASSUME NEW b \in Word, NEW a1 \in Word, NEW a2 \in Word
      PROVE  Mul(I, SymDiff(a1, a2), b) = SymDiff(Mul(I, a1, b), Mul(I, a2, b))
  <2>1. ASSUME NEW c \in Bit
        PROVE  c \in Mul(I, SymDiff(a1, a2), b)
                  <=> ~(c \in Mul(I, a1, b) <=> c \in Mul(I, a2, b))
    <3> DEFINE P == {i \in Bit : c \in I[i][b]}
    <3>1. \A a \in Word : {i \in a : c \in I[i][b]} = Chosen(a, P)
      BY DEF Word, Chosen
    <3>2. SymDiff(a1, a2) \in Word
      BY XorWord
    <3> HIDE DEF P
    <3>3. Odd(Chosen(SymDiff(a1, a2), P)) <=> ~(Odd(Chosen(a1, P)) <=> Odd(Chosen(a2, P)))
      BY SelectXor
    <3>4. \A a \in Word : c \in Mul(I, a, b) <=> Odd(Chosen(a, P))
      BY <3>1 DEF Mul
    <3>5. QED
      BY <3>2, <3>3, <3>4
  <2>2. Mul(I, SymDiff(a1, a2), b) \in Word /\ Mul(I, a1, b) \in Word /\ Mul(I, a2, b) \in Word
    BY <1>1
  <2>3. QED
    BY <2>1, <2>2 DEF SymDiff, Word
<1>3. ASSUME NEW a \in Word, NEW b1 \in Word, NEW b2 \in Word
      PROVE  Mul(I, a, SymDiff(b1, b2)) = SymDiff(Mul(I, a, b1), Mul(I, a, b2))
  <2>1. ASSUME NEW c \in Bit
        PROVE  c \in Mul(I, a, SymDiff(b1, b2))
                  <=> ~(c \in Mul(I, a, b1) <=> c \in Mul(I, a, b2))
    <3> DEFINE P == {i \in a : c \in I[i][b1]}
    <3> DEFINE Q == {i \in a : c \in I[i][b2]}
    <3>1. \A i \in a : I[i][SymDiff(b1, b2)] = SymDiff(I[i][b1], I[i][b2])
      <4>1. \A i \in a : i \in Nat
        BY BitNat DEF Word
      <4>2. QED
        BY <4>1, IteratesFacts
    <3>2. {i \in a : c \in I[i][SymDiff(b1, b2)]} = SymDiff(P, Q)
      BY <3>1 DEF SymDiff
    <3>3. IsFiniteSet(P) /\ IsFiniteSet(Q)
      <4>1. P \subseteq Bit /\ Q \subseteq Bit
        BY DEF Word
      <4> HIDE DEF P, Q
      <4>2. QED
        BY <4>1, BitsFinite
    <3>4. /\ c \in Mul(I, a, SymDiff(b1, b2)) <=> Odd({i \in a : c \in I[i][SymDiff(b1, b2)]})
          /\ c \in Mul(I, a, b1) <=> Odd(P)
          /\ c \in Mul(I, a, b2) <=> Odd(Q)
      BY DEF Mul
    <3> HIDE DEF P, Q
    <3>5. Odd(SymDiff(P, Q)) <=> ~(Odd(P) <=> Odd(Q))
      BY <3>3, OddXor
    <3>6. QED
      BY <3>2, <3>4, <3>5
  <2>2. /\ Mul(I, a, SymDiff(b1, b2)) \in Word
        /\ Mul(I, a, b1) \in Word
        /\ Mul(I, a, b2) \in Word
    BY <1>1
  <2>3. QED
    BY <2>1, <2>2 DEF SymDiff, Word
<1>4. ASSUME NEW i \in Bit, NEW b \in Word
      PROVE  Mul(I, {i}, b) = I[i][b]
  <2>1. I[i][b] \in Word
    BY BitNat, IteratesFacts
  <2>2. ASSUME NEW c \in Bit
        PROVE  c \in Mul(I, {i}, b) <=> c \in I[i][b]
    <3>1. CASE c \in I[i][b]
      <4>1. {j \in {i} : c \in I[j][b]} = {i}
        BY <3>1
      <4>2. QED
        BY <3>1, <4>1, OddOne DEF Mul
    <3>2. CASE c \notin I[i][b]
      <4>1. {j \in {i} : c \in I[j][b]} = {}
        BY <3>2
      <4>2. QED
        BY <3>2, <4>1, OddNone DEF Mul
    <3>3. QED
      BY <3>1, <3>2
  <2>3. Mul(I, {i}, b) \in Word
    BY <1>1
  <2>4. QED
    BY <2>1, <2>2, <2>3 DEF Word
<1>5. ASSUME NEW b \in Word
      PROVE  Linear(MulBy(I, b))
  <2> HIDE DEF Mul
  <2>1. MulBy(I, b) \in [Word -> Word] /\ \A a \in Word : MulBy(I, b)[a] = Mul(I, a, b)
    BY <1>1 DEF MulBy
  <2>2. \A a1, a2 \in Word : MulBy(I, b)[SymDiff(a1, a2)]
                                 = SymDiff(MulBy(I, b)[a1], MulBy(I, b)[a2])
    BY <1>2, <2>1, XorWord
  <2>3. QED
    BY <2>1, <2>2 DEF Linear
<1>6. ASSUME NEW a \in Word
      PROVE  Linear(MulOf(I, a))
  <2> HIDE DEF Mul
  <2>1. MulOf(I, a) \in [Word -> Word] /\ \A b \in Word : MulOf(I, a)[b] = Mul(I, a, b)
    BY <1>1 DEF MulOf
  <2>2. \A b1, b2 \in Word : MulOf(I, a)[SymDiff(b1, b2)]
                                 = SymDiff(MulOf(I, a)[b1], MulOf(I, a)[b2])
    BY <1>3, <2>1, XorWord
  <2>3. QED
    BY <2>1, <2>2 DEF Linear
<1>7. QED
  BY <1>1, <1>4, <1>5, <1>6

LEMMA MulCommutes ==
    ASSUME NEW I, Iterates(I)
    PROVE  \A a, b \in Word : Mul(I, a, b) = Mul(I, b, a)
<1>1. ASSUME NEW i \in Bit, NEW j \in Bit
      PROVE  Mul(I, {i}, {j}) = Mul(I, {j}, {i})
  <2>1. i \in Nat /\ j \in Nat /\ i + j = j + i
    BY BitNat
  <2>2. Mul(I, {i}, {j}) = I[i][{j}] /\ Mul(I, {j}, {i}) = I[j][{i}]
    BY MulLinear, OneBit
  <2>3. I[i][Orbit[j]] = Orbit[i + j] /\ I[j][Orbit[i]] = Orbit[j + i]
    BY <2>1, IteratesFacts
  <2>4. QED
    BY <2>1, <2>2, <2>3, OrbitBit
<1>2. ASSUME NEW j \in Bit
      PROVE  \A a \in Word : Mul(I, a, {j}) = Mul(I, {j}, a)
  <2>1. {j} \in Word /\ \A i \in Bit : {i} \in Word
    BY OneBit
  <2>2. Linear(MulBy(I, {j})) /\ Linear(MulOf(I, {j}))
    BY <2>1, MulLinear
  <2>3. \A a \in Word : MulBy(I, {j})[a] = Mul(I, a, {j}) /\ MulOf(I, {j})[a] = Mul(I, {j}, a)
    BY DEF MulBy, MulOf
  <2>4. \A i \in Bit : MulBy(I, {j})[{i}] = MulOf(I, {j})[{i}]
    BY <1>1, <2>1, <2>3
  <2>5. \A a \in Word : MulBy(I, {j})[a] = MulOf(I, {j})[a]
    BY <2>2, <2>4, SameLinear
  <2>6. QED
    BY <2>3, <2>5
<1>3. ASSUME NEW b \in Word
      PROVE  \A a \in Word : Mul(I, a, b) = Mul(I, b, a)
  <2>1. Linear(MulBy(I, b)) /\ Linear(MulOf(I, b))
    BY MulLinear
  <2>2. \A a \in Word : MulBy(I, b)[a] = Mul(I, a, b) /\ MulOf(I, b)[a] = Mul(I, b, a)
    BY DEF MulBy, MulOf
  <2>3. \A i \in Bit : MulBy(I, b)[{i}] = MulOf(I, b)[{i}]
    BY <1>2, <2>2, OneBit
  <2>4. \A a \in Word : MulBy(I, b)[a] = MulOf(I, b)[a]
    BY <2>1, <2>3, SameLinear
  <2>5. QED
    BY <2>2, <2>4
<1>4. QED
  BY <1>3

LEMMA MulSteps ==
    ASSUME NEW I, Iterates(I)
    PROVE  \A a, b \in Word : Mul(I, a, Step(b)) = Step(Mul(I, a, b))
<1>1. ASSUME NEW b \in Word
      PROVE  \A a \in Word : Mul(I, a, Step(b)) = Step(Mul(I, a, b))
  <2> DEFINE G == [a \in Word |-> Step(Mul(I, a, b))]
  <2>1. Step(b) \in Word
    BY StepXor
  <2>2. Linear(MulBy(I, Step(b))) /\ Linear(MulBy(I, b))
    BY <2>1, MulLinear
  <2>3. \A a \in Word : /\ MulBy(I, Step(b))[a] = Mul(I, a, Step(b))
                        /\ MulBy(I, b)[a] = Mul(I, a, b)
    BY DEF MulBy
  <2>4. Linear(G)
    <3>1. \A a \in Word : Mul(I, a, b) \in Word
      BY MulLinear
    <3>2. G \in [Word -> Word] /\ \A a \in Word : G[a] = Step(Mul(I, a, b))
      BY <3>1, StepXor
    <3>3. ASSUME NEW a1 \in Word, NEW a2 \in Word
          PROVE  G[SymDiff(a1, a2)] = SymDiff(G[a1], G[a2])
      <4>1. SymDiff(a1, a2) \in Word
        BY XorWord
      <4>2. Mul(I, SymDiff(a1, a2), b) = SymDiff(Mul(I, a1, b), Mul(I, a2, b))
        BY <2>2, <2>3, <4>1 DEF Linear
      <4> HIDE DEF G
      <4>3. QED
        BY <3>1, <3>2, <4>1, <4>2, StepXor
    <3> HIDE DEF G
    <3>4. QED
      BY <3>2, <3>3 DEF Linear
  <2>5. ASSUME NEW i \in Bit
        PROVE  MulBy(I, Step(b))[{i}] = G[{i}]
    <3>1. {i} \in Word /\ i \in Nat
      BY OneBit, BitNat
    <3>2. Mul(I, {i}, Step(b)) = I[i][Step(b)] /\ Mul(I, {i}, b) = I[i][b]
      BY <2>1, MulLinear
    <3>3. I[i][Step(b)] = Step(I[i][b])
      BY <3>1, IteratesFacts
    <3>4. QED
      BY <2>3, <3>1, <3>2, <3>3
  <2>6. \A a \in Word : MulBy(I, Step(b))[a] = G[a]
    <3> HIDE DEF G
    <3>1. QED
      BY <2>2, <2>4, <2>5, SameLinear
  <2>7. QED
    BY <2>3, <2>6
<1>2. QED
  BY <1>1

\* Squaring through m2 is the product of a word with itself.
LEMMA SquareMul ==
    ASSUME NEW I, Iterates(I)
    PROVE  \A a \in Word : Square(a) = Mul(I, a, a)
<1> DEFINE F == [a \in Word |-> Square(a)]
<1> DEFINE G == [a \in Word |-> Mul(I, a, a)]
<1>1. Linear(F)
  <2>1. \A a : Square(a) \in Word
    BY DEF Square, Word
  <2>2. ASSUME NEW a \in Word, NEW b \in Word
        PROVE  Square(SymDiff(a, b)) = SymDiff(Square(a), Square(b))
    <3>1. ASSUME NEW c \in Bit
          PROVE  c \in Square(SymDiff(a, b)) <=> ~(c \in Square(a) <=> c \in Square(b))
      <4> DEFINE P == {i \in Bit : c \in M2[i]}
      <4>1. \A r \in Word : {i \in r : c \in M2[i]} = Chosen(r, P)
        BY DEF Word, Chosen
      <4>2. SymDiff(a, b) \in Word
        BY XorWord
      <4> HIDE DEF P
      <4>3. Odd(Chosen(SymDiff(a, b), P)) <=> ~(Odd(Chosen(a, P)) <=> Odd(Chosen(b, P)))
        BY SelectXor
      <4>4. \A r \in Word : c \in Square(r) <=> Odd(Chosen(r, P))
        BY <4>1 DEF Square
      <4>5. QED
        BY <4>2, <4>3, <4>4
    <3>2. Square(SymDiff(a, b)) \in Word /\ Square(a) \in Word /\ Square(b) \in Word
      BY <2>1
    <3>3. QED
      BY <3>1, <3>2 DEF SymDiff, Word
  <2>3. F \in [Word -> Word] /\ \A a \in Word : F[a] = Square(a)
    BY <2>1
  <2> HIDE DEF F
  <2>4. \A a, b \in Word : F[SymDiff(a, b)] = SymDiff(F[a], F[b])
    BY <2>2, <2>3, XorWord
  <2>5. QED
    BY <2>3, <2>4 DEF Linear
<1>2. Linear(G)
  <2>1. \A a, b \in Word : Mul(I, a, b) \in Word /\ Mul(I, a, b) = Mul(I, b, a)
    BY MulLinear, MulCommutes
  <2>2. ASSUME NEW a \in Word, NEW b \in Word, NEW c \in Word
        PROVE  /\ Mul(I, SymDiff(a, b), c) = SymDiff(Mul(I, a, c), Mul(I, b, c))
               /\ Mul(I, c, SymDiff(a, b)) = SymDiff(Mul(I, c, a), Mul(I, c, b))
    <3>1. /\ \A r \in Word : MulBy(I, c)[r] = Mul(I, r, c)
          /\ \A r \in Word : MulOf(I, c)[r] = Mul(I, c, r)
      BY DEF MulBy, MulOf
    <3>2. Linear(MulBy(I, c)) /\ Linear(MulOf(I, c))
      BY MulLinear
    <3>3. SymDiff(a, b) \in Word
      BY XorWord
    <3>4. /\ MulBy(I, c)[SymDiff(a, b)] = SymDiff(MulBy(I, c)[a], MulBy(I, c)[b])
          /\ MulOf(I, c)[SymDiff(a, b)] = SymDiff(MulOf(I, c)[a], MulOf(I, c)[b])
      BY <3>2 DEF Linear
    <3>5. QED
      BY <3>1, <3>3, <3>4
  <2>3. ASSUME NEW a \in Word, NEW b \in Word
        PROVE  Mul(I, SymDiff(a, b), SymDiff(a, b)) = SymDiff(Mul(I, a, a), Mul(I, b, b))
    <3>1. SymDiff(a, b) \in Word
      BY XorWord
    <3>2. Mul(I, SymDiff(a, b), SymDiff(a, b))
              = SymDiff(Mul(I, a, SymDiff(a, b)), Mul(I, b, SymDiff(a, b)))
      BY <2>2, <3>1
    <3>3. /\ Mul(I, a, SymDiff(a, b)) = SymDiff(Mul(I, a, a), Mul(I, a, b))
          /\ Mul(I, b, SymDiff(a, b)) = SymDiff(Mul(I, b, a), Mul(I, b, b))
      BY <2>2
    <3>4. Mul(I, b, a) = Mul(I, a, b)
      BY <2>1
    <3>5. \A x, y, z : SymDiff(SymDiff(x, y), SymDiff(y, z)) = SymDiff(x, z)
      BY DEF SymDiff
    <3>6. QED
      BY <3>2, <3>3, <3>4, <3>5
  <2>4. G \in [Word -> Word] /\ \A a \in Word : G[a] = Mul(I, a, a)
    BY <2>1
  <2> HIDE DEF G
  <2>5. \A a, b \in Word : G[SymDiff(a, b)] = SymDiff(G[a], G[b])
    BY <2>3, <2>4, XorWord
  <2>6. QED
    BY <2>4, <2>5 DEF Linear
<1>3. ASSUME NEW b \in Bit
      PROVE  F[{b}] = G[{b}]
  <2>1. {b} \in Word /\ b \in Nat /\ b + b = 2 * b
    BY OneBit, BitNat
  <2>2. Square({b}) = M2[b]
    <3>1. M2[b] \in Word
      BY <2>1, M2Def, OrbitDef
    <3>2. ASSUME NEW c \in Bit
          PROVE  c \in Square({b}) <=> c \in M2[b]
      <4>1. CASE c \in M2[b]
        <5>1. {i \in {b} : c \in M2[i]} = {b}
          BY <4>1
        <5>2. QED
          BY <4>1, <5>1, OddOne DEF Square
      <4>2. CASE c \notin M2[b]
        <5>1. {i \in {b} : c \in M2[i]} = {}
          BY <4>2
        <5>2. QED
          BY <4>2, <5>1, OddNone DEF Square
      <4>3. QED
        BY <4>1, <4>2
    <3>3. Square({b}) \subseteq Bit /\ M2[b] \subseteq Bit
      BY <3>1 DEF Square, Word
    <3>4. QED
      BY <3>2, <3>3
  <2>3. Mul(I, {b}, {b}) = I[b][{b}]
    BY <2>1, MulLinear
  <2>4. I[b][Orbit[b]] = Orbit[b + b]
    BY <2>1, IteratesFacts
  <2>5. Square({b}) = Mul(I, {b}, {b})
    BY <2>1, <2>2, <2>3, <2>4, OrbitBit, M2Def
  <2>6. QED
    BY <2>1, <2>5
<1>4. \A a \in Word : F[a] = G[a]
  <2> HIDE DEF F, G
  <2>1. QED
    BY <1>1, <1>2, <1>3, SameLinear
<1>5. QED
  BY <1>4

\* Squaring a state doubles how far it is along the sequence.
LEMMA SquareOrbit ==
    ASSUME NEW j \in Nat
    PROVE  Square(Orbit[j]) = Orbit[2 * j]
<1>1. PICK I : Iterates(I)
  BY SomeIterates
<1>2. ASSUME NEW a \in Word
      PROVE  Square(Step(a)) = Step(Step(Square(a)))
  <2>1. Step(a) \in Word
    BY StepXor
  <2>2. Square(Step(a)) = Mul(I, Step(a), Step(a)) /\ Square(a) = Mul(I, a, a)
    BY <1>1, <2>1, SquareMul
  <2>3. Mul(I, Step(a), Step(a)) = Step(Mul(I, Step(a), a))
    BY <1>1, <2>1, MulSteps
  <2>4. Mul(I, Step(a), a) = Mul(I, a, Step(a))
    BY <1>1, <2>1, MulCommutes
  <2>5. Mul(I, a, Step(a)) = Step(Mul(I, a, a))
    BY <1>1, MulSteps
  <2>6. QED
    BY <2>2, <2>3, <2>4, <2>5
<1> DEFINE T == {i \in Nat : Square(Orbit[i]) = Orbit[2 * i]}
<1>3. 0 \in T
  <2>1. 0 \in Bit /\ 0 \in Nat
    BY WordAssumption DEF Bit
  <2>2. Square({0}) = Mul(I, {0}, {0}) /\ Mul(I, {0}, {0}) = I[0][{0}]
    BY <1>1, <2>1, OneBit, SquareMul, MulLinear
  <2>3. I[0][{0}] = {0}
    BY <1>1, <2>1, OneBit DEF Iterates
  <2>4. 2 * 0 = 0
    OBVIOUS
  <2>5. QED
    BY <2>2, <2>3, <2>4, OrbitDef
<1>4. ASSUME NEW i \in Nat, i \in T
      PROVE  i + 1 \in T
  <2>1. 2 * i \in Nat /\ 2 * i + 1 \in Nat /\ (2 * i + 1) + 1 = 2 * (i + 1)
    OBVIOUS
  <2>2. Orbit[i] \in Word /\ Orbit[i + 1] = Step(Orbit[i])
    BY OrbitDef
  <2>3. Orbit[2 * i + 1] = Step(Orbit[2 * i]) /\ Orbit[(2 * i + 1) + 1] = Step(Orbit[2 * i + 1])
    BY <2>1, OrbitDef
  <2>4. Square(Orbit[i + 1]) = Step(Step(Square(Orbit[i])))
    BY <1>2, <2>2
  <2>5. Square(Orbit[i + 1]) = Orbit[2 * (i + 1)]
    BY <1>4, <2>1, <2>3, <2>4
  <2>6. QED
    BY <2>5
<1>5. j \in T
  <2> HIDE DEF T
  <2>1. QED
    BY <1>3, <1>4, SetInduction
<1>6. QED
  BY <1>5

\* The sequence is a cycle of PERIOD states: it repeats after PERIOD steps, and states
\* less than that apart differ.
LEMMA OrbitCycle ==
    /\ \A j, q \in Nat : Orbit[j + q * PERIOD] = Orbit[j]
    /\ \A i, j \in Nat : i < j /\ j - i < PERIOD => Orbit[i] # Orbit[j]
<1>1. PICK I : Iterates(I)
  BY SomeIterates
<1>2. PERIOD \in Nat /\ PERIOD > 0 /\ Orbit[PERIOD] = Orbit[0]
  BY PeriodAssumption, OrbitDef
<1>3. ASSUME NEW j \in Nat
      PROVE  Orbit[j + PERIOD] = Orbit[j]
  <2>1. I[j][Orbit[PERIOD]] = Orbit[j + PERIOD] /\ I[j][Orbit[0]] = Orbit[j + 0]
    BY <1>1, <1>2, IteratesFacts
  <2>2. j + 0 = j
    OBVIOUS
  <2>3. QED
    BY <1>2, <2>1, <2>2
<1>4. ASSUME NEW j \in Nat, NEW q \in Nat
      PROVE  Orbit[j + q * PERIOD] = Orbit[j]
  <2> DEFINE T == {k \in Nat : Orbit[j + k * PERIOD] = Orbit[j]}
  <2>1. 0 \in T
    <3>1. j + 0 * PERIOD = j
      BY <1>2
    <3>2. QED
      BY <3>1
  <2>2. ASSUME NEW k \in Nat, k \in T
        PROVE  k + 1 \in T
    <3>1. j + k * PERIOD \in Nat /\ j + (k + 1) * PERIOD = (j + k * PERIOD) + PERIOD
      BY <1>2
    <3>2. Orbit[(j + k * PERIOD) + PERIOD] = Orbit[j + k * PERIOD]
      BY <1>3, <3>1
    <3>3. QED
      BY <2>2, <3>1, <3>2
  <2>3. q \in T
    <3> HIDE DEF T
    <3>1. QED
      BY <2>1, <2>2, SetInduction
  <2>4. QED
    BY <2>3
<1>5. ASSUME NEW i \in Nat, NEW j \in Nat, i < j, j - i < PERIOD
      PROVE  Orbit[i] # Orbit[j]
  <2> DEFINE s == (PERIOD - 1) * i
  <2>1. s \in Nat /\ j - i \in 1 .. PERIOD - 1 /\ j - i \in Nat
    BY <1>2, <1>5
  <2>2. s + i = 0 + i * PERIOD /\ s + j = (j - i) + i * PERIOD
    BY <1>2, <1>5
  <2> HIDE DEF s
  <2>3. I[s][Orbit[i]] = Orbit[s + i] /\ I[s][Orbit[j]] = Orbit[s + j]
    BY <1>1, <2>1, IteratesFacts
  <2>4. Orbit[0 + i * PERIOD] = Orbit[0] /\ Orbit[(j - i) + i * PERIOD] = Orbit[j - i]
    BY <1>4, <2>1
  <2>5. Orbit[j - i] # {0} /\ Orbit[0] = {0}
    BY <2>1, PeriodAssumption, OrbitDef
  <2>6. QED
    BY <2>2, <2>3, <2>4, <2>5
<1>6. QED
  BY <1>4, <1>5

\* Squaring down the bits of m arrives at the m-th state.
LEMMA Descent ==
    ASSUME NEW m \in Nat, m > 0, m < Pow2[W], NEW top \in Bit,
           Pow2[top] <= m, m < Pow2[top + 1],
           NEW state,
           state = CHOOSE g : g = [i \in Nat |->
                       IF i = 0 THEN {1}
                       ELSE IF top - i \in BitsOf(m) THEN Step(Square(g[i - 1])) ELSE Square(g[i - 1])]
    PROVE  state[top] = Orbit[m]
<1> DEFINE B == BitsOf(m)
<1> DEFINE D == [p \in Word \X Nat |->
                   IF top - p[2] \in B THEN Step(Square(p[1])) ELSE Square(p[1])]
<1>1. {1} \in Word /\ Orbit[1] = {1}
  <2>1. 1 \in Bit
    BY WordAssumption DEF Bit
  <2>2. QED
    BY <2>1, OneBit, OrbitBit
<1>2. D \in Stepper(Word)
  <2>1. \A a : Square(a) \in Word
    BY DEF Square, Word
  <2>2. QED
    BY <2>1, StepXor DEF Stepper
<1>3. PICK f : Follows(f, Word, {1}, D)
  <2> HIDE DEF D, B
  <2>1. QED
    BY <1>1, <1>2, PrimitiveRecursion
<1>4. f = [i \in Nat |-> IF i = 0 THEN {1}
                         ELSE IF top - i \in B THEN Step(Square(f[i - 1])) ELSE Square(f[i - 1])]
  <2>1. ASSUME NEW k \in Nat, k # 0
        PROVE  f[k] = IF top - k \in B THEN Step(Square(f[k - 1])) ELSE Square(f[k - 1])
    <3>1. k - 1 \in Nat
      BY <2>1
    <3>2. <<f[k - 1], k>> \in Word \X Nat
      BY <3>1, <1>3 DEF Follows
    <3> HIDE DEF B
    <3>3. D[<<f[k - 1], k>>] = IF top - k \in B THEN Step(Square(f[k - 1])) ELSE Square(f[k - 1])
      BY <3>2
    <3> HIDE DEF D
    <3>4. QED
      BY <2>1, <1>3, <3>3 DEF Follows
  <2>2. f = [k \in Nat |-> f[k]]
    BY <1>3 DEF Follows
  <2> HIDE DEF D, B
  <2>3. QED
    BY <1>3, <2>1, <2>2 DEF Follows
<1>5. state = [i \in Nat |-> IF i = 0 THEN {1}
                             ELSE IF top - i \in B THEN Step(Square(state[i - 1]))
                                                   ELSE Square(state[i - 1])]
  BY <1>4
<1> HIDE DEF B
<1>6. state[0] = {1}
  BY <1>5
<1>7. ASSUME NEW i \in Nat
      PROVE  state[i + 1] = IF top - (i + 1) \in B THEN Step(Square(state[i]))
                                                   ELSE Square(state[i])
  <2>1. i + 1 \in Nat /\ i + 1 # 0 /\ (i + 1) - 1 = i
    OBVIOUS
  <2>2. state[i + 1] = IF i + 1 = 0 THEN {1}
                       ELSE IF top - (i + 1) \in B THEN Step(Square(state[(i + 1) - 1]))
                                                   ELSE Square(state[(i + 1) - 1])
    BY <1>5, <2>1
  <2>3. QED
    BY <2>1, <2>2
<1>8. top \in Nat /\ top < W
  BY BitNat
<1> DEFINE T == {i \in Nat : i <= top => state[i] = Orbit[m \div Pow2[top - i]]}
<1>9. 0 \in T
  <2>1. top - 0 = top /\ Pow2[top] \in Nat /\ Pow2[top + 1] = 2 * Pow2[top] /\ Pow2[top] > 0
    BY <1>8, Pow2Facts
  <2>2. m = Pow2[top] * 1 + (m - Pow2[top]) /\ m - Pow2[top] \in Nat
        /\ m - Pow2[top] < Pow2[top]
    BY <2>1
  <2>3. m \div Pow2[top] = 1
    BY <2>1, <2>2, Quotient
  <2>4. QED
    BY <1>1, <1>6, <2>1, <2>3
<1>10. ASSUME NEW i \in Nat, i \in T, i + 1 <= top
       PROVE  state[i + 1] = Orbit[m \div Pow2[top - (i + 1)]]
  <2> DEFINE k == top - (i + 1)
  <2>1. k \in Nat /\ k \in Bit /\ top - i = k + 1 /\ i <= top
    BY <1>8, <1>10, BitNat DEF Bit
  <2> HIDE DEF k
  <2> DEFINE q == m \div Pow2[k]
  <2>2. Pow2[k] \in Nat /\ Pow2[k] > 0 /\ Pow2[k + 1] = 2 * Pow2[k]
    BY <2>1, Pow2Facts
  <2>3. q \in Nat
    BY <2>2, Divided
  <2>4. m \div Pow2[k + 1] = q \div 2
    <3>1. (m \div Pow2[k]) \div 2 = m \div (Pow2[k] * 2) /\ Pow2[k] * 2 = 2 * Pow2[k]
      BY <2>2, DivDiv
    <3>2. QED
      BY <2>2, <3>1
  <2>5. state[i] = Orbit[q \div 2]
    BY <1>10, <2>1, <2>4
  <2>6. k \in B <=> q % 2 = 1
    BY <2>1, BitsOfBits DEF B, BitAt
  <2>7. state[i + 1] = IF k \in B THEN Step(Square(state[i])) ELSE Square(state[i])
    BY <1>7 DEF k
  <2> HIDE DEF q
  <2>8. (q \div 2) \in Nat /\ 2 * (q \div 2) \in Nat
        /\ q = 2 * (q \div 2) + (q % 2) /\ (q % 2) \in {0, 1}
    BY <2>3
  <2>9. Square(state[i]) = Orbit[2 * (q \div 2)]
    BY <2>5, <2>8, SquareOrbit
  <2>10. state[i + 1] = Orbit[q]
    <3>1. CASE q % 2 = 1
      BY <2>6, <2>7, <2>8, <2>9, <3>1, OrbitDef
    <3>2. CASE q % 2 = 0
      BY <2>6, <2>7, <2>8, <2>9, <3>2
    <3>3. QED
      BY <2>8, <3>1, <3>2
  <2>11. QED
    BY <2>10 DEF q, k
<1>11. ASSUME NEW i \in Nat, i \in T
       PROVE  i + 1 \in T
  <2>1. CASE i + 1 <= top
    <3>1. state[i + 1] = Orbit[m \div Pow2[top - (i + 1)]]
      BY <1>10, <1>11, <2>1
    <3>2. QED
      BY <3>1
  <2>2. CASE ~(i + 1 <= top)
    BY <2>2
  <2>3. QED
    BY <2>1, <2>2
<1>12. top \in T
  <2> HIDE DEF T
  <2>1. QED
    BY <1>8, <1>9, <1>11, SetInduction
<1>13. top - top = 0 /\ m \div 1 = m
  BY <1>8
<1>14. QED
  BY <1>8, <1>12, <1>13, Pow2Def

\* hpcc_starts(j) is the j-th state of the sequence, for every j.
THEOREM SkipAhead == \A j \in Nat : hpcc_starts(j) = Orbit[j]
<1>1. SUFFICES ASSUME NEW j \in Nat
               PROVE  hpcc_starts(j) = Orbit[j]
  OBVIOUS
<1>2. CASE j = 0
  BY <1>2, OrbitDef DEF hpcc_starts
<1>3. CASE j # 0
  <2> DEFINE m == IF j > PERIOD THEN ((j - 1) % PERIOD) + 1 ELSE j
  <2>1. PERIOD \in Nat /\ PERIOD > 0 /\ PERIOD < Pow2[W]
    BY PeriodAssumption
  <2>2. m \in Nat /\ m > 0 /\ m <= PERIOD /\ Orbit[m] = Orbit[j]
    <3>1. CASE j > PERIOD
      <4> DEFINE q == (j - 1) \div PERIOD
      <4> DEFINE r == (j - 1) % PERIOD
      <4>1. j - 1 \in Nat
        BY <1>3
      <4>2. q \in Nat /\ r \in Nat /\ r < PERIOD /\ j - 1 = PERIOD * q + r
        BY <2>1, <4>1, Divided
      <4>3. m = r + 1
        BY <3>1
      <4> HIDE DEF q, r, m
      <4>4. j = m + q * PERIOD /\ m \in Nat /\ m > 0 /\ m <= PERIOD
        BY <2>1, <4>2, <4>3
      <4>5. Orbit[m + q * PERIOD] = Orbit[m]
        BY <4>2, <4>4, OrbitCycle
      <4>6. QED
        BY <4>4, <4>5
    <3>2. CASE ~(j > PERIOD)
      BY <1>3, <2>1, <3>2
    <3>3. QED
      BY <3>1, <3>2
  <2> DEFINE top == Max(BitsOf(m))
  <2> DEFINE state == CHOOSE g : g = [i \in Nat |->
                 IF i = 0 THEN {1}
                 ELSE IF top - i \in BitsOf(m) THEN Step(Square(g[i - 1])) ELSE Square(g[i - 1])]
  <2>3. hpcc_starts(j) = state[top]
    BY <1>3 DEF hpcc_starts
  <2> HIDE DEF m, state
  <2>4. m < Pow2[W] /\ W \in Nat /\ Pow2[W] \in Nat
    BY <2>1, <2>2, BitNat, Pow2Facts
  <2>5. PICK k \in 0 .. W - 1 : Pow2[k] <= m /\ m < Pow2[k + 1] /\ BitAt(m, k) = 1
    BY <2>2, <2>4, TopBit
  <2>6. k \in Bit /\ k \in BitsOf(m)
    BY <2>5, BitsOfBits DEF Bit
  <2>7. ASSUME NEW b \in BitsOf(m)
        PROVE  k >= b
    <3>1. b \in Bit /\ b \in Nat /\ k \in Nat /\ BitAt(m, b) = 1
      BY <2>5, BitsOfBits, BitNat DEF Word
    <3>2. CASE k + 1 <= b
      <4>1. BitAt(m, b) = 0
        BY <2>2, <2>5, <3>1, <3>2, BitAtBeyond
      <4>2. QED
        BY <3>1, <4>1
    <3>3. QED
      BY <3>1, <3>2
  <2>8. top = k
    <3>1. top \in BitsOf(m) /\ \A b \in BitsOf(m) : top >= b
      BY <2>6, <2>7 DEF Max
    <3> HIDE DEF top
    <3>2. k >= top /\ top >= k
      BY <2>6, <2>7, <3>1
    <3>3. k \in Bit /\ top \in Bit
      BY <2>6, <3>1, BitsOfBits DEF Word
    <3>4. QED
      BY <3>2, <3>3, BitNat
  <2> HIDE DEF top
  <2>9. state[top] = Orbit[m]
    <3>1. top \in Bit /\ Pow2[top] <= m /\ m < Pow2[top + 1]
      BY <2>5, <2>6, <2>8
    <3>2. state = CHOOSE g : g = [i \in Nat |->
                    IF i = 0 THEN {1}
                    ELSE IF top - i \in BitsOf(m) THEN Step(Square(g[i - 1])) ELSE Square(g[i - 1])]
      BY DEF state
    <3>3. QED
      BY <2>2, <2>4, <3>1, <3>2, Descent
  <2>10. QED
    BY <2>2, <2>3, <2>9
<1>4. QED
  BY <1>2, <1>3

------------------------------------------------------------------------------
(* Blocks and lines.                                                       *)

\* The remainder is the low bits, the quotient the high ones.
LEMMA LowBits ==
    ASSUME NEW x \in Nat, NEW y \in Nat, NEW p \in Nat,
           \A k \in 0 .. p - 1 : BitAt(x, k) = BitAt(y, k)
    PROVE  x % Pow2[p] = y % Pow2[p]
<1>1. Pow2[p] \in Nat /\ Pow2[p] > 0
  BY Pow2Facts
<1>2. ASSUME NEW z \in Nat
      PROVE  /\ z % Pow2[p] \in Nat /\ z % Pow2[p] < Pow2[p]
             /\ \A k \in 0 .. p - 1 : BitAt(z % Pow2[p], k) = BitAt(z, k)
  <2> DEFINE q == z \div Pow2[p]
  <2> DEFINE r == z % Pow2[p]
  <2>1. q \in Nat /\ r \in Nat /\ r < Pow2[p] /\ z = Pow2[p] * q + r
    BY <1>1, Divided
  <2> HIDE DEF q, r
  <2>2. Pow2[p] * q = q * Pow2[p]
    BY <1>1, <2>1
  <2>3. ASSUME NEW k \in 0 .. p - 1
        PROVE  BitAt(r, k) = BitAt(z, k)
    <3>1. k \in Nat /\ k < p
      OBVIOUS
    <3>2. BitAt(q * Pow2[p] + r, k) = BitAt(r, k)
      BY <2>1, <3>1, BitAtLow
    <3>3. QED
      BY <2>1, <2>2, <3>2
  <2>4. QED
    BY <2>1, <2>3 DEF r
<1> DEFINE u == x % Pow2[p]
<1> DEFINE v == y % Pow2[p]
<1>3. /\ u \in Nat /\ v \in Nat /\ u < Pow2[p] /\ v < Pow2[p]
      /\ \A k \in 0 .. p - 1 : BitAt(u, k) = BitAt(v, k)
  BY <1>2
<1>4. u = v
  <2> HIDE DEF u, v
  <2>1. QED
    BY <1>3, SameBits
<1>5. QED
  BY <1>4

LEMMA HighBits ==
    ASSUME NEW x \in Nat, NEW y \in Nat, x < Pow2[W], y < Pow2[W], NEW p \in Nat,
           \A k \in Bit : p <= k => BitAt(x, k) = BitAt(y, k)
    PROVE  x \div Pow2[p] = y \div Pow2[p]
<1>1. Pow2[p] \in Nat /\ Pow2[p] > 0 /\ W \in Nat /\ Pow2[W] \in Nat
  BY Pow2Facts, BitNat
<1>2. ASSUME NEW z \in Nat, z < Pow2[W]
      PROVE  /\ z \div Pow2[p] \in Nat /\ z \div Pow2[p] < Pow2[W]
             /\ \A k \in Nat : BitAt(z \div Pow2[p], k) = BitAt(z, k + p)
  <2> DEFINE q == z \div Pow2[p]
  <2> DEFINE r == z % Pow2[p]
  <2>1. q \in Nat /\ r \in Nat /\ z = Pow2[p] * q + r
    BY <1>1, Divided
  <2>2. \A k \in Nat : BitAt(z, k + p) = BitAt(q, k)
    BY BitAtShift
  <2> HIDE DEF q, r
  <2>3. Pow2[p] * q >= 1 * q
    BY <1>1, <2>1
  <2>4. q <= z
    BY <1>1, <2>1, <2>3
  <2>5. q < Pow2[W]
    BY <1>1, <1>2, <2>1, <2>4
  <2>6. QED
    BY <2>1, <2>2, <2>5 DEF q
<1>3. ASSUME NEW k \in 0 .. W - 1
      PROVE  BitAt(x, k + p) = BitAt(y, k + p)
  <2>1. k + p \in Nat /\ p <= k + p
    OBVIOUS
  <2>2. CASE k + p < W
    BY <1>1, <2>1, <2>2 DEF Bit
  <2>3. CASE W <= k + p
    BY <1>1, <2>1, <2>3, BitAtBeyond
  <2>4. QED
    BY <1>1, <2>1, <2>2, <2>3
<1> DEFINE u == x \div Pow2[p]
<1> DEFINE v == y \div Pow2[p]
<1>4. /\ u \in Nat /\ v \in Nat /\ u < Pow2[W] /\ v < Pow2[W]
      /\ \A k \in Nat : BitAt(u, k) = BitAt(x, k + p) /\ BitAt(v, k) = BitAt(y, k + p)
  BY <1>2
<1>5. u = v
  <2> HIDE DEF u, v
  <2>1. \A k \in 0 .. W - 1 : BitAt(u, k) = BitAt(v, k)
    BY <1>1, <1>3, <1>4
  <2>2. QED
    BY <1>1, <1>4, <2>1, SameBits
<1>6. QED
  BY <1>5

\* The mask of 2^e - 1 picks from the words every number below 2^e and no other.
LEMMA MaskRange ==
    ASSUME NEW e \in Nat, e <= W
    PROVE  /\ \A r \in Word : Num(r \cap BitsOf(Pow2[e] - 1)) \in 0 .. Pow2[e] - 1
           /\ \A x \in 0 .. Pow2[e] - 1 : \E r \in Word : Num(r \cap BitsOf(Pow2[e] - 1)) = x
<1>1. Pow2[e] \in Nat /\ Pow2[e] > 0 /\ W \in Nat /\ Pow2[W] \in Nat /\ Pow2[e] <= Pow2[W]
  BY Pow2Facts, Pow2Order, BitNat
<1>2. ASSUME NEW b \in Bit
      PROVE  b \in BitsOf(Pow2[e] - 1) <=> b < e
  BY BitsOfBits, LowOnes, BitNat
<1>3. ASSUME NEW r \in Word
      PROVE  Num(r \cap BitsOf(Pow2[e] - 1)) \in 0 .. Pow2[e] - 1
  <2> DEFINE S == r \cap BitsOf(Pow2[e] - 1)
  <2>1. S \in Word /\ \A b \in S : b \in Bit /\ b < e
    BY <1>2 DEF Word
  <2> HIDE DEF S
  <2> DEFINE x == Num(S)
  <2>2. x \in Nat /\ x < Pow2[W] /\ BitsOf(x) = S
    BY <2>1, NumFacts
  <2> HIDE DEF x
  <2>3. x < Pow2[e]
    <3>1. CASE x = 0
      BY <1>1, <3>1
    <3>2. CASE x # 0
      <4>1. PICK k \in 0 .. W - 1 : x < Pow2[k + 1] /\ BitAt(x, k) = 1
        BY <1>1, <2>2, <3>2, TopBit
      <4>2. k \in Bit /\ k \in Nat /\ k + 1 \in Nat
        BY DEF Bit
      <4>3. k \in S
        BY <2>2, <4>1, <4>2, BitsOfBits
      <4>4. k + 1 <= e
        BY <2>1, <4>2, <4>3
      <4>5. Pow2[k + 1] <= Pow2[e] /\ Pow2[k + 1] \in Nat
        BY <4>2, <4>4, Pow2Order, Pow2Facts
      <4>6. QED
        BY <1>1, <2>2, <4>1, <4>5
    <3>3. QED
      BY <3>1, <3>2
  <2>4. x \in 0 .. Pow2[e] - 1
    BY <1>1, <2>2, <2>3
  <2>5. QED
    BY <2>4 DEF x, S
<1>4. ASSUME NEW x \in 0 .. Pow2[e] - 1
      PROVE  \E r \in Word : Num(r \cap BitsOf(Pow2[e] - 1)) = x
  <2>1. x \in Nat /\ x < Pow2[e] /\ x < Pow2[W]
    BY <1>1
  <2>2. ASSUME NEW b \in BitsOf(x)
        PROVE  b \in BitsOf(Pow2[e] - 1)
    <3>1. b \in Bit /\ b \in Nat /\ BitAt(x, b) = 1
      BY BitsOfBits, BitNat DEF Word
    <3>2. CASE e <= b
      BY <2>1, <3>1, <3>2, BitAtBeyond
    <3>3. CASE b < e
      BY <1>2, <3>1, <3>3
    <3>4. QED
      BY <3>1, <3>2, <3>3
  <2>3. BitsOf(x) \cap BitsOf(Pow2[e] - 1) = BitsOf(x)
    BY <2>2
  <2>4. Num(BitsOf(x)) = x /\ BitsOf(x) \in Word
    BY <2>1, NumOfBits, BitsOfBits
  <2>5. QED
    BY <2>3, <2>4
<1>5. QED
  BY <1>3, <1>4

------------------------------------------------------------------------------
(* Column steps.                                                           *)

\* What the bits of a column step XOR of the masks.
XorOf(masks, S) == {c \in Bit : Odd({b \in S : c \in masks[b + 1]})}

LEMMA XorOfOneMore ==
    ASSUME NEW masks, NEW S \in Word, NEW i \in Bit, i \notin S, masks[i + 1] \subseteq Bit
    PROVE  XorOf(masks, S \cup {i}) = SymDiff(XorOf(masks, S), masks[i + 1])
<1>1. S \cup {i} = SymDiff(S, {i}) /\ {i} \in Word
  BY OneBit DEF SymDiff
<1>2. ASSUME NEW c \in Bit
      PROVE  c \in XorOf(masks, S \cup {i})
                <=> ~(c \in XorOf(masks, S) <=> c \in masks[i + 1])
  <2> DEFINE P == {b \in Bit : c \in masks[b + 1]}
  <2>1. \A r \in Word : {b \in r : c \in masks[b + 1]} = Chosen(r, P)
    BY DEF Word, Chosen
  <2>2. Odd(Chosen({i}, P)) <=> c \in masks[i + 1]
    <3>1. CASE c \in masks[i + 1]
      <4>1. Chosen({i}, P) = {i}
        BY <3>1 DEF Chosen
      <4>2. QED
        BY <3>1, <4>1, OddOne
    <3>2. CASE c \notin masks[i + 1]
      <4>1. Chosen({i}, P) = {}
        BY <3>2 DEF Chosen
      <4>2. QED
        BY <3>2, <4>1, OddNone
    <3>3. QED
      BY <3>1, <3>2
  <2> HIDE DEF P
  <2>3. Odd(Chosen(SymDiff(S, {i}), P)) <=> ~(Odd(Chosen(S, P)) <=> Odd(Chosen({i}, P)))
    BY <1>1, SelectXor
  <2>4. SymDiff(S, {i}) \in Word
    BY <1>1, XorWord
  <2>5. \A r \in Word : c \in XorOf(masks, r) <=> Odd(Chosen(r, P))
    BY <2>1 DEF XorOf
  <2>6. QED
    BY <1>1, <2>2, <2>3, <2>4, <2>5
<1>3. XorOf(masks, S \cup {i}) \subseteq Bit /\ XorOf(masks, S) \subseteq Bit
  BY DEF XorOf
<1>4. QED
  BY <1>2, <1>3 DEF SymDiff

\* What masks that step columns XOR to stays in a page above the line offset, and
\* flips no row bit; it steps the column differently for every choice of masks.
LEMMA XorOfColumns ==
    ASSUME NEW M, NEW masks, StepsColumns(M, masks),
           NEW S \in Word, S \subseteq 0 .. Len(masks) - 1
    PROVE  /\ XorOf(masks, S) \subseteq LineBits .. PageBits - 1
           /\ XorOf(masks, S) \cap M.row = {}
           /\ \A Z \in Word : /\ Z \subseteq 0 .. Len(masks) - 1
                              /\ XorOf(masks, S) \cap M.column = XorOf(masks, Z) \cap M.column
                              => S = Z
<1>1. /\ Len(masks) \in Nat /\ DOMAIN masks = 1 .. Len(masks)
      /\ \A k \in DOMAIN masks : masks[k] \subseteq LineBits .. PageBits - 1
  BY DEF StepsColumns
<1>2. \A b \in 0 .. Len(masks) - 1 : b + 1 \in DOMAIN masks
  BY <1>1
<1>3. ASSUME NEW c \in XorOf(masks, S)
      PROVE  \E b \in S : c \in masks[b + 1]
  <2>1. Odd({b \in S : c \in masks[b + 1]})
    BY DEF XorOf
  <2>2. {b \in S : c \in masks[b + 1]} # {}
    <3> DEFINE A == {b \in S : c \in masks[b + 1]}
    <3>1. Odd(A)
      BY <2>1
    <3> HIDE DEF A
    <3>2. A # {}
      BY <3>1, OddNone
    <3>3. QED
      BY <3>2 DEF A
  <2>3. QED
    BY <2>2
<1>4. XorOf(masks, S) \subseteq LineBits .. PageBits - 1
  BY <1>1, <1>2, <1>3
<1>5. XorOf(masks, S) \cap M.row = {}
  BY <1>2, <1>3 DEF StepsColumns
<1>6. ASSUME NEW b \in 0 .. Len(masks) - 1
      PROVE  \E x \in Bit : /\ x \in M.column
                            /\ \A R \in Word : R \subseteq 0 .. Len(masks) - 1
                                  => (x \in XorOf(masks, R) <=> b \in R)
  <2>1. b + 1 \in DOMAIN masks
    BY <1>2
  <2>2. PICK x \in Bit : masks[b + 1] \cap M.column = {x}
    BY <2>1 DEF StepsColumns
  <2>3. ASSUME NEW a \in 0 .. Len(masks) - 1, x \in masks[a + 1]
        PROVE  a = b
    <3>1. a + 1 \in DOMAIN masks /\ x \in masks[a + 1] \cap masks[b + 1] \cap M.column
      BY <1>2, <2>2, <2>3
    <3>2. a + 1 = b + 1
      BY <2>1, <3>1 DEF StepsColumns
    <3>3. QED
      BY <3>2
  <2>4. ASSUME NEW R \in Word, R \subseteq 0 .. Len(masks) - 1
        PROVE  x \in XorOf(masks, R) <=> b \in R
    <3>1. CASE b \in R
      <4>1. {a \in R : x \in masks[a + 1]} = {b}
        BY <2>2, <2>3, <2>4, <3>1
      <4>2. QED
        BY <3>1, <4>1, OddOne DEF XorOf
    <3>2. CASE b \notin R
      <4>1. {a \in R : x \in masks[a + 1]} = {}
        BY <2>3, <2>4, <3>2
      <4>2. QED
        BY <3>2, <4>1, OddNone DEF XorOf
    <3>3. QED
      BY <3>1, <3>2
  <2>5. QED
    BY <2>2, <2>4
<1>7. ASSUME NEW Z \in Word, Z \subseteq 0 .. Len(masks) - 1,
             XorOf(masks, S) \cap M.column = XorOf(masks, Z) \cap M.column
      PROVE  S = Z
  <2>1. ASSUME NEW b \in 0 .. Len(masks) - 1
        PROVE  b \in S <=> b \in Z
    <3>1. PICK x \in Bit : /\ x \in M.column
                           /\ x \in XorOf(masks, S) <=> b \in S
                           /\ x \in XorOf(masks, Z) <=> b \in Z
      BY <1>6, <1>7
    <3>2. QED
      BY <1>7, <3>1
  <2>2. QED
    BY <1>7, <2>1
<1>8. QED
  BY <1>4, <1>5, <1>7

\* And it flips no function of the mapping.
LEMMA XorOfFunctions ==
    ASSUME NEW M, NEW masks, StepsColumns(M, masks), PageBits <= W,
           NEW S \in Word, S \subseteq 0 .. Len(masks) - 1, NEW f \in DOMAIN M.fun
    PROVE  ~Odd(M.fun[f] \cap XorOf(masks, S))
<1>1. /\ Len(masks) \in Nat /\ DOMAIN masks = 1 .. Len(masks)
      /\ \A k \in DOMAIN masks : masks[k] \subseteq LineBits .. PageBits - 1
  BY DEF StepsColumns
<1>2. \A k \in DOMAIN masks : masks[k] \subseteq Bit
  BY <1>1, WordAssumption DEF Bit
<1> DEFINE T == {i \in Nat : \A R \in Word : /\ R \subseteq 0 .. Len(masks) - 1
                                             /\ R \subseteq 0 .. i - 1
                                             => ~Odd(M.fun[f] \cap XorOf(masks, R))}
<1>3. 0 \in T
  <2>1. M.fun[f] \cap XorOf(masks, {}) = {}
    <3>1. \A c : {b \in {} : c \in masks[b + 1]} = {}
      OBVIOUS
    <3>2. QED
      BY <3>1, OddNone DEF XorOf
  <2>2. \A R : R \subseteq 0 .. 0 - 1 => R = {}
    OBVIOUS
  <2>3. QED
    BY <2>1, <2>2, OddNone
<1>4. ASSUME NEW i \in Nat, i \in T
      PROVE  i + 1 \in T
  <2>1. ASSUME NEW R \in Word, R \subseteq 0 .. Len(masks) - 1, R \subseteq 0 .. (i + 1) - 1
        PROVE  ~Odd(M.fun[f] \cap XorOf(masks, R))
    <3>1. CASE i \notin R
      <4>1. R \subseteq 0 .. i - 1
        BY <2>1, <3>1
      <4>2. QED
        BY <1>4, <2>1, <4>1
    <3>2. CASE i \in R
      <4> DEFINE Q == R \ {i}
      <4>1. Q \in Word /\ Q \subseteq 0 .. Len(masks) - 1 /\ Q \subseteq 0 .. i - 1
        BY <2>1 DEF Word
      <4>2. R = Q \cup {i} /\ i \notin Q /\ i \in Bit /\ i + 1 \in DOMAIN masks
        BY <1>1, <2>1, <3>2 DEF Word
      <4> HIDE DEF Q
      <4> DEFINE A == XorOf(masks, Q)
      <4> DEFINE B == masks[i + 1]
      <4>3. XorOf(masks, Q \cup {i}) = SymDiff(A, B)
        BY <1>2, <4>1, <4>2, XorOfOneMore
      <4>4. ~Odd(M.fun[f] \cap A)
        BY <1>4, <4>1
      <4>5. ~Odd(M.fun[f] \cap B)
        BY <4>2 DEF StepsColumns
      <4>6. A \subseteq Bit /\ B \subseteq Bit
        BY <1>2, <4>2 DEF XorOf
      <4> HIDE DEF A, B
      <4>7. M.fun[f] \cap SymDiff(A, B) = SymDiff(M.fun[f] \cap A, M.fun[f] \cap B)
        BY DEF SymDiff
      <4>8. IsFiniteSet(M.fun[f] \cap A) /\ IsFiniteSet(M.fun[f] \cap B)
        BY <4>6, BitsFinite
      <4>9. ~Odd(SymDiff(M.fun[f] \cap A, M.fun[f] \cap B))
        BY <4>4, <4>5, <4>8, OddXor
      <4>10. QED
        BY <4>2, <4>3, <4>7, <4>9
    <3>3. QED
      BY <3>1, <3>2
  <2>2. QED
    BY <2>1
<1>5. W \in T
  <2> HIDE DEF T
  <2>1. QED
    BY <1>3, <1>4, SetInduction, BitNat
<1>6. QED
  BY <1>5 DEF Word, Bit

------------------------------------------------------------------------------
(* Accesses.                                                               *)

\* An accepted request's sizes are powers of two: e line bits in the region, w of them
\* inside an access.
Sized(e, w) == /\ e \in Nat /\ w \in Nat
               /\ w + LineBits <= PageBits /\ PageBits <= e + LineBits /\ e + LineBits <= W
               /\ req.lines = Pow2[w]
               /\ req.pages = Pow2[e + LineBits - PageBits]
               /\ NLines = Pow2[e]
               /\ NBlocks = Pow2[e - w]

LEMMA AcceptedSizes ==
    ASSUME req \in Requests, Accepted
    PROVE  \E e, w : Sized(e, w)
<1>1. /\ LineBits \in Nat /\ PageBits \in Nat /\ LineBits < PageBits /\ W \in Nat
  BY WordAssumption
<1>2. req.pages \in Nat /\ req.pages > 0 /\ req.pages * Pow2[PageBits] <= Pow2[W]
  BY RequestAssumption DEF Accepted
<1>3. PICK w \in 0 .. PageBits - LineBits : req.lines = Pow2[w]
  BY RequestAssumption DEF Accepted
<1>4. /\ Pow2[PageBits] \in Nat /\ Pow2[W] \in Nat /\ Pow2[0] = 1 /\ 2 * Pow2[0] <= Pow2[PageBits]
  <2>1. 0 <= PageBits /\ 0 < PageBits /\ 0 \in Nat
    BY <1>1
  <2>2. 2 * Pow2[0] <= Pow2[PageBits]
    BY <1>1, <2>1, Pow2Order
  <2>3. QED
    BY <1>1, <2>2, Pow2Facts, Pow2Def
<1>5. req.pages < Pow2[W]
  <2>1. req.pages * 2 <= req.pages * Pow2[PageBits]
    BY <1>2, <1>4
  <2>2. req.pages < req.pages * 2 /\ req.pages * Pow2[PageBits] \in Nat
    BY <1>2, <1>4
  <2>3. QED
    BY <1>2, <1>4, <2>1, <2>2
<1>6. PICK p \in Bit : req.pages = Pow2[p]
  BY <1>2, <1>5, PowersOfTwo DEF Accepted
<1>7. p \in Nat
  BY BitNat
<1>8. p + PageBits <= W
  <2>1. Pow2[p + PageBits] <= Pow2[W]
    BY <1>1, <1>2, <1>6, <1>7, Pow2Sum
  <2>2. CASE W < p + PageBits
    <3>1. 2 * Pow2[W] <= Pow2[p + PageBits]
      BY <1>1, <1>7, <2>2, Pow2Order
    <3>2. Pow2[W] > 0 /\ Pow2[W] \in Nat /\ Pow2[p + PageBits] \in Nat
      BY <1>1, <1>7, Pow2Facts
    <3>3. QED
      BY <2>1, <3>1, <3>2
  <2>3. QED
    BY <1>1, <1>7, <2>2
<1> DEFINE e == p + (PageBits - LineBits)
<1>9. e \in Nat /\ w \in Nat /\ w <= e /\ e - w \in Nat
      /\ PageBits - LineBits \in Nat /\ e + LineBits - PageBits = p
      /\ w + LineBits <= PageBits /\ PageBits <= e + LineBits /\ e + LineBits <= W
  BY <1>1, <1>7, <1>8
<1>10. NLines = Pow2[e]
  BY <1>6, <1>7, <1>9, Pow2Sum DEF NLines, PageLines
<1>11. NBlocks = Pow2[e - w]
  <2> HIDE DEF e
  <2>1. /\ Pow2[e] = Pow2[w] * Pow2[e - w]
        /\ Pow2[w] \in Nat /\ Pow2[w] > 0 /\ Pow2[e - w] \in Nat
    BY <1>9, Pow2Order, Pow2Facts
  <2>2. Pow2[w] * Pow2[e - w] = Pow2[w] * Pow2[e - w] + 0
    BY <2>1
  <2>3. (Pow2[w] * Pow2[e - w] + 0) \div Pow2[w] = Pow2[e - w]
    BY <2>1, Quotient
  <2>4. QED
    BY <1>3, <1>10, <2>1, <2>2, <2>3 DEF NBlocks
<1>12. Sized(e, w)
  <2> HIDE DEF e
  <2>1. QED
    BY <1>3, <1>6, <1>9, <1>10, <1>11 DEF Sized
<1>13. QED
  BY <1>12

\* The mask selects every block and no other.
LEMMA EveryBlock ==
    ASSUME req \in Requests, Accepted, mask = BlockMask,
           NEW B, B = IF req.mode = 0 THEN NBlocks ELSE NLines
    PROVE  /\ \A r \in Word : Num(r \cap mask) \in 0 .. B - 1
           /\ \A x \in 0 .. B - 1 : \E r \in Word : Num(r \cap mask) = x
<1>1. PICK e, w : Sized(e, w)
  BY AcceptedSizes
<1> DEFINE d == IF req.mode = 0 THEN e - w ELSE e
<1>2. d \in Nat /\ d <= W
  BY <1>1, WordAssumption DEF Sized
<1>3. B = Pow2[d] /\ mask = BitsOf(Pow2[d] - 1)
  BY <1>1 DEF Sized, BlockMask
<1> HIDE DEF d
<1>4. QED
  BY <1>2, <1>3, MaskRange

\* A line of an access: whole, and in page q of the region.
LineOf(o, q) == o \in Nat /\ o % Pow2[LineBits] = 0 /\ o \div Pow2[PageBits] = q

LEMMA PlainLines ==
    ASSUME req \in Requests, Accepted, mask = BlockMask, req.mode = 0, NEW r \in Word
    PROVE  \E q \in Slots :
               /\ \A k \in 0 .. req.lines - 1 : LineOf(Line(Offset(r), k), q)
               /\ \A k, m \in 0 .. req.lines - 1 :
                      Line(Offset(r), k) = Line(Offset(r), m) => k = m
<1>1. PICK e, w : Sized(e, w)
  BY AcceptedSizes
<1>2. LineBits \in Nat /\ PageBits \in Nat
  BY WordAssumption
<1> DEFINE B == Num(r \cap mask)
<1> DEFINE l == Pow2[LineBits]
<1> DEFINE c == Pow2[w]
<1> DEFINE g == Pow2[PageBits - (w + LineBits)]
<1> DEFINE n1 == Pow2[e + LineBits - PageBits]
<1>3. /\ e \in Nat /\ w \in Nat /\ w + LineBits <= PageBits /\ PageBits <= e + LineBits
      /\ req.lines = c /\ req.pages = n1 /\ NBlocks = Pow2[e - w]
  BY <1>1 DEF Sized
<1>4. /\ PageBits - (w + LineBits) \in Nat /\ e + LineBits - PageBits \in Nat
      /\ e - w = (PageBits - (w + LineBits)) + (e + LineBits - PageBits)
      /\ w + LineBits \in Nat
      /\ PageBits = (w + LineBits) + (PageBits - (w + LineBits))
  BY <1>2, <1>3
<1>5. /\ l \in Nat /\ l > 0 /\ c \in Nat /\ c > 0 /\ g \in Nat /\ g > 0 /\ n1 \in Nat
  BY <1>2, <1>3, <1>4, Pow2Facts
<1>6. Pow2[PageBits] = (c * l) * g
  BY <1>2, <1>3, <1>4, Pow2Sum
<1>7. NBlocks = g * n1
  BY <1>3, <1>4, Pow2Sum
<1>8. B \in 0 .. NBlocks - 1
  BY EveryBlock
<1>9. \A k : Line(Offset(r), k) = (B * c) * l + k * l
  BY <1>3 DEF Line, Offset
<1> HIDE DEF B, l, c, g, n1
<1> DEFINE q == B \div g
<1>10. B \in Nat /\ B < g * n1
  BY <1>5, <1>7, <1>8
<1>11. q \in Slots
  <2> DEFINE s == B % g
  <2>1. q \in Nat /\ s \in Nat /\ B = g * q + s
    BY <1>5, <1>10, Divided
  <2> HIDE DEF q, s
  <2>2. CASE n1 <= q
    <3>1. g * n1 <= g * q
      BY <1>5, <2>1, <2>2
    <3>2. g * q \in Nat /\ g * n1 \in Nat
      BY <1>5, <2>1
    <3>3. QED
      BY <1>10, <2>1, <3>1, <3>2
  <2>3. CASE q < n1
    BY <1>3, <1>5, <2>1, <2>3 DEF Slots
  <2>4. QED
    BY <1>5, <2>1, <2>2, <2>3
<1>12. ASSUME NEW k \in 0 .. req.lines - 1
       PROVE  LineOf(Line(Offset(r), k), q)
  <2>1. k \in Nat /\ k < c
    BY <1>3, <1>5
  <2> DEFINE o == Line(Offset(r), k)
  <2>2. o = (B * c) * l + k * l
    BY <1>9
  <2> HIDE DEF o
  <2>3. c * B + k \in Nat /\ l * (c * B + k) + 0 = (B * c) * l + k * l
    BY <1>5, <1>10, <2>1
  <2>4. o \in Nat /\ o \div l = c * B + k /\ o % l = 0
    <3> DEFINE x == c * B + k
    <3>1. x \in Nat /\ o = l * x + 0
      BY <2>2, <2>3
    <3> HIDE DEF x
    <3>2. o \in Nat /\ o \div l = x /\ o % l = 0
      BY <1>5, <3>1, Quotient
    <3>3. QED
      BY <3>2 DEF x
  <2>5. (c * B + k) \div c = B
    BY <1>5, <1>10, <2>1, Quotient
  <2>6. (o \div l) \div c = o \div (l * c) /\ l * c = c * l /\ c * l \in Nat /\ c * l > 0
    BY <1>5, <2>4, DivDiv
  <2>7. (o \div (c * l)) \div g = o \div ((c * l) * g)
    BY <1>5, <2>4, <2>6, DivDiv
  <2>8. o \div Pow2[PageBits] = q
    BY <1>6, <2>4, <2>5, <2>6, <2>7
  <2> HIDE DEF q
  <2>9. QED
    BY <2>4, <2>8 DEF LineOf, o, l
<1>13. ASSUME NEW k \in 0 .. req.lines - 1, NEW m \in 0 .. req.lines - 1,
              Line(Offset(r), k) = Line(Offset(r), m)
       PROVE  k = m
  <2>1. k \in Nat /\ m \in Nat
    BY <1>3, <1>5
  <2>2. (B * c) * l \in Nat /\ k * l \in Nat /\ m * l \in Nat
    BY <1>5, <1>10, <2>1
  <2>3. k * l = m * l
    BY <1>9, <1>13, <2>2
  <2>4. QED
    BY <1>5, <2>1, <2>3
<1>14. QED
  BY <1>11, <1>12, <1>13

\* The mask of a column step is one of those the map's own masks XOR to, a different
\* one for each step.
LEMMA StepMasks ==
    ASSUME req \in Requests, Accepted, req.mode # 0, NEW k \in 0 .. req.lines - 1
    PROVE  /\ StepsColumns(Maps[MapName], ColumnSteps)
           /\ StepMask(k) = XorOf(ColumnSteps, BitsOf(k))
           /\ BitsOf(k) \in Word /\ BitsOf(k) \subseteq 0 .. Len(ColumnSteps) - 1
           /\ k \in Nat /\ k < Pow2[W]
<1>1. PICK e, w : Sized(e, w)
  BY AcceptedSizes
<1>2. StepsColumns(Maps[MapName], ColumnSteps)
  BY MapAssumption DEF Accepted, ColumnSteps
<1>3. StepMask(k) = XorOf(ColumnSteps, BitsOf(k))
  BY DEF StepMask, XorOf
<1>4. w \in Nat /\ w <= W /\ req.lines = Pow2[w] /\ W \in Nat
  BY <1>1, WordAssumption DEF Sized
<1>5. k \in Nat /\ k < Pow2[w] /\ k < Pow2[W]
  BY <1>4, Pow2Facts, Pow2Order
<1>6. Len(ColumnSteps) \in Nat /\ k < Pow2[Len(ColumnSteps)]
  <2>1. Len(ColumnSteps) \in Nat
    BY <1>2 DEF StepsColumns
  <2>2. req.lines <= Pow2[Len(ColumnSteps)]
    BY DEF Accepted
  <2>3. Pow2[Len(ColumnSteps)] \in Nat /\ Pow2[w] \in Nat
    BY <1>4, <2>1, Pow2Facts
  <2>4. k < Pow2[Len(ColumnSteps)]
    BY <1>4, <1>5, <2>2, <2>3
  <2>5. QED
    BY <2>1, <2>4
<1>7. ASSUME NEW b \in BitsOf(k)
      PROVE  b \in 0 .. Len(ColumnSteps) - 1
  <2>1. b \in Bit /\ b \in Nat /\ BitAt(k, b) = 1
    BY BitsOfBits, BitNat DEF Word
  <2>2. CASE Len(ColumnSteps) <= b
    BY <1>5, <1>6, <2>1, <2>2, BitAtBeyond
  <2>3. QED
    BY <1>6, <2>1, <2>2
<1>8. QED
  BY <1>2, <1>3, <1>5, <1>7, BitsOfBits

LEMMA SteppedLine ==
    ASSUME req \in Requests, Accepted, mask = BlockMask, step = Steps, req.mode # 0,
           NEW r \in Word
    PROVE  /\ Offset(r) \in Nat /\ Offset(r) < Pow2[W]
           /\ Offset(r) % Pow2[LineBits] = 0
           /\ Offset(r) \div Pow2[PageBits] \in Slots
           /\ \A k \in 0 .. req.lines - 1 :
                 /\ Line(Offset(r), k) \in Nat /\ Line(Offset(r), k) < Pow2[W]
                 /\ BitsOf(Line(Offset(r), k)) = SymDiff(BitsOf(Offset(r)), StepMask(k))
<1>1. PICK e, w : Sized(e, w)
  BY AcceptedSizes
<1>2. LineBits \in Nat /\ PageBits \in Nat /\ W \in Nat
  BY WordAssumption
<1> DEFINE X == Num(r \cap mask)
<1> DEFINE l == Pow2[LineBits]
<1> DEFINE g == Pow2[PageBits]
<1> DEFINE n1 == Pow2[e + LineBits - PageBits]
<1>3. /\ e \in Nat /\ PageBits <= e + LineBits /\ e + LineBits <= W /\ NLines = Pow2[e]
      /\ e + LineBits - PageBits \in Nat /\ req.pages = n1
      /\ e + LineBits \in Nat /\ e + LineBits = PageBits + (e + LineBits - PageBits)
  BY <1>1, <1>2 DEF Sized
<1>4. X \in 0 .. NLines - 1
  BY EveryBlock
<1>5. Offset(r) = X * 1 * l
  BY DEF Offset
<1>6. /\ l \in Nat /\ l > 0 /\ g \in Nat /\ g > 0 /\ n1 \in Nat
      /\ Pow2[e] \in Nat /\ Pow2[W] \in Nat
  BY <1>2, <1>3, Pow2Facts
<1>7. Pow2[e] * l = g * n1 /\ g * n1 <= Pow2[W]
  <2>1. Pow2[e + LineBits] = Pow2[e] * l
    BY <1>2, <1>3, Pow2Sum
  <2>2. Pow2[e + LineBits] = g * n1
    BY <1>2, <1>3, Pow2Sum
  <2>3. Pow2[e + LineBits] <= Pow2[W]
    BY <1>2, <1>3, Pow2Order
  <2>4. QED
    BY <2>1, <2>2, <2>3
<1>8. Line(Offset(r), 0) = Line(Offset(r), 0) /\ X \in Nat /\ X < Pow2[e]
  BY <1>3, <1>4, <1>6
<1> HIDE DEF X
<1> DEFINE off == Offset(r)
<1>9. off = l * X + 0 /\ off \in Nat /\ off < g * n1
  <2>1. X * 1 * l = l * X + 0 /\ X * l < Pow2[e] * l /\ X * l = l * X /\ l * X \in Nat
    BY <1>6, <1>8
  <2>2. QED
    BY <1>5, <1>7, <2>1
<1>10. off % l = 0
  BY <1>6, <1>8, <1>9, Quotient
<1> HIDE DEF off, g, n1
<1>11. off \div g \in Slots
  <2> DEFINE q == off \div g
  <2> DEFINE s == off % g
  <2>1. q \in Nat /\ s \in Nat /\ off = g * q + s
    BY <1>6, <1>9, Divided
  <2> HIDE DEF q, s
  <2>2. ~(n1 <= q)
    <3>1. CASE n1 <= q
      <4>1. g * n1 <= g * q /\ g * q \in Nat /\ g * n1 \in Nat
        BY <1>6, <2>1, <3>1
      <4>2. QED
        BY <1>9, <2>1, <4>1
    <3>2. QED
      BY <3>1
  <2>3. q \in Slots
    BY <1>3, <1>6, <2>1, <2>2 DEF Slots
  <2>4. QED
    BY <2>3 DEF q
<1>12. off < Pow2[W]
  <2>1. g * n1 \in Nat
    BY <1>6
  <2>2. QED
    BY <1>6, <1>7, <1>9, <2>1
<1>13. ASSUME NEW k \in 0 .. req.lines - 1
       PROVE  /\ Line(Offset(r), k) \in Nat /\ Line(Offset(r), k) < Pow2[W]
              /\ BitsOf(Line(Offset(r), k)) = SymDiff(BitsOf(Offset(r)), StepMask(k))
  <2>1. step[k] = StepMask(k)
    BY DEF Steps
  <2>2. StepMask(k) \in Word
    BY DEF StepMask, Word
  <2>3. SymDiff(BitsOf(Offset(r)), StepMask(k)) \in Word
    BY <2>2, BitsOfBits, XorWord
  <2>4. Line(Offset(r), k) = Num(SymDiff(BitsOf(Offset(r)), StepMask(k)))
    BY <2>1 DEF Line
  <2>5. QED
    BY <2>3, <2>4, NumFacts
<1>14. QED
  BY <1>10, <1>9, <1>11, <1>12, <1>13 DEF off, g

LEMMA SteppedLines ==
    ASSUME req \in Requests, Accepted, mask = BlockMask, step = Steps, req.mode # 0,
           NEW r \in Word
    PROVE  \E q \in Slots :
               /\ \A k \in 0 .. req.lines - 1 : LineOf(Line(Offset(r), k), q)
               /\ \A k, m \in 0 .. req.lines - 1 :
                      Line(Offset(r), k) = Line(Offset(r), m) => k = m
<1> DEFINE off == Offset(r)
<1> DEFINE q == off \div Pow2[PageBits]
<1> DEFINE o(k) == Line(off, k)
<1>1. /\ off \in Nat /\ off < Pow2[W] /\ off % Pow2[LineBits] = 0 /\ q \in Slots
      /\ \A k \in 0 .. req.lines - 1 : /\ o(k) \in Nat /\ o(k) < Pow2[W]
                                       /\ BitsOf(o(k)) = SymDiff(BitsOf(off), StepMask(k))
  BY SteppedLine
<1>2. \A k \in 0 .. req.lines - 1 : /\ StepMask(k) \subseteq LineBits .. PageBits - 1
                                    /\ StepMask(k) \subseteq Bit
  <2>1. ASSUME NEW k \in 0 .. req.lines - 1
        PROVE  StepMask(k) \subseteq LineBits .. PageBits - 1
    BY StepMasks, XorOfColumns
  <2>2. QED
    BY <2>1 DEF StepMask
<1>3. LineBits \in Nat /\ PageBits \in Nat /\ LineBits < PageBits /\ PageBits <= W /\ W \in Nat
  <2>1. PICK e, w : Sized(e, w)
    BY AcceptedSizes
  <2>2. QED
    BY <2>1, WordAssumption DEF Sized
<1> HIDE DEF off, o
<1>4. ASSUME NEW k \in 0 .. req.lines - 1, NEW b \in Bit, b \notin StepMask(k)
      PROVE  BitAt(o(k), b) = BitAt(off, b)
  <2>1. b \in BitsOf(o(k)) <=> b \in BitsOf(off)
    BY <1>1, <1>4 DEF SymDiff
  <2>2. BitAt(o(k), b) \in {0, 1} /\ BitAt(off, b) \in {0, 1}
    BY <1>1, BitAtType, BitNat
  <2>3. QED
    BY <2>1, <2>2, BitsOfBits
<1>5. ASSUME NEW k \in 0 .. req.lines - 1
      PROVE  LineOf(o(k), q)
  <2>1. \A b \in 0 .. LineBits - 1 : BitAt(o(k), b) = BitAt(off, b)
    <3>1. ASSUME NEW b \in 0 .. LineBits - 1
          PROVE  b \in Bit /\ b \notin StepMask(k)
      BY <1>2, <1>3 DEF Bit
    <3>2. QED
      BY <1>4, <3>1
  <2>2. o(k) % Pow2[LineBits] = off % Pow2[LineBits]
    BY <1>1, <1>3, <2>1, LowBits
  <2>3. \A b \in Bit : PageBits <= b => BitAt(o(k), b) = BitAt(off, b)
    <3>1. ASSUME NEW b \in Bit, PageBits <= b
          PROVE  b \notin StepMask(k)
      BY <1>2, <1>3, <3>1, BitNat
    <3>2. QED
      BY <1>4, <3>1
  <2>4. o(k) \div Pow2[PageBits] = off \div Pow2[PageBits]
    BY <1>1, <1>3, <2>3, HighBits
  <2>5. QED
    BY <1>1, <2>2, <2>4 DEF LineOf
<1>6. ASSUME NEW k \in 0 .. req.lines - 1, NEW m \in 0 .. req.lines - 1, o(k) = o(m)
      PROVE  k = m
  <2>1. SymDiff(BitsOf(off), StepMask(k)) = SymDiff(BitsOf(off), StepMask(m))
    BY <1>1, <1>6
  <2>2. StepMask(k) = StepMask(m)
    BY <2>1 DEF SymDiff
  <2>3. XorOf(ColumnSteps, BitsOf(k)) = XorOf(ColumnSteps, BitsOf(m))
    BY <2>2, StepMasks
  <2>4. BitsOf(k) = BitsOf(m)
    BY <2>3, StepMasks, XorOfColumns
  <2>5. QED
    BY <2>4, StepMasks, SameWord
<1>7. QED
  BY <1>1, <1>5, <1>6 DEF o, off

\* The hole below HoleEnd moves whole pages: their offsets are kept.
LEMMA PageAddress ==
    ASSUME NEW page \in Nat
    PROVE  \E g \in Nat : \A y \in 0 .. Pow2[PageBits] - 1 :
              PhysToDram(page * Pow2[PageBits] + y) = g * Pow2[PageBits] + y
<1> DEFINE P == Pow2[PageBits]
<1>1. P \in Nat /\ P > 0
  BY WordAssumption, Pow2Facts
<1>2. /\ HoleEnd \in Nat /\ HoleSize \in Nat /\ HoleSize <= HoleEnd
      /\ HoleEnd % P = 0 /\ HoleSize % P = 0
  BY HoleAssumption
<1> HIDE DEF P
<1> DEFINE he == HoleEnd \div P
<1> DEFINE hs == HoleSize \div P
<1>3. he \in Nat /\ HoleEnd = P * he
  <2>1. he \in Nat /\ HoleEnd = P * he + (HoleEnd % P)
    BY <1>1, <1>2, Divided
  <2> HIDE DEF he
  <2>2. P * he \in Nat
    BY <1>1, <2>1
  <2>3. QED
    BY <1>2, <2>1, <2>2
<1>4. hs \in Nat /\ HoleSize = P * hs
  <2>1. hs \in Nat /\ HoleSize = P * hs + (HoleSize % P)
    BY <1>1, <1>2, Divided
  <2> HIDE DEF hs
  <2>2. P * hs \in Nat
    BY <1>1, <2>1
  <2>3. QED
    BY <1>2, <2>1, <2>2
<1> HIDE DEF he, hs
<1>5. CASE he <= page
  <2>1. hs <= he
    <3>1. CASE he < hs
      <4>1. P * he < P * hs
        BY <1>1, <1>3, <1>4, <3>1
      <4>2. QED
        BY <1>2, <1>3, <1>4, <4>1
    <3>2. QED
      BY <1>3, <1>4, <3>1
  <2>2. page - hs \in Nat
    BY <1>3, <1>4, <1>5, <2>1
  <2>3. ASSUME NEW y \in 0 .. P - 1
        PROVE  PhysToDram(page * P + y) = (page - hs) * P + y
    <3>1. P * he <= page * P /\ page * P \in Nat /\ P * hs \in Nat /\ P * he \in Nat
          /\ (page - hs) * P = page * P - P * hs
      BY <1>1, <1>3, <1>4, <1>5
    <3>2. y \in Nat
      OBVIOUS
    <3>3. page * P + y >= HoleEnd
      BY <1>3, <3>1, <3>2
    <3>4. PhysToDram(page * P + y) = (page * P + y) - HoleSize
      BY <3>3 DEF PhysToDram
    <3>5. (page - hs) * P \in Nat
      BY <1>1, <2>2
    <3>6. QED
      BY <1>4, <3>1, <3>2, <3>4, <3>5
  <2>4. QED
    BY <2>2, <2>3 DEF P
<1>6. CASE page < he
  <2>1. ASSUME NEW y \in 0 .. P - 1
        PROVE  PhysToDram(page * P + y) = page * P + y
    <3>1. (page + 1) * P <= he * P /\ he * P = P * he
      BY <1>1, <1>3, <1>6
    <3>2. (page + 1) * P = page * P + P /\ page * P \in Nat
      BY <1>1
    <3>3. y < P /\ y \in Nat
      BY <1>1
    <3>4. ~(page * P + y >= HoleEnd)
      BY <1>1, <1>2, <1>3, <3>1, <3>2, <3>3
    <3>5. QED
      BY <3>4 DEF PhysToDram
  <2>2. QED
    BY <2>1 DEF P
<1>7. QED
  BY <1>3, <1>5, <1>6

\* The bits of a place in a page are the offset's below PageBits and the page's above.
LEMMA PlaceBits ==
    ASSUME NEW g \in Nat, NEW z \in Nat, NEW b \in Nat
    PROVE  BitAt(g * Pow2[PageBits] + (z % Pow2[PageBits]), b)
              = IF b < PageBits THEN BitAt(z, b) ELSE BitAt(g, b - PageBits)
<1>1. PageBits \in Nat /\ Pow2[PageBits] \in Nat /\ Pow2[PageBits] > 0
  BY WordAssumption, Pow2Facts
<1> DEFINE y == z % Pow2[PageBits]
<1> DEFINE h == z \div Pow2[PageBits]
<1>2. /\ y \in Nat /\ h \in Nat /\ y < Pow2[PageBits] /\ z = Pow2[PageBits] * h + y
  BY <1>1, Divided
<1> HIDE DEF y, h
<1>3. z = h * Pow2[PageBits] + y
  BY <1>1, <1>2
<1>4. CASE b < PageBits
  <2>1. /\ BitAt(g * Pow2[PageBits] + y, b) = BitAt(y, b)
        /\ BitAt(h * Pow2[PageBits] + y, b) = BitAt(y, b)
    BY <1>1, <1>2, <1>4, BitAtLow
  <2>2. QED
    BY <1>3, <1>4, <2>1 DEF y
<1>5. CASE ~(b < PageBits)
  <2>1. b - PageBits \in Nat /\ (b - PageBits) + PageBits = b
    BY <1>1, <1>5
  <2>2. BitAt(g * Pow2[PageBits] + y, (b - PageBits) + PageBits) = BitAt(g, b - PageBits)
    BY <1>1, <1>2, <2>1, BitAtHigh
  <2>3. QED
    BY <1>5, <2>1, <2>2 DEF y
<1>6. QED
  BY <1>4, <1>5

\* The lines of an access differ in DRAM as their column steps do.
LEMMA SteppedDram ==
    ASSUME req \in Requests, Accepted, mask = BlockMask, step = Steps, req.mode # 0,
           phys \in Regions, DOMAIN phys = Slots, NEW r \in Word
    PROVE  \E A \in Word : \A k \in 0 .. req.lines - 1 :
              BitsOf(DramOf(Line(Offset(r), k))) = SymDiff(A, StepMask(k))
<1> DEFINE off == Offset(r)
<1> DEFINE P == Pow2[PageBits]
<1> DEFINE o(k) == Line(off, k)
<1>1. PICK q \in Slots : \A k \in 0 .. req.lines - 1 : o(k) \in Nat /\ o(k) \div P = q
  BY SteppedLines DEF LineOf
<1>2. off \in Nat /\ \A k \in 0 .. req.lines - 1 : BitsOf(o(k)) = SymDiff(BitsOf(off), StepMask(k))
  BY SteppedLine
<1> HIDE DEF off, o, P
<1>3. phys[q] \in Nat
  BY RequestAssumption
<1>4. PICK g \in Nat : \A y \in 0 .. P - 1 : PhysToDram(phys[q] * P + y) = g * P + y
  BY <1>3, PageAddress DEF P
<1>5. P \in Nat /\ P > 0 /\ PageBits \in Nat
  BY WordAssumption, Pow2Facts DEF P
<1> DEFINE A == BitsOf(g * P + (off % P))
<1>6. ASSUME NEW k \in 0 .. req.lines - 1
      PROVE  BitsOf(DramOf(o(k))) = SymDiff(A, StepMask(k))
  <2>1. o(k) % P \in 0 .. P - 1
    BY <1>1, <1>5, Divided
  <2>2. DramOf(o(k)) = g * P + (o(k) % P)
    <3>1. DramOf(o(k)) = PhysToDram(phys[q] * P + (o(k) % P))
      BY <1>1 DEF DramOf, P
    <3>2. QED
      BY <1>4, <2>1, <3>1
  <2>3. StepMask(k) \subseteq LineBits .. PageBits - 1
    BY StepMasks, XorOfColumns
  <2>4. ASSUME NEW b \in Bit
        PROVE  b \in BitsOf(g * P + (o(k) % P)) <=> ~(b \in A <=> b \in StepMask(k))
    <3>1. b \in Nat
      BY BitNat
    <3>2. b \in BitsOf(g * P + (o(k) % P)) <=>
             (IF b < PageBits THEN BitAt(o(k), b) ELSE BitAt(g, b - PageBits)) = 1
      BY <1>1, <3>1, BitsOfBits, PlaceBits DEF P
    <3>3. b \in A <=> (IF b < PageBits THEN BitAt(off, b) ELSE BitAt(g, b - PageBits)) = 1
      BY <1>2, <3>1, BitsOfBits, PlaceBits DEF P
    <3>4. CASE b < PageBits
      <4>1. b \in BitsOf(o(k)) <=> ~(b \in BitsOf(off) <=> b \in StepMask(k))
        BY <1>2 DEF SymDiff
      <4>2. (b \in BitsOf(o(k)) <=> BitAt(o(k), b) = 1) /\ (b \in BitsOf(off) <=> BitAt(off, b) = 1)
        BY BitsOfBits
      <4> HIDE DEF A
      <4>3. QED
        BY <3>2, <3>3, <3>4, <4>1, <4>2
    <3>5. CASE ~(b < PageBits)
      <4>1. b \notin StepMask(k)
        BY <1>5, <2>3, <3>1, <3>5
      <4> HIDE DEF A
      <4>2. QED
        BY <3>2, <3>3, <3>5, <4>1
    <3>6. QED
      BY <3>4, <3>5
  <2>5. BitsOf(g * P + (o(k) % P)) \subseteq Bit /\ A \subseteq Bit /\ StepMask(k) \subseteq Bit
    BY DEF BitsOf, StepMask
  <2> HIDE DEF A
  <2>6. QED
    BY <2>2, <2>4, <2>5 DEF SymDiff
<1>7. A \in Word
  BY BitsOfBits
<1> HIDE DEF A
<1>8. QED
  BY <1>6, <1>7 DEF o, off

\* So they are in one bank and one row, at different columns.
LEMMA SteppedRow ==
    ASSUME req \in Requests, Accepted, mask = BlockMask, step = Steps, req.mode # 0,
           phys \in Regions, DOMAIN phys = Slots, NEW r \in Word,
           NEW k \in 0 .. req.lines - 1, NEW m \in 0 .. req.lines - 1
    PROVE  /\ Banks(DramOf(Line(Offset(r), k))) = Banks(DramOf(Line(Offset(r), m)))
           /\ RowOf(DramOf(Line(Offset(r), k))) = RowOf(DramOf(Line(Offset(r), m)))
           /\ ColumnOf(DramOf(Line(Offset(r), k))) = ColumnOf(DramOf(Line(Offset(r), m)))
                  => k = m
<1> DEFINE M == Maps[MapName]
<1> DEFINE a(i) == DramOf(Line(Offset(r), i))
<1>1. PICK A \in Word : \A i \in 0 .. req.lines - 1 : BitsOf(a(i)) = SymDiff(A, StepMask(i))
  BY SteppedDram
<1> HIDE DEF a
<1>2. PageBits <= W
  <2>1. PICK e, w : Sized(e, w)
    BY AcceptedSizes
  <2>2. QED
    BY <2>1, WordAssumption DEF Sized
<1>3. ASSUME NEW i \in 0 .. req.lines - 1
      PROVE  /\ Banks(a(i)) = {f \in DOMAIN M.fun : Odd(M.fun[f] \cap A)}
             /\ RowOf(a(i)) = A \cap M.row
  <2>1. StepMask(i) \cap M.row = {} /\ StepMask(i) \subseteq Bit
    BY StepMasks, XorOfColumns DEF StepMask
  <2>2. ASSUME NEW f \in DOMAIN M.fun
        PROVE  Odd(M.fun[f] \cap BitsOf(a(i))) <=> Odd(M.fun[f] \cap A)
    <3>1. ~Odd(M.fun[f] \cap StepMask(i))
      BY <1>2, StepMasks, XorOfFunctions
    <3>2. M.fun[f] \cap SymDiff(A, StepMask(i))
             = SymDiff(M.fun[f] \cap A, M.fun[f] \cap StepMask(i))
      BY DEF SymDiff
    <3>3. IsFiniteSet(M.fun[f] \cap A) /\ IsFiniteSet(M.fun[f] \cap StepMask(i))
      BY <2>1, BitsFinite DEF Word
    <3>4. Odd(SymDiff(M.fun[f] \cap A, M.fun[f] \cap StepMask(i))) <=> Odd(M.fun[f] \cap A)
      BY <3>1, <3>3, OddXor
    <3>5. QED
      BY <1>1, <3>2, <3>4
  <2>3. SymDiff(A, StepMask(i)) \cap M.row = A \cap M.row
    BY <2>1 DEF SymDiff
  <2>4. QED
    BY <1>1, <2>2, <2>3 DEF Banks, RowOf
<1>4. ASSUME ColumnOf(a(k)) = ColumnOf(a(m))
      PROVE  k = m
  <2>1. SymDiff(A, StepMask(k)) \cap M.column = SymDiff(A, StepMask(m)) \cap M.column
    BY <1>1, <1>4 DEF ColumnOf
  <2>2. StepMask(k) \cap M.column = StepMask(m) \cap M.column
    BY <2>1 DEF SymDiff
  <2>3. BitsOf(k) = BitsOf(m)
    BY <2>2, StepMasks, XorOfColumns
  <2>4. QED
    BY <2>3, StepMasks, SameWord
<1>5. QED
  BY <1>3, <1>4 DEF a

------------------------------------------------------------------------------
(* The inductive invariant.                                                *)

LEMMA InjectiveImage ==
    ASSUME NEW S, IsFiniteSet(S), NEW f, \A i, j \in S : f[i] = f[j] => i = j
    PROVE  Cardinality({f[i] : i \in S}) = Cardinality(S)
<1> DEFINE g == [i \in S |-> f[i]]
<1> DEFINE R == {f[i] : i \in S}
<1>1. g \in Surjection(S, R) /\ g \in Injection(S, R)
  BY DEF Surjection, Injection, IsInjective
<1> HIDE DEF g, R
<1>2. Cardinality(R) = Cardinality(S)
  BY <1>1, FS_Surjection
<1>3. QED
  BY <1>2 DEF R

\* The accesses made so far: thread and number.
Made == {p \in Thread \X (1 .. L) : p[2] <= n[p[1]]}

LEMMA ThreadType == /\ NCores \in Nat /\ NCores > 0
                    /\ \A t \in Thread : t \in Nat /\ t < NCores
                    /\ IsFiniteSet(Thread) /\ Cardinality(Thread) = NCores
<1>1. NCores \in Nat /\ NCores > 0
  BY WordAssumption
<1>2. IsFiniteSet(0 .. NCores - 1) /\ Cardinality(0 .. NCores - 1) = NCores
  BY <1>1, FS_Interval
<1>3. QED
  BY <1>1, <1>2 DEF Thread

LEMMA MadeFinite ==
    ASSUME L \in Nat
    PROVE  /\ IsFiniteSet(Thread \X (1 .. L)) /\ Cardinality(Thread \X (1 .. L)) = NCores * L
           /\ IsFiniteSet(Made) /\ Cardinality(Made) \in Nat
<1>1. IsFiniteSet(1 .. L) /\ Cardinality(1 .. L) = L
  BY FS_Interval
<1>2. /\ IsFiniteSet(Thread \X (1 .. L))
      /\ Cardinality(Thread \X (1 .. L)) = Cardinality(Thread) * Cardinality(1 .. L)
  BY <1>1, ThreadType, FS_Product
<1>3. IsFiniteSet(Made)
  BY <1>2, FS_Subset DEF Made
<1>4. QED
  BY <1>1, <1>2, <1>3, ThreadType, FS_CardinalityType

LEMMA InitInvariant == Init => IInv
<1> SUFFICES ASSUME Init PROVE IInv
  OBVIOUS
<1> USE DEF Init
<1>1. TypeOK
  BY DEF TypeOK
<1>2. Setting
  BY DEF Setting
<1>3. ASSUME NEW t \in Thread
      PROVE  Walked(t)
  <2>1. n[t] = 0 /\ seen[t] = {} /\ touched[t] = {} /\ at[t] = "seed"
    OBVIOUS
  <2>2. {Orbit[t * L + i] : i \in 1 .. n[t]} = {}
    BY <2>1
  <2>3. QED
    BY <2>1, <2>2 DEF Walked
<1>4. Accounted
  <2>1. Made = {}
    BY DEF Made
  <2>2. Cardinality(Made) = 0
    BY <2>1, FS_EmptySet
  <2>3. req.lines \in Int
    BY RequestAssumption
  <2>4. reads = req.lines * Cardinality(Made)
    BY <2>2, <2>3
  <2>5. QED
    BY <2>4 DEF Accounted, Made
<1>5. QED
  BY <1>1, <1>2, <1>3, <1>4 DEF IInv

\* What main derives depends on the arguments alone.
LEMMA SameArguments ==
    ASSUME UNCHANGED req
    PROVE  /\ Accepted' <=> Accepted
           /\ BlockMask' = BlockMask /\ Steps' = Steps
           /\ Rounds' = Rounds /\ Rounded' = Rounded /\ Slots' = Slots
<1>1. MapName' = MapName /\ ColumnSteps' = ColumnSteps /\ NLines' = NLines /\ NBlocks' = NBlocks
  BY DEF MapName, ColumnSteps, NLines, NBlocks
<1>2. Accepted' <=> Accepted
  BY <1>1 DEF Accepted
<1>3. BlockMask' = BlockMask
  BY <1>1 DEF BlockMask
<1>4. Steps' = Steps
  BY <1>1 DEF Steps, StepMask
<1>5. QED
  BY <1>2, <1>3, <1>4 DEF Rounds, Rounded, Slots

LEMMA SameLines ==
    ASSUME UNCHANGED <<req, mask, step>>
    PROVE  \A r, k : Line(Offset(r), k)' = Line(Offset(r), k)
<1>1. \A r : Offset(r)' = Offset(r)
  BY DEF Offset
<1>2. QED
  BY <1>1 DEF Line

\* A thread that does not move keeps what it has walked.
LEMMA StillWalked ==
    ASSUME NEW t \in Thread, Walked(t), UNCHANGED setup,
           /\ at'[t] = at[t] /\ ran'[t] = ran[t] /\ n'[t] = n[t]
           /\ seen'[t] = seen[t] /\ touched'[t] = touched[t]
    PROVE  Walked(t)'
<1>1. L' = L /\ req' = req
  BY DEF setup
<1>2. \A k : Line(Offset(ran[t]), k)' = Line(Offset(ran'[t]), k)
  BY SameLines DEF setup
<1>3. {Line(Offset(ran[t]), k) : k \in 0 .. req.lines - 1}'
          = {Line(Offset(ran[t]), k) : k \in 0 .. req.lines - 1}
  BY <1>1, <1>2
<1>4. {Orbit[t * L + i] : i \in 1 .. n[t]}' = {Orbit[t * L + i] : i \in 1 .. n[t]}
  BY <1>1
<1>5. QED
  BY <1>1, <1>3, <1>4 DEF Walked

LEMMA StillMade ==
    ASSUME L' = L, n' = n
    PROVE  Made' = Made
BY DEF Made

\* A request that has been accepted has at least one line per access.
LEMMA AcceptedLines ==
    ASSUME req \in Requests, Accepted
    PROVE  /\ req.lines \in Nat /\ req.lines > 0
           /\ Rounds \in Nat /\ Rounded = Rounds * req.lines
<1>1. PICK e, w : Sized(e, w)
  BY AcceptedSizes
<1>2. req.lines \in Nat /\ req.lines > 0 /\ req.iters \in Nat
  BY <1>1, Pow2Facts, RequestAssumption DEF Sized
<1> DEFINE l == req.lines
<1> DEFINE q == req.iters \div l
<1>3. q \in Nat /\ Rounded = q * l
  BY <1>2, Divided DEF Rounded
<1>4. Rounds = Rounded \div l
  BY DEF Rounds
<1>5. l \in Nat /\ l > 0
  BY <1>2
<1> HIDE DEF l, q
<1>6. Rounded = l * q + 0
  BY <1>3, <1>5
<1>7. Rounded \div l = q
  BY <1>3, <1>5, <1>6, Quotient
<1>8. QED
  BY <1>3, <1>4, <1>5, <1>7 DEF l

\* The lines of an access, in either kind of mode.
LEMMA AccessLines ==
    ASSUME req \in Requests, Accepted, mask = BlockMask, step = Steps, NEW r \in Word
    PROVE  \E q \in Slots :
               /\ \A k \in 0 .. req.lines - 1 : LineOf(Line(Offset(r), k), q)
               /\ \A k, m \in 0 .. req.lines - 1 :
                      Line(Offset(r), k) = Line(Offset(r), m) => k = m
BY PlainLines, SteppedLines

LEMMA RejectInvariant == IInv /\ Reject => IInv'
<1> SUFFICES ASSUME IInv, Reject PROVE IInv'
  OBVIOUS
<1> USE DEF IInv, Reject
<1>1. TypeOK'
  BY DEF TypeOK, setup, walk
<1>2. Setting'
  BY DEF Setting, setup
<1>3. \A t \in Thread : Walked(t)'
  BY StillWalked DEF walk
<1>4. Accounted'
  <2>1. Made' = Made
    BY StillMade DEF setup, walk
  <2>2. QED
    BY <2>1 DEF Accounted, Made, setup
<1>5. QED
  BY <1>1, <1>2, <1>3, <1>4

LEMMA AcceptInvariant == IInv /\ Accept => IInv'
<1> SUFFICES ASSUME IInv, Accept PROVE IInv'
  OBVIOUS
<1>1. /\ req' = req /\ at' = at /\ ran' = ran /\ n' = n /\ seen' = seen /\ touched' = touched
      /\ phys' = phys /\ reads' = reads /\ pc = "check" /\ pc' = "alloc"
      /\ mask' = BlockMask /\ step' = Steps /\ L' = Rounds /\ Accepted
  BY DEF Accept, walk
<1>2. \A t \in Thread : at[t] = "seed" /\ n[t] = 0 /\ seen[t] = {} /\ touched[t] = {}
  <2>1. ASSUME NEW t \in Thread
        PROVE  at[t] = "seed" /\ n[t] = 0 /\ touched[t] = {}
               /\ seen[t] = {Orbit[t * L + i] : i \in 1 .. n[t]}
    BY <1>1 DEF IInv, Setting, Walked
  <2>2. \A t \in Thread : {Orbit[t * L + i] : i \in 1 .. 0} = {}
    OBVIOUS
  <2>3. QED
    BY <2>1, <2>2
<1>3. Rounds \in Nat /\ req \in Requests
  BY <1>1, AcceptedLines DEF IInv, TypeOK
<1>4. TypeOK'
  <2>1. BlockMask \subseteq Bit
    BY BitsOfBits DEF BlockMask, Word
  <2>2. \A d \in DOMAIN Steps : Steps[d] \subseteq Bit
    BY DEF Steps, StepMask
  <2>3. n' \in [Thread -> 0 .. L']
    BY <1>1, <1>2, <1>3 DEF IInv, TypeOK
  <2>4. QED
    BY <1>1, <1>3, <2>1, <2>2, <2>3 DEF IInv, TypeOK
<1>5. Setting'
  <2>1. (Accepted' <=> Accepted) /\ BlockMask' = BlockMask /\ Steps' = Steps /\ Rounds' = Rounds
    BY <1>1, SameArguments
  <2>2. QED
    BY <1>1, <1>2, <2>1 DEF Setting
<1>6. ASSUME NEW t \in Thread
      PROVE  Walked(t)'
  <2>1. {Orbit[t * L + i] : i \in 1 .. n[t]}' = {}
    <3>1. n'[t] = 0
      BY <1>1, <1>2
    <3>2. QED
      BY <3>1
  <2>2. QED
    BY <1>1, <1>2, <2>1 DEF Walked
<1>7. Accounted'
  <2>1. Made = {} /\ Made' = {}
    <3>1. ASSUME NEW p \in Thread \X (1 .. L)
          PROVE  ~(p[2] <= n[p[1]])
      BY <1>2
    <3>2. ASSUME NEW p \in Thread \X (1 .. L')
          PROVE  ~(p[2] <= n'[p[1]])
      BY <1>1, <1>2
    <3>3. QED
      BY <3>1, <3>2 DEF Made
  <2>2. reads = req.lines * Cardinality(Made)
    BY DEF IInv, Accounted, Made
  <2>3. reads' = req'.lines * Cardinality(Made')
    BY <1>1, <2>1, <2>2
  <2>4. QED
    BY <1>1, <2>3 DEF Accounted, Made
<1>8. QED
  BY <1>4, <1>5, <1>6, <1>7 DEF IInv

LEMMA AllocInvariant == IInv /\ (Alloc \/ AllocFails) => IInv'
<1> SUFFICES ASSUME IInv, Alloc \/ AllocFails PROVE IInv'
  OBVIOUS
<1>1. /\ UNCHANGED setup /\ at' = at /\ ran' = ran /\ n' = n /\ seen' = seen
      /\ touched' = touched /\ reads' = reads /\ pc = "alloc" /\ pc' \in {"run", "failed"}
  BY DEF Alloc, AllocFails, walk
<1>2. req' = req /\ mask' = mask /\ step' = step /\ L' = L
  BY <1>1 DEF setup
<1>3. TypeOK'
  BY <1>1, <1>2 DEF IInv, TypeOK, Alloc, AllocFails
<1>4. Setting'
  <2>1. /\ Accepted' <=> Accepted
        /\ BlockMask' = BlockMask /\ Steps' = Steps /\ Rounds' = Rounds /\ Slots' = Slots
    BY <1>2, SameArguments
  <2>2. pc' = "run" => phys' \in Regions /\ DOMAIN phys' = Slots
    BY <1>1 DEF Alloc, AllocFails
  <2>3. QED
    BY <1>1, <1>2, <2>1, <2>2 DEF IInv, Setting
<1>5. \A t \in Thread : Walked(t)'
  BY <1>1, StillWalked DEF IInv
<1>6. Accounted'
  <2>1. Made' = Made
    BY <1>1, <1>2, StillMade
  <2>2. QED
    BY <1>1, <1>2, <2>1 DEF IInv, Accounted, Made
<1>7. QED
  BY <1>3, <1>4, <1>5, <1>6 DEF IInv

\* When all threads have exited, all their accesses have been made.
LEMMA JoinInvariant == IInv /\ Join => IInv'
<1> SUFFICES ASSUME IInv, Join PROVE IInv'
  OBVIOUS
<1>1. /\ UNCHANGED setup /\ at' = at /\ ran' = ran /\ n' = n /\ seen' = seen /\ phys' = phys
      /\ touched' = touched /\ reads' = reads /\ pc = "run" /\ pc' = "done"
      /\ \A t \in Thread : at[t] = "exited"
  BY DEF Join, walk
<1>2. req' = req /\ mask' = mask /\ step' = step /\ L' = L
  BY <1>1 DEF setup
<1>3. /\ Accepted' <=> Accepted
      /\ BlockMask' = BlockMask /\ Steps' = Steps /\ Rounds' = Rounds /\ Slots' = Slots
      /\ Rounded' = Rounded
  BY <1>2, SameArguments
<1>4. TypeOK'
  BY <1>1, <1>2 DEF IInv, TypeOK
<1>5. Setting'
  BY <1>1, <1>2, <1>3 DEF IInv, Setting
<1>6. \A t \in Thread : Walked(t)'
  BY <1>1, StillWalked DEF IInv
<1>7. Accounted'
  <2>1. Made' = Made
    BY <1>1, <1>2, StillMade
  <2>2. req \in Requests /\ Accepted /\ L = Rounds /\ L \in Nat
    BY <1>1 DEF IInv, TypeOK, Setting
  <2>3. Made = Thread \X (1 .. L)
    <3>1. ASSUME NEW p \in Thread \X (1 .. L)
          PROVE  p[2] <= n[p[1]]
      <4>1. n[p[1]] = L /\ p[2] \in 1 .. L
        BY <1>1 DEF IInv, Walked
      <4>2. QED
        BY <2>2, <4>1
    <3>2. QED
      BY <3>1 DEF Made
  <2>4. Cardinality(Made) = NCores * L
    BY <2>2, <2>3, MadeFinite
  <2>5. reads = req.lines * (NCores * L)
    BY <2>4 DEF IInv, Accounted, Made
  <2>6. req.lines \in Nat /\ Rounded = L * req.lines
    BY <2>2, AcceptedLines
  <2>7. req.lines * (NCores * L) = NCores * (L * req.lines)
    BY <2>2, <2>6, ThreadType
  <2>8. reads = NCores * Rounded
    BY <2>5, <2>6, <2>7
  <2>9. reads = req.lines * Cardinality(Made)
    BY DEF IInv, Accounted, Made
  <2>10. QED
    BY <1>1, <1>2, <1>3, <2>1, <2>8, <2>9 DEF Accounted, Made
<1>8. QED
  BY <1>4, <1>5, <1>6, <1>7 DEF IInv

\* The skip-ahead puts a thread where its stretch starts.
LEMMA SeedInvariant == \A t \in Thread : IInv /\ Seed(t) => IInv'
<1> SUFFICES ASSUME NEW t \in Thread, IInv, Seed(t) PROVE IInv'
  OBVIOUS
<1>1. /\ UNCHANGED setup /\ n' = n /\ seen' = seen /\ phys' = phys
      /\ touched' = touched /\ reads' = reads /\ pc = "run" /\ pc' = pc /\ at[t] = "seed"
      /\ ran' = [ran EXCEPT ![t] = hpcc_starts(t * L)] /\ at' = [at EXCEPT ![t] = "walk"]
  BY DEF Seed, StreamStart
<1>2. req' = req /\ mask' = mask /\ step' = step /\ L' = L
  BY <1>1 DEF setup
<1>3. /\ Accepted' <=> Accepted
      /\ BlockMask' = BlockMask /\ Steps' = Steps /\ Rounds' = Rounds /\ Slots' = Slots
  BY <1>2, SameArguments
<1>4. /\ at \in [Thread -> {"seed", "walk", "exited"}] /\ ran \in [Thread -> SUBSET Bit]
      /\ L \in Nat /\ t * L \in Nat
  <2>1. L \in Nat /\ t \in Nat
    BY ThreadType DEF IInv, TypeOK
  <2>2. QED
    BY <2>1 DEF IInv, TypeOK
<1>5. hpcc_starts(t * L) = Orbit[t * L] /\ Orbit[t * L] \in SUBSET Bit
  BY <1>4, SkipAhead, OrbitDef DEF Word
<1>6. TypeOK'
  <2>1. ran' \in [Thread -> SUBSET Bit] /\ at' \in [Thread -> {"seed", "walk", "exited"}]
    BY <1>1, <1>4, <1>5
  <2>2. QED
    BY <1>1, <1>2, <2>1 DEF IInv, TypeOK
<1>7. Setting'
  BY <1>1, <1>2, <1>3 DEF IInv, Setting
<1>8. ASSUME NEW u \in Thread
      PROVE  Walked(u)'
  <2>1. CASE u = t
    <3>1. n[t] = 0 /\ seen[t] = {Orbit[t * L + i] : i \in 1 .. n[t]} /\ touched[t] = {}
      BY <1>1 DEF IInv, Walked
    <3>2. at'[t] = "walk" /\ ran'[t] = Orbit[t * L + 0]
      BY <1>1, <1>4, <1>5
    <3>3. Walked(t)'
      BY <1>1, <1>2, <3>1, <3>2 DEF Walked
    <3>4. QED
      BY <2>1, <3>3
  <2>2. CASE u # t
    <3>1. at'[u] = at[u] /\ ran'[u] = ran[u]
      BY <1>1, <1>4, <2>2
    <3>2. QED
      BY <1>1, <3>1, StillWalked DEF IInv
  <2>3. QED
    BY <2>1, <2>2
<1>9. Accounted'
  <2>1. Made' = Made
    BY <1>1, <1>2, StillMade
  <2>2. QED
    BY <1>1, <1>2, <2>1 DEF IInv, Accounted, Made
<1>10. QED
  BY <1>6, <1>7, <1>8, <1>9 DEF IInv

\* An access walks one state further and reads its lines.
LEMMA AccessInvariant == \A t \in Thread : IInv /\ Access(t) => IInv'
<1> SUFFICES ASSUME NEW t \in Thread, IInv, Access(t) PROVE IInv'
  OBVIOUS
<1> DEFINE r == Step(ran[t])
<1> DEFINE T == {Line(Offset(r), k) : k \in 0 .. req.lines - 1}
<1>1. /\ UNCHANGED setup /\ phys' = phys /\ pc = "run" /\ pc' = pc /\ at' = at
      /\ at[t] = "walk" /\ n[t] < L
      /\ ran' = [ran EXCEPT ![t] = r] /\ n' = [n EXCEPT ![t] = n[t] + 1]
      /\ seen' = [seen EXCEPT ![t] = seen[t] \cup {r}]
      /\ touched' = [touched EXCEPT ![t] = T]
      /\ reads' = reads + req.lines
  BY DEF Access
<1>2. req' = req /\ mask' = mask /\ step' = step /\ L' = L
  BY <1>1 DEF setup
<1>3. /\ Accepted' <=> Accepted
      /\ BlockMask' = BlockMask /\ Steps' = Steps /\ Rounds' = Rounds /\ Slots' = Slots
  BY <1>2, SameArguments
<1>4. /\ req \in Requests /\ Accepted /\ mask = BlockMask /\ step = Steps
      /\ L \in Nat /\ reads \in Nat
      /\ ran \in [Thread -> SUBSET Bit] /\ n \in [Thread -> 0 .. L]
      /\ seen \in [Thread -> SUBSET SUBSET Bit] /\ touched \in [Thread -> SUBSET Nat]
  BY <1>1 DEF IInv, TypeOK, Setting
<1> DEFINE j == t * L + n[t]
<1>5. /\ ran[t] = Orbit[j] /\ seen[t] = {Orbit[t * L + i] : i \in 1 .. n[t]}
  BY <1>1 DEF IInv, Walked
<1>6. n[t] \in Nat /\ n[t] + 1 \in 1 .. L /\ j \in Nat /\ t * L + (n[t] + 1) = j + 1
      /\ t * L \in Nat
  <2>1. t \in Nat /\ n[t] \in 0 .. L
    BY <1>4, ThreadType
  <2>2. t * L \in Nat
    BY <1>4, <2>1
  <2>3. QED
    BY <1>1, <1>4, <2>1, <2>2
<1>7. r = Orbit[j + 1] /\ r \in Word
  <2> HIDE DEF j
  <2>1. QED
    BY <1>5, <1>6, OrbitDef
<1>8. T \subseteq Nat
  BY <1>4, <1>7, AccessLines DEF LineOf
<1>9. req.lines \in Nat
  BY <1>4, AcceptedLines
<1> HIDE DEF r, T, j
<1>10. TypeOK'
  <2>1. ran' \in [Thread -> SUBSET Bit]
    BY <1>1, <1>4, <1>7 DEF Word
  <2>2. n' \in [Thread -> 0 .. L]
    BY <1>1, <1>4, <1>6
  <2>3. seen' \in [Thread -> SUBSET SUBSET Bit]
    BY <1>1, <1>4, <1>7 DEF Word
  <2>4. touched' \in [Thread -> SUBSET Nat]
    BY <1>1, <1>4, <1>8
  <2>5. reads' \in Nat
    BY <1>1, <1>4, <1>9
  <2>6. QED
    BY <1>1, <1>2, <2>1, <2>2, <2>3, <2>4, <2>5 DEF IInv, TypeOK
<1>11. Setting'
  BY <1>1, <1>2, <1>3 DEF IInv, Setting
<1>12. ASSUME NEW u \in Thread
       PROVE  Walked(u)'
  <2>1. CASE u = t
    <3>1. n'[t] = n[t] + 1 /\ ran'[t] = r /\ seen'[t] = seen[t] \cup {r} /\ touched'[t] = T
      BY <1>1, <1>4
    <3>2. ran'[t] = Orbit[t * L' + n'[t]]
      BY <1>2, <1>6, <1>7, <3>1
    <3>3. seen'[t] = {Orbit[t * L' + i] : i \in 1 .. n'[t]}
      <4>1. \A i : i \in 1 .. n[t] + 1 <=> (i \in 1 .. n[t] \/ i = n[t] + 1)
        BY <1>6
      <4>2. {Orbit[t * L + i] : i \in 1 .. n[t] + 1}
               = {Orbit[t * L + i] : i \in 1 .. n[t]} \cup {Orbit[t * L + (n[t] + 1)]}
        BY <4>1
      <4>3. QED
        BY <1>2, <1>5, <1>6, <1>7, <3>1, <4>2
    <3>4. touched'[t] = {Line(Offset(ran[t]), k) : k \in 0 .. req.lines - 1}'
      <4>1. \A k : Line(Offset(ran[t]), k)' = Line(Offset(r), k)
        BY <1>2, <3>1, SameLines
      <4>2. QED
        BY <1>2, <3>1, <4>1 DEF T
    <3>5. n'[t] # 0 /\ at'[t] = "walk"
      BY <1>1, <1>6, <3>1
    <3>6. Walked(t)'
      BY <3>2, <3>3, <3>4, <3>5 DEF Walked
    <3>7. QED
      BY <2>1, <3>6
  <2>2. CASE u # t
    <3>1. n'[u] = n[u] /\ ran'[u] = ran[u] /\ seen'[u] = seen[u] /\ touched'[u] = touched[u]
      BY <1>1, <1>4, <2>2
    <3>2. QED
      BY <1>1, <3>1, StillWalked DEF IInv
  <2>3. QED
    BY <2>1, <2>2
<1>13. Accounted'
  <2>1. Made' = Made \cup {<<t, n[t] + 1>>} /\ <<t, n[t] + 1>> \notin Made
    <3>1. ASSUME NEW u \in Thread, NEW i \in 1 .. L
          PROVE  i <= n'[u] <=> (i <= n[u] \/ <<u, i>> = <<t, n[t] + 1>>)
      <4>1. CASE u = t
        <5>1. n'[u] = n[u] + 1
          BY <1>1, <1>4, <4>1
        <5>2. QED
          BY <1>6, <4>1, <5>1
      <4>2. CASE u # t
        <5>1. n'[u] = n[u]
          BY <1>1, <1>4, <4>2
        <5>2. QED
          BY <4>2, <5>1
      <4>3. QED
        BY <4>1, <4>2
    <3>2. \A p \in Thread \X (1 .. L) : p[1] \in Thread /\ p[2] \in 1 .. L /\ p = <<p[1], p[2]>>
      OBVIOUS
    <3>3. \A p \in Thread \X (1 .. L) :
             p[2] <= n'[p[1]] <=> (p[2] <= n[p[1]] \/ p = <<t, n[t] + 1>>)
      BY <3>1, <3>2
    <3>4. <<t, n[t] + 1>> \in Thread \X (1 .. L) /\ ~(n[t] + 1 <= n[t])
      BY <1>6
    <3>5. Made' = {p \in Thread \X (1 .. L) : p[2] <= n'[p[1]]}
      BY <1>2 DEF Made
    <3>6. QED
      BY <3>3, <3>4, <3>5 DEF Made
  <2>2. IsFiniteSet(Made) /\ Cardinality(Made) \in Nat
    BY <1>4, MadeFinite
  <2>3. Cardinality(Made') = Cardinality(Made) + 1
    BY <2>1, <2>2, FS_AddElement
  <2>4. reads = req.lines * Cardinality(Made)
    BY DEF IInv, Accounted, Made
  <2>5. req.lines * (Cardinality(Made) + 1) = req.lines * Cardinality(Made) + req.lines
    BY <1>9, <2>2
  <2>6. reads' = req'.lines * Cardinality(Made')
    BY <1>1, <1>2, <2>3, <2>4, <2>5
  <2>7. QED
    BY <1>1, <2>6 DEF Accounted, Made
<1>14. QED
  BY <1>10, <1>11, <1>12, <1>13 DEF IInv

LEMMA ExitInvariant == \A t \in Thread : IInv /\ Exit(t) => IInv'
<1> SUFFICES ASSUME NEW t \in Thread, IInv, Exit(t) PROVE IInv'
  OBVIOUS
<1>1. /\ UNCHANGED setup /\ ran' = ran /\ n' = n /\ seen' = seen /\ phys' = phys
      /\ touched' = touched /\ reads' = reads /\ pc = "run" /\ pc' = pc
      /\ at[t] = "walk" /\ n[t] = L /\ at' = [at EXCEPT ![t] = "exited"]
  BY DEF Exit, walk
<1>2. req' = req /\ mask' = mask /\ step' = step /\ L' = L
  BY <1>1 DEF setup
<1>3. /\ Accepted' <=> Accepted
      /\ BlockMask' = BlockMask /\ Steps' = Steps /\ Rounds' = Rounds /\ Slots' = Slots
  BY <1>2, SameArguments
<1>4. at \in [Thread -> {"seed", "walk", "exited"}]
  BY DEF IInv, TypeOK
<1>5. TypeOK'
  <2>1. at' \in [Thread -> {"seed", "walk", "exited"}]
    BY <1>1, <1>4
  <2>2. QED
    BY <1>1, <1>2, <2>1 DEF IInv, TypeOK
<1>6. Setting'
  BY <1>1, <1>2, <1>3 DEF IInv, Setting
<1>7. ASSUME NEW u \in Thread
      PROVE  Walked(u)'
  <2>1. CASE u = t
    <3>1. at'[t] = "exited"
      BY <1>1, <1>4
    <3>2. \A k : Line(Offset(ran[t]), k)' = Line(Offset(ran[t]), k)
      BY <1>1, <1>2, SameLines
    <3>3. {Line(Offset(ran[t]), k) : k \in 0 .. req.lines - 1}'
             = {Line(Offset(ran[t]), k) : k \in 0 .. req.lines - 1}
      BY <1>2, <3>2
    <3>4. Walked(t)
      BY DEF IInv
    <3>5. Walked(t)'
      BY <1>1, <1>2, <3>1, <3>3, <3>4 DEF Walked
    <3>6. QED
      BY <2>1, <3>5
  <2>2. CASE u # t
    <3>1. at'[u] = at[u]
      BY <1>1, <1>4, <2>2
    <3>2. QED
      BY <1>1, <3>1, StillWalked DEF IInv
  <2>3. QED
    BY <2>1, <2>2
<1>8. Accounted'
  <2>1. Made' = Made
    BY <1>1, <1>2, StillMade
  <2>2. QED
    BY <1>1, <1>2, <2>1 DEF IInv, Accounted, Made
<1>9. QED
  BY <1>5, <1>6, <1>7, <1>8 DEF IInv

\* Every step keeps the invariant, so every state has it: what main derived from its
\* arguments stands, each thread is at the state its stretch has reached, its last access
\* has read that state's lines, and the lines are all counted.
THEOREM RandInvariant == Spec => []IInv
<1>1. Init => IInv
  BY InitInvariant
<1>2. IInv /\ [Next]_vars => IInv'
  <2> SUFFICES ASSUME IInv, [Next]_vars PROVE IInv'
    OBVIOUS
  <2>1. CASE Reject
    BY <2>1, RejectInvariant
  <2>2. CASE Accept
    BY <2>2, AcceptInvariant
  <2>3. CASE Alloc \/ AllocFails
    BY <2>3, AllocInvariant
  <2>4. CASE Join
    BY <2>4, JoinInvariant
  <2>5. ASSUME NEW t \in Thread, Seed(t)
        PROVE  IInv'
    BY <2>5, SeedInvariant
  <2>6. ASSUME NEW t \in Thread, Access(t)
        PROVE  IInv'
    BY <2>6, AccessInvariant
  <2>7. ASSUME NEW t \in Thread, Exit(t)
        PROVE  IInv'
    BY <2>7, ExitInvariant
  <2>8. CASE UNCHANGED vars
    <3>1. /\ UNCHANGED setup /\ pc' = pc /\ phys' = phys /\ at' = at /\ ran' = ran /\ n' = n
          /\ seen' = seen /\ touched' = touched /\ reads' = reads
          /\ req' = req /\ mask' = mask /\ step' = step /\ L' = L
      BY <2>8 DEF vars, walk, setup
    <3>2. TypeOK'
      BY <3>1 DEF IInv, TypeOK
    <3>3. Setting' /\ Rounded' = Rounded
      BY <3>1, SameArguments DEF IInv, Setting
    <3>4. \A t \in Thread : Walked(t)'
      BY <3>1, StillWalked DEF IInv
    <3>5. Accounted'
      <4>1. Made' = Made
        BY <3>1, StillMade
      <4>2. QED
        BY <3>1, <3>3, <4>1 DEF IInv, Accounted, Made
    <3>6. QED
      BY <3>2, <3>3, <3>4, <3>5 DEF IInv
  <2>9. QED
    BY <2>1, <2>2, <2>3, <2>4, <2>5, <2>6, <2>7, <2>8 DEF Next
<1>3. QED
  BY <1>1, <1>2, PTL DEF Spec

------------------------------------------------------------------------------
(* What it promises.                                                       *)

\* Thread t's stretch is the L states after the (t * L)-th.
LEMMA DisjointStreams == IInv => StreamsDisjoint
<1> SUFFICES ASSUME IInv PROVE StreamsDisjoint
  OBVIOUS
<1>1. L \in Nat /\ NCores \in Nat /\ NCores > 0 /\ PERIOD \in Nat /\ n \in [Thread -> 0 .. L]
  BY ThreadType, PeriodAssumption DEF IInv, TypeOK
<1>2. ASSUME NEW t \in Thread
      PROVE  /\ t \in Nat /\ t < NCores /\ n[t] \in Nat /\ n[t] <= L
             /\ seen[t] = {Orbit[t * L + i] : i \in 1 .. n[t]}
             /\ t * L \in Nat /\ t * L + L <= NCores * L
  <2>1. t \in Nat /\ t < NCores /\ n[t] \in 0 .. L
    BY <1>1, ThreadType
  <2>2. t * L \in Nat /\ (t + 1) * L <= NCores * L /\ (t + 1) * L = t * L + L
    BY <1>1, <2>1
  <2>3. seen[t] = {Orbit[t * L + i] : i \in 1 .. n[t]}
    BY DEF IInv, Walked
  <2>4. n[t] \in Nat /\ n[t] <= L
    BY <1>1, <2>1
  <2>5. t * L + L <= NCores * L
    BY <2>2
  <2>6. QED
    BY <2>1, <2>2, <2>3, <2>4, <2>5
<1>3. ASSUME NCores * L <= PERIOD, NEW i \in 1 .. NCores * L, NEW j \in 1 .. NCores * L, i # j
      PROVE  Orbit[i] # Orbit[j]
  <2>1. i \in Nat /\ j \in Nat /\ NCores * L \in Nat
    BY <1>1
  <2>2. CASE i < j
    <3>1. j - i < PERIOD
      BY <1>1, <1>3, <2>1, <2>2
    <3>2. QED
      BY <2>1, <2>2, <3>1, OrbitCycle
  <2>3. CASE j < i
    <3>1. i - j < PERIOD
      BY <1>1, <1>3, <2>1, <2>3
    <3>2. QED
      BY <2>1, <2>3, <3>1, OrbitCycle
  <2>4. QED
    BY <1>3, <2>1, <2>2, <2>3
<1>4. ASSUME NCores * L <= PERIOD, NEW t \in Thread
      PROVE  Cardinality(seen[t]) = n[t]
  <2> DEFINE S == 1 .. n[t]
  <2> DEFINE f == [i \in S |-> Orbit[t * L + i]]
  <2>1. IsFiniteSet(S) /\ Cardinality(S) = n[t]
    <3>1. n[t] \in Nat /\ n[t] \in Int /\ 1 \in Int
      BY <1>2
    <3>2. /\ IsFiniteSet(1 .. n[t])
          /\ Cardinality(1 .. n[t]) = IF 1 > n[t] THEN 0 ELSE n[t] - 1 + 1
      BY <3>1, FS_Interval
    <3>3. QED
      BY <3>1, <3>2
  <2>2. \A i, j \in S : f[i] = f[j] => i = j
    <3>1. \A i \in S : i \in Nat /\ t * L + i \in 1 .. NCores * L
      BY <1>1, <1>2
    <3>2. ASSUME NEW i \in S, NEW j \in S, i # j
          PROVE  f[i] # f[j]
      <4>1. t * L + i # t * L + j
        BY <1>2, <3>1, <3>2
      <4>2. Orbit[t * L + i] # Orbit[t * L + j]
        BY <1>3, <1>4, <3>1, <4>1
      <4>3. QED
        BY <4>2
    <3> HIDE DEF f
    <3>3. QED
      BY <3>2
  <2>3. seen[t] = {f[i] : i \in S}
    BY <1>2
  <2> HIDE DEF f, S
  <2>4. QED
    BY <2>1, <2>2, <2>3, InjectiveImage
<1>5. ASSUME NCores * L <= PERIOD, NEW t \in Thread, NEW u \in Thread, t # u
      PROVE  seen[t] \cap seen[u] = {}
  <2>1. ASSUME NEW i \in 1 .. n[t], NEW j \in 1 .. n[u]
        PROVE  Orbit[t * L + i] # Orbit[u * L + j]
    <3>1. i \in 1 .. L /\ j \in 1 .. L
      BY <1>1, <1>2
    <3>2. t * L + i \in 1 .. NCores * L /\ u * L + j \in 1 .. NCores * L
      BY <1>1, <1>2, <3>1
    <3>3. t * L + i # u * L + j
      <4>1. CASE t < u
        <5>1. (t + 1) * L <= u * L /\ (t + 1) * L = t * L + L
          BY <1>1, <1>2, <4>1
        <5>2. QED
          BY <1>1, <1>2, <3>1, <5>1
      <4>2. CASE u < t
        <5>1. (u + 1) * L <= t * L /\ (u + 1) * L = u * L + L
          BY <1>1, <1>2, <4>2
        <5>2. QED
          BY <1>1, <1>2, <3>1, <5>1
      <4>3. QED
        BY <1>2, <1>5, <4>1, <4>2
    <3>4. QED
      BY <1>3, <1>5, <3>2, <3>3
  <2>2. QED
    BY <1>2, <2>1
<1>6. ASSUME NEW t \in Thread, t + 1 \in Thread, at[t] = "exited", at[t + 1] = "walk",
             n[t + 1] = 0
      PROVE  ran[t] = ran[t + 1]
  <2>1. ran[t] = Orbit[t * L + n[t]] /\ n[t] = L
    BY <1>6 DEF IInv, Walked
  <2>2. ran[t + 1] = Orbit[(t + 1) * L + 0]
    BY <1>6 DEF IInv, Walked
  <2>3. (t + 1) * L + 0 = t * L + L
    BY <1>1, <1>2
  <2>4. QED
    BY <2>1, <2>2, <2>3
<1>7. QED
  BY <1>4, <1>5, <1>6 DEF StreamsDisjoint

\* For any feedback, cycle, number of threads and iterations: no state is walked twice
\* while all threads together walk at most a cycle, and each thread's stretch ends where
\* the next one's starts (thread_func and hpcc_starts of randread_bw.cpp).
THEOREM StreamsAreDisjoint == Spec => []StreamsDisjoint
<1>1. QED
  BY RandInvariant, DisjointStreams, PTL

\* A thread that has walked was set up by an accepted request.
LEMMA Walking ==
    ASSUME IInv, NEW t \in Thread, n[t] > 0
    PROVE  /\ req \in Requests /\ Accepted /\ mask = BlockMask /\ step = Steps
           /\ phys \in Regions /\ DOMAIN phys = Slots
           /\ ran[t] \in Word
           /\ touched[t] = {Line(Offset(ran[t]), k) : k \in 0 .. req.lines - 1}
<1>1. n[t] # 0 /\ at[t] # "seed"
  BY DEF IInv, TypeOK, Walked
<1>2. pc \in {"run", "done"}
  BY <1>1 DEF IInv, Setting
<1>3. ran[t] \in Word
  BY DEF IInv, TypeOK, Word
<1>4. touched[t] = {Line(Offset(ran[t]), k) : k \in 0 .. req.lines - 1}
  BY <1>1 DEF IInv, Walked
<1>5. QED
  BY <1>2, <1>3, <1>4 DEF IInv, TypeOK, Setting

LEMMA WholeLines == IInv => WholeAccess
<1> SUFFICES ASSUME IInv PROVE WholeAccess
  OBVIOUS
<1>1. ASSUME NEW t \in Thread, n[t] > 0
      PROVE  /\ \A o \in touched[t] : /\ o \in 0 .. NLines * Pow2[LineBits] - 1
                                      /\ o % Pow2[LineBits] = 0
             /\ Cardinality(touched[t]) = req.lines
             /\ Cardinality({o \div Pow2[PageBits] : o \in touched[t]}) = 1
  <2> DEFINE line == [k \in 0 .. req.lines - 1 |-> Line(Offset(ran[t]), k)]
  <2> DEFINE P == Pow2[PageBits]
  <2>1. /\ req \in Requests /\ Accepted
        /\ touched[t] = {line[k] : k \in 0 .. req.lines - 1}
    BY <1>1, Walking
  <2>2. PICK q \in Slots :
            /\ \A k \in 0 .. req.lines - 1 : LineOf(line[k], q)
            /\ \A k, m \in 0 .. req.lines - 1 : line[k] = line[m] => k = m
    <3>1. PICK q \in Slots :
             /\ \A k \in 0 .. req.lines - 1 : LineOf(Line(Offset(ran[t]), k), q)
             /\ \A k, m \in 0 .. req.lines - 1 :
                   Line(Offset(ran[t]), k) = Line(Offset(ran[t]), m) => k = m
      BY <1>1, Walking, AccessLines
    <3>2. QED
      BY <3>1
  <2> HIDE DEF line, P
  <2>3. req.lines \in Nat /\ req.lines > 0
    BY <2>1, AcceptedLines
  <2>4. /\ P \in Nat /\ P > 0 /\ NLines * Pow2[LineBits] = P * req.pages
        /\ req.pages \in Nat
    <3>1. PICK e, w : Sized(e, w)
      BY <2>1, AcceptedSizes
    <3>2. /\ e \in Nat /\ LineBits \in Nat /\ PageBits \in Nat /\ NLines = Pow2[e]
          /\ e + LineBits - PageBits \in Nat /\ req.pages = Pow2[e + LineBits - PageBits]
          /\ e + LineBits = PageBits + (e + LineBits - PageBits)
      BY <3>1, WordAssumption DEF Sized
    <3>3. Pow2[e + LineBits] = Pow2[e] * Pow2[LineBits]
      BY <3>2, Pow2Sum
    <3>4. Pow2[PageBits + (e + LineBits - PageBits)] = P * Pow2[e + LineBits - PageBits]
      BY <3>2, Pow2Sum DEF P
    <3>5. QED
      BY <3>2, <3>3, <3>4, Pow2Facts DEF P
  <2>5. ASSUME NEW o \in touched[t]
        PROVE  /\ o \in 0 .. NLines * Pow2[LineBits] - 1 /\ o % Pow2[LineBits] = 0
               /\ o \div P = q
    <3>1. LineOf(o, q)
      BY <2>1, <2>2
    <3>2. o \in Nat /\ o % Pow2[LineBits] = 0 /\ o \div P = q
      BY <3>1 DEF LineOf, P
    <3> DEFINE s == o % P
    <3>3. s \in Nat /\ s < P /\ o = P * q + s /\ q \in Nat
      BY <2>4, <3>2, Divided
    <3> HIDE DEF s
    <3>4. q + 1 <= req.pages
      BY <2>2, <2>4, <3>3 DEF Slots
    <3>5. P * (q + 1) <= P * req.pages /\ P * (q + 1) = P * q + P /\ P * q \in Nat
          /\ P * req.pages \in Nat
      BY <2>4, <3>3, <3>4
    <3>6. o < P * req.pages
      BY <2>4, <3>3, <3>5
    <3>7. QED
      BY <2>4, <3>2, <3>5, <3>6
  <2>6. Cardinality(touched[t]) = req.lines
    <3>1. IsFiniteSet(0 .. req.lines - 1) /\ Cardinality(0 .. req.lines - 1) = req.lines
      <4>1. 0 \in Int /\ req.lines - 1 \in Int
        BY <2>3
      <4>2. /\ IsFiniteSet(0 .. req.lines - 1)
            /\ Cardinality(0 .. req.lines - 1)
                  = IF 0 > req.lines - 1 THEN 0 ELSE (req.lines - 1) - 0 + 1
        BY <4>1, FS_Interval
      <4>3. QED
        BY <2>3, <4>2
    <3> DEFINE S == 0 .. req.lines - 1
    <3>2. IsFiniteSet(S) /\ \A k, m \in S : line[k] = line[m] => k = m
      BY <2>2, <3>1
    <3>3. touched[t] = {line[k] : k \in S} /\ Cardinality(S) = req.lines
      BY <2>1, <3>1
    <3> HIDE DEF S
    <3>4. QED
      BY <3>2, <3>3, InjectiveImage
  <2>7. {o \div P : o \in touched[t]} = {q}
    <3>1. line[0] \in touched[t]
      BY <2>1, <2>3
    <3>2. QED
      BY <2>5, <3>1
  <2>8. Cardinality({o \div P : o \in touched[t]}) = 1
    BY <2>7, FS_Singleton
  <2>9. QED
    BY <2>5, <2>6, <2>8 DEF P
<1>2. ASSUME pc = "alloc"
      PROVE  {Num(r \cap mask) : r \in SUBSET Bit}
                = 0 .. (IF req.mode = 0 THEN NBlocks ELSE NLines) - 1
  <2> DEFINE B == IF req.mode = 0 THEN NBlocks ELSE NLines
  <2>1. req \in Requests /\ Accepted /\ mask = BlockMask
    BY <1>2 DEF IInv, TypeOK, Setting
  <2>2. /\ \A r \in Word : Num(r \cap mask) \in 0 .. B - 1
        /\ \A x \in 0 .. B - 1 : \E r \in Word : Num(r \cap mask) = x
    BY <2>1, EveryBlock
  <2> HIDE DEF B
  <2>3. {Num(r \cap mask) : r \in Word} = 0 .. B - 1
    BY <2>2
  <2>4. QED
    BY <2>3 DEF B, Word
<1>3. QED
  BY <1>1, <1>2 DEF WholeAccess

\* For any word, page and line size, and any number of pages and lines per access that
\* main accepts: an access reads that many distinct whole lines of one page, inside the
\* region, and the mask that picks a block leaves none of the region's out.
THEOREM AccessesAreWhole == Spec => []WholeAccess
<1>1. QED
  BY RandInvariant, WholeLines, PTL

LEMMA KeptRow == IInv => SameBankRow
<1> SUFFICES ASSUME IInv, req.mode # 0, NEW t \in Thread
             PROVE  /\ \A o, p \in touched[t] :
                          /\ Banks(DramOf(o)) = Banks(DramOf(p))
                          /\ RowOf(DramOf(o)) = RowOf(DramOf(p))
                    /\ \A o, p \in touched[t] :
                          ColumnOf(DramOf(o)) = ColumnOf(DramOf(p)) => o = p
  BY DEF SameBankRow
<1>1. CASE n[t] = 0
  <2>1. touched[t] = {}
    BY <1>1 DEF IInv, Walked
  <2>2. QED
    BY <2>1
<1>2. CASE n[t] # 0
  <2>1. n[t] > 0
    BY <1>2 DEF IInv, TypeOK
  <2>2. ASSUME NEW o \in touched[t], NEW p \in touched[t]
        PROVE  /\ Banks(DramOf(o)) = Banks(DramOf(p))
               /\ RowOf(DramOf(o)) = RowOf(DramOf(p))
               /\ ColumnOf(DramOf(o)) = ColumnOf(DramOf(p)) => o = p
    <3>1. PICK k \in 0 .. req.lines - 1, m \in 0 .. req.lines - 1 :
              o = Line(Offset(ran[t]), k) /\ p = Line(Offset(ran[t]), m)
      BY <2>1, <2>2, Walking
    <3>2. /\ Banks(DramOf(Line(Offset(ran[t]), k))) = Banks(DramOf(Line(Offset(ran[t]), m)))
          /\ RowOf(DramOf(Line(Offset(ran[t]), k))) = RowOf(DramOf(Line(Offset(ran[t]), m)))
          /\ ColumnOf(DramOf(Line(Offset(ran[t]), k))) = ColumnOf(DramOf(Line(Offset(ran[t]), m)))
                => k = m
      BY <2>1, Walking, SteppedRow
    <3>3. QED
      BY <3>1, <3>2
  <2>3. QED
    BY <2>2
<1>3. QED
  BY <1>1, <1>2

\* For any mapping whose masks step columns, any number of functions, any pages hp_alloc
\* may put behind the region and any hole of whole pages: the lines of an access of modes
\* 1 and 2 are in one bank and one row of the DRAM, at different columns.
THEOREM AccessesKeepRow == Spec => []SameBankRow
<1>1. QED
  BY RandInvariant, KeptRow, PTL
=============================================================================
