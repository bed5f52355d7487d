---------------------------- MODULE NumberLemmas ----------------------------
(***************************************************************************)
(* Facts about natural numbers that the proofs of several modules need:    *)
(* the least number of a set, from which every induction of these modules  *)
(* is made (a property that fails for some number fails for a least one),  *)
(* remainders and quotients.                                               *)
(***************************************************************************)
EXTENDS Integers, WellFoundedInduction, TLAPS

\* A set of natural numbers that is not empty has a least one.
LEMMA LeastNatural ==
    ASSUME NEW T \in SUBSET Nat, T # {}
    PROVE  \E x \in T : \A y \in T : x <= y
<1> DEFINE R == OpToRel(<, Nat)
<1>1. PICK x \in T : \A y \in T : ~(<<y, x>> \in R)
  BY WFMin, NatLessThanWellFounded, Zenon
<1>2. ASSUME NEW y \in T PROVE x <= y
  <2>1. <<y, x>> \notin R
    BY <1>1, Zenon
  <2>2. y \in Nat /\ x \in Nat
    OBVIOUS
  <2>3. ~(y < x)
    BY <2>1, <2>2, Zenon DEF OpToRel
  <2> QED BY <2>2, <2>3
<1> QED BY <1>2

\* The remainder of a number that has gone round less than twice.
LEMMA ModWrap ==
    ASSUME NEW n \in Nat \ {0}, NEW x \in Nat, x < n + n
    PROVE  x % n = IF x < n THEN x ELSE x - n
OBVIOUS

\* A product with a whole number of whole numbers.
LEMMA ProductSign ==
    ASSUME NEW d \in Int, NEW n \in Nat \ {0}
    PROVE  /\ d >= 1 => d * n >= n
           /\ d <= -1 => d * n <= -n
           /\ d >= 0 => d * n >= 0
<1>1. ASSUME NEW k \in Nat PROVE k * n \in Nat
  BY <1>1
<1>2. ASSUME d >= 1 PROVE d * n >= n
  <2>1. (d - 1) * n \in Nat
    BY <1>1, <1>2
  <2>2. d * n = (d - 1) * n + n
    OBVIOUS
  <2> QED BY <2>1, <2>2
<1>3. ASSUME d <= -1 PROVE d * n <= -n
  <2>1. (-d - 1) * n \in Nat
    BY <1>1, <1>3
  <2>2. (-d - 1) * n = -(d * n) - n
    OBVIOUS
  <2>3. d * n \in Int
    OBVIOUS
  <2> QED BY <2>1, <2>2, <2>3
<1>4. ASSUME d >= 0 PROVE d * n >= 0
  BY <1>1, <1>4
<1> QED BY <1>2, <1>3, <1>4

\* A quotient and its remainder are the only such pair.
LEMMA Euclid ==
    ASSUME NEW m \in Int, NEW n \in Nat \ {0}
    PROVE  /\ m \div n \in Int /\ m % n \in 0 .. n - 1
           /\ m = (m \div n) * n + (m % n)
           /\ m >= 0 => m \div n \in Nat
           /\ \A q \in Int, r \in 0 .. n - 1 : m = q * n + r => q = m \div n /\ r = m % n
<1> DEFINE a == m \div n
           b == m % n
<1>1. a \in Int /\ b \in 0 .. n - 1 /\ m = a * n + b
  OBVIOUS
<1>2. m >= 0 => a \in Nat
  OBVIOUS
<1> HIDE DEF a, b
<1>3. ASSUME NEW q \in Int, NEW r \in 0 .. n - 1, m = q * n + r PROVE q = a /\ r = b
  <2>1. (q - a) * n = b - r
    <3>1. (q - a) * n = q * n - a * n
      BY <1>1
    <3> QED BY <1>1, <1>3, <3>1
  <2>2. ~(q - a >= 1) /\ ~(q - a <= -1)
    BY <1>1, <2>1, ProductSign
  <2>3. q = a
    BY <1>1, <2>2
  <2>4. q * n = a * n /\ q * n \in Int
    BY <1>1, <2>3
  <2>5. q * n + r = q * n + b
    BY ONLY <1>1, <1>3, <2>4
  <2> QED BY ONLY <1>1, <2>3, <2>4, <2>5, r \in 0 .. n - 1, n \in Nat \ {0}
<1> QED BY <1>1, <1>2, <1>3 DEF a, b

\* The quotient of a number below a product.
LEMMA DivBelow ==
    ASSUME NEW m \in Nat, NEW n \in Nat \ {0}, NEW k \in Int, m < k * n
    PROVE  m \div n < k
<1> DEFINE a == m \div n
<1>1. a \in Int /\ m % n \in 0 .. n - 1 /\ m = a * n + (m % n)
  BY Euclid
<1> HIDE DEF a
<1>2. ASSUME a >= k PROVE FALSE
  <2>1. (a - k) * n >= 0
    BY <1>1, <1>2, ProductSign
  <2> DEFINE x == a * n
             y == k * n
  <2>2. x \in Int /\ y \in Int /\ x - y = (a - k) * n
    BY <1>1
  <2>3. m = x + (m % n) /\ m % n >= 0 /\ m < y
    BY <1>1
  <2> HIDE DEF x, y
  <2>4. m % n \in Int
    BY <1>1
  <2> QED BY <2>1, <2>2, <2>3, <2>4
<1> QED BY <1>1, <1>2 DEF a

\* The quotient of the next number.
LEMMA DivNext ==
    ASSUME NEW m \in Int, NEW n \in Nat \ {0}
    PROVE  /\ (m + 1) \div n = IF (m + 1) % n = 0 THEN (m \div n) + 1 ELSE m \div n
           /\ (m + 1) % n = IF (m + 1) % n = 0 THEN 0 ELSE (m % n) + 1
<1> DEFINE a == m \div n
           b == m % n
<1>1. a \in Int /\ b \in 0 .. n - 1 /\ m = a * n + b
  BY Euclid
<1> HIDE DEF a, b
<1>2. CASE b = n - 1
  <2>1. m + 1 = (a + 1) * n + 0 /\ a + 1 \in Int /\ 0 \in 0 .. n - 1 /\ m + 1 \in Int
    <3>1. (a + 1) * n = a * n + n /\ a * n \in Int
      BY <1>1
    <3> QED BY <1>1, <1>2, <3>1
  <2>2. (m + 1) \div n = a + 1 /\ (m + 1) % n = 0
    BY ONLY <1>1, <2>1, n \in Nat \ {0}, Euclid
  <2> QED BY <1>2, <2>2 DEF a, b
<1>3. CASE b < n - 1
  <2>1. m + 1 = a * n + (b + 1) /\ b + 1 \in 0 .. n - 1 /\ b + 1 # 0 /\ m + 1 \in Int
    <3>1. a * n \in Int
      BY <1>1
    <3> QED BY <1>1, <1>3, <3>1
  <2>2. (m + 1) \div n = a /\ (m + 1) % n = b + 1
    <3> DEFINE r == b + 1
               l == m + 1
    <3>1. l \in Int /\ l = a * n + r /\ a \in Int /\ r \in 0 .. n - 1
      BY <1>1, <2>1
    <3> HIDE DEF r, l
    <3>2. l \div n = a /\ l % n = r
      BY ONLY <3>1, n \in Nat \ {0}, Euclid
    <3> QED BY <3>2 DEF r, l
  <2> QED BY <2>1, <2>2 DEF a, b
<1> QED BY <1>1, <1>2, <1>3

\* Zero has no quotient.
LEMMA DivZero ==
    ASSUME NEW n \in Nat \ {0}
    PROVE  0 \div n = 0 /\ 0 % n = 0
<1>1. 0 = 0 * n + 0 /\ 0 \in 0 .. n - 1
  OBVIOUS
<1> QED BY <1>1, Euclid

=============================================================================
