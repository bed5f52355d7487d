----------------------------- MODULE Alu_proof -----------------------------
(***************************************************************************)
(* Theorems about Alu, for words of every width: types, the exactness of   *)
(* sums, differences and their V and C, the branches after CMP, DIV, and   *)
(* the shifts ASH and ASHC.  The results that hold for all operands do not *)
(* need the machine at all: they are lemmas of arithmetic, and the         *)
(* invariants follow from the types of the registers.                      *)
(***************************************************************************)
EXTENDS Alu, NumberLemmas, TLAPS

-----------------------------------------------------------------------------
(* Powers of two.                                                          *)

\* Two to a natural number is positive, by the least number of which it would not be.
LEMMA PowersPositive == \A n \in 0 .. 4 * W : 2 ^ n \in Nat \ {0}
<1> DEFINE Fails == {n \in Nat : n <= 4 * W /\ 2 ^ n \notin Nat \ {0}}
<1>1. W \in Nat
  BY WordAssumption
<1>2. Fails = {}
  <2>1. SUFFICES ASSUME Fails # {} PROVE FALSE
    OBVIOUS
  <2>2. PICK n \in Fails : \A j \in Fails : n <= j
    BY <2>1, LeastNatural
  <2>3. n \in Nat /\ n <= 4 * W /\ 2 ^ n \notin Nat \ {0}
    BY <2>2
  <2>4. n # 0
    <3>1. 2 ^ 0 = 1 /\ 1 \in Nat \ {0}
      OBVIOUS
    <3> QED BY <2>3, <3>1
  <2>5. n - 1 \in 0 .. 4 * W /\ n - 1 \in Nat /\ ~(n <= n - 1) /\ (n - 1) + 1 = n
    BY <1>1, <2>3, <2>4
  <2>6. 2 ^ (n - 1) \in Nat \ {0}
    BY <2>2, <2>5
  <2>7. 2 ^ n = 2 * 2 ^ (n - 1)
    BY <2>5, PowersAssumption
  <2>8. 2 * 2 ^ (n - 1) \in Nat \ {0}
    <3> DEFINE p == 2 ^ (n - 1)
    <3>1. p \in Nat \ {0}
      BY <2>6
    <3> HIDE DEF p
    <3>2. 2 * p \in Nat \ {0}
      BY <3>1
    <3> QED BY <3>2 DEF p
  <2> QED BY <2>2, <2>7, <2>8
<1>3. \A n \in 0 .. 4 * W : n \in Nat /\ n <= 4 * W
  BY <1>1
<1> QED BY <1>2, <1>3

\* Powers multiply.
LEMMA PowerSum ==
    ASSUME NEW n \in 0 .. 2 * W, NEW m \in 0 .. 2 * W
    PROVE  2 ^ (n + m) = 2 ^ n * 2 ^ m
<1> DEFINE Fails == {k \in Nat : k <= 2 * W /\ 2 ^ (n + k) # 2 ^ n * 2 ^ k}
<1>1. W \in Nat /\ n \in Nat
  BY WordAssumption
<1>2. Fails = {}
  <2>1. SUFFICES ASSUME Fails # {} PROVE FALSE
    OBVIOUS
  <2>2. PICK k \in Fails : \A j \in Fails : k <= j
    BY <2>1, LeastNatural
  <2>3. k \in Nat /\ k <= 2 * W /\ 2 ^ (n + k) # 2 ^ n * 2 ^ k
    BY <2>2
  <2>4. k # 0
    <3>1. n \in 0 .. 4 * W
      BY <1>1
    <3>2. 2 ^ n \in Nat
      BY <3>1, PowersPositive
    <3>3. 2 ^ 0 = 1 /\ n + 0 = n
      BY <1>1
    <3>4. 2 ^ n * 1 = 2 ^ n
      BY <3>2
    <3> QED BY <2>3, <3>3, <3>4
  <2>5. k - 1 \in 0 .. 4 * W /\ k - 1 \in Nat /\ k - 1 <= 2 * W /\ ~(k <= k - 1) /\ (k - 1) + 1 = k
    BY <1>1, <2>3, <2>4
  <2>6. n + (k - 1) \in 0 .. 4 * W /\ (n + (k - 1)) + 1 = n + k /\ n \in 0 .. 4 * W
    BY <1>1, <2>3, <2>4
  <2>7. 2 ^ (n + (k - 1)) = 2 ^ n * 2 ^ (k - 1)
    BY <2>2, <2>5
  <2>8. 2 ^ (n + k) = 2 * 2 ^ (n + (k - 1)) /\ 2 ^ k = 2 * 2 ^ (k - 1)
    BY <2>5, <2>6, PowersAssumption
  <2> DEFINE a == 2 ^ n
             b == 2 ^ (k - 1)
  <2>9. a \in Nat /\ b \in Nat
    BY <2>5, <2>6, PowersPositive
  <2> HIDE DEF a, b
  <2>10. 2 * (a * b) = a * (2 * b)
    BY <2>9
  <2>11. 2 ^ (n + k) = 2 * (a * b) /\ 2 ^ n * 2 ^ k = a * (2 * b)
    BY <2>7, <2>8 DEF a, b
  <2> QED BY <2>3, <2>10, <2>11
<1>3. m \in Nat /\ m <= 2 * W
  BY <1>1
<1> QED BY <1>2, <1>3

\* The weights of the words are powers of two.
LEMMA Weights ==
    /\ W \in Nat \ {0} /\ H \in Nat \ {0} /\ Size = 2 ^ W /\ H = 2 ^ (W - 1)
    /\ DoubleSize = 2 ^ (2 * W) /\ H * Size = 2 ^ (2 * W - 1) /\ DoubleSize = 2 * (H * Size)
    /\ Size \in Nat \ {0} /\ H * Size \in Nat \ {0} /\ DoubleSize \in Nat \ {0}
<1>1. W \in Nat \ {0} /\ H \in Nat \ {0} /\ Size = 2 ^ W /\ Size = 2 * H /\ Size \in Nat \ {0}
  BY WordAssumption DEF Size
<1>2. W - 1 \in 0 .. 2 * W /\ W \in 0 .. 2 * W /\ W - 1 \in 0 .. 4 * W /\ (W - 1) + 1 = W
  BY <1>1
<1>3. 2 ^ W = 2 * 2 ^ (W - 1) /\ 2 ^ (W - 1) \in Nat
  BY <1>2, PowersPositive, PowersAssumption
<1>4. H = 2 ^ (W - 1)
  <2> DEFINE g == 2 ^ (W - 1)
  <2>1. 2 * H = 2 * g /\ g \in Nat
    BY <1>1, <1>3
  <2> HIDE DEF g
  <2>2. H = g
    BY <1>1, <2>1
  <2> QED BY <2>2 DEF g
<1>5. 2 ^ (W + W) = Size * Size /\ 2 ^ ((W - 1) + W) = H * Size
  <2>1. 2 ^ (W + W) = 2 ^ W * 2 ^ W /\ 2 ^ ((W - 1) + W) = 2 ^ (W - 1) * 2 ^ W
    BY <1>2, PowerSum
  <2> QED BY <1>1, <1>4, <2>1
<1>6. W + W = 2 * W /\ (W - 1) + W = 2 * W - 1
  BY <1>1
<1>7. Size * Size = 2 * (H * Size) /\ H * Size \in Nat \ {0} /\ Size * Size \in Nat \ {0}
  BY <1>1
<1> QED BY <1>1, <1>4, <1>5, <1>6, <1>7 DEF DoubleSize

-----------------------------------------------------------------------------
(* Words, sums and differences.                                            *)

\* What x & 0177777 leaves is a word.
LEMMA LowWord == ASSUME NEW x \in Int PROVE Low(x) \in Word
<1>1. H \in Nat /\ H > 0
  BY WordAssumption
<1>2. QED
  BY <1>1, SMT DEF Low, Word, Size

LEMMA HighWord == ASSUME NEW x \in Int PROVE High(x) \in Word
<1>1. H \in Nat /\ H > 0
  BY WordAssumption
<1>2. x \div Size \in Int
  BY <1>1, SMT DEF Size
<1>3. QED
  BY <1>1, <1>2, SMT DEF High, Word, Size

\* A sum or a difference of words comes back to a word.
LEMMA WrapWord ==
    ASSUME NEW x \in Int, 0 - Size <= x, x < 2 * Size
    PROVE  Wrap(x) \in Word
<1>1. H \in Nat /\ H > 0
  BY WordAssumption
<1>2. QED
  BY <1>1, SMT DEF Wrap, Word, Size

LEMMA SignedRange == ASSUME NEW x \in Word PROVE Signed(x) \in (0 - H) .. H - 1
<1>1. H \in Nat /\ H > 0
  BY WordAssumption
<1>2. QED
  BY <1>1, SMT DEF Signed, Neg, Word, Size

\* ADD: the values of its parts.
LEMMA AddValues ==
    ASSUME NEW s \in Word, NEW d \in Word
    PROVE  /\ Wrap(s + d) \in Word
           /\ Wrap(s + d) = Signed(s) + Signed(d) \/ Wrap(s + d) = (Signed(s) + Signed(d)) + Size \/ Wrap(s + d) = (Signed(s) + Signed(d)) - Size
           /\ (Neg(s) = Neg(d) /\ Neg(s) # Neg(Wrap(s + d))) <=> Signed(s) + Signed(d) \notin (0 - H) .. H - 1
           /\ Neg(Wrap(s + d)) <=> Signed(Wrap(s + d)) < 0
           /\ (s + d >= Size) <=> s + d \notin Word
<1>1. H \in Nat /\ H > 0
  BY WordAssumption
<1>2. QED
  BY <1>1, SMTT(60) DEF Wrap, Signed, Neg, Bit, Word, Size

LEMMA AddExact ==
    ASSUME NEW s \in Word, NEW d \in Word
    PROVE  SignedExact(Add(s, d), Signed(s) + Signed(d)) /\ CarryExact(Add(s, d), s + d)
<1> DEFINE x == Wrap(s + d)
           v == Neg(s) = Neg(d) /\ Neg(s) # Neg(Wrap(s + d))
           c0 == s + d >= Size
           y == Signed(s) + Signed(d)
           u == s + d
<1>1. Add(s, d) = Result(x, v, c0)
  BY DEF Add
<1>2. x \in Word /\ (x = y \/ x = y + Size \/ x = y - Size) /\ (Neg(x) <=> Signed(x) < 0)
  BY AddValues
<1>3. v <=> y \notin (0 - H) .. H - 1
  BY AddValues, Zenon
<1>4. c0 <=> u \notin Word
  BY AddValues, Zenon
<1> HIDE DEF x, v, c0, y, u
<1>5. SignedExact(Result(x, v, c0), y) /\ CarryExact(Result(x, v, c0), u)
  BY <1>2, <1>3, <1>4, Zenon DEF SignedExact, CarryExact, Result
<1>6. QED
  BY <1>1, <1>5 DEF y, u

\* SUB: the values of its parts.
LEMMA SubtractValues ==
    ASSUME NEW s \in Word, NEW d \in Word
    PROVE  /\ Wrap(d + (Size - 1 - s) + 1) \in Word
           /\ Wrap(d + (Size - 1 - s) + 1) = Signed(d) - Signed(s) \/ Wrap(d + (Size - 1 - s) + 1) = (Signed(d) - Signed(s)) + Size \/ Wrap(d + (Size - 1 - s) + 1) = (Signed(d) - Signed(s)) - Size
           /\ (Neg(s) # Neg(d) /\ Neg(s) = Neg(Wrap(d + (Size - 1 - s) + 1))) <=> Signed(d) - Signed(s) \notin (0 - H) .. H - 1
           /\ Neg(Wrap(d + (Size - 1 - s) + 1)) <=> Signed(Wrap(d + (Size - 1 - s) + 1)) < 0
           /\ (~(d + (Size - 1 - s) + 1 >= Size)) <=> d - s \notin Word
<1>1. H \in Nat /\ H > 0
  BY WordAssumption
<1>2. QED
  BY <1>1, SMTT(60) DEF Wrap, Signed, Neg, Bit, Word, Size

LEMMA SubtractExact ==
    ASSUME NEW s \in Word, NEW d \in Word
    PROVE  SignedExact(Subtract(s, d), Signed(d) - Signed(s)) /\ CarryExact(Subtract(s, d), d - s)
<1> DEFINE x == Wrap(d + (Size - 1 - s) + 1)
           v == Neg(s) # Neg(d) /\ Neg(s) = Neg(Wrap(d + (Size - 1 - s) + 1))
           c0 == ~(d + (Size - 1 - s) + 1 >= Size)
           y == Signed(d) - Signed(s)
           u == d - s
<1>1. Subtract(s, d) = Result(x, v, c0)
  BY DEF Subtract
<1>2. x \in Word /\ (x = y \/ x = y + Size \/ x = y - Size) /\ (Neg(x) <=> Signed(x) < 0)
  BY SubtractValues
<1>3. v <=> y \notin (0 - H) .. H - 1
  BY SubtractValues, Zenon
<1>4. c0 <=> u \notin Word
  BY SubtractValues, Zenon
<1> HIDE DEF x, v, c0, y, u
<1>5. SignedExact(Result(x, v, c0), y) /\ CarryExact(Result(x, v, c0), u)
  BY <1>2, <1>3, <1>4, Zenon DEF SignedExact, CarryExact, Result
<1>6. QED
  BY <1>1, <1>5 DEF y, u

\* CMP: the values of its parts.
LEMMA CompareValues ==
    ASSUME NEW s \in Word, NEW d \in Word
    PROVE  /\ Wrap(s + (Size - 1 - d) + 1) \in Word
           /\ Wrap(s + (Size - 1 - d) + 1) = Signed(s) - Signed(d) \/ Wrap(s + (Size - 1 - d) + 1) = (Signed(s) - Signed(d)) + Size \/ Wrap(s + (Size - 1 - d) + 1) = (Signed(s) - Signed(d)) - Size
           /\ (Neg(s) # Neg(d) /\ Neg(d) = Neg(Wrap(s + (Size - 1 - d) + 1))) <=> Signed(s) - Signed(d) \notin (0 - H) .. H - 1
           /\ Neg(Wrap(s + (Size - 1 - d) + 1)) <=> Signed(Wrap(s + (Size - 1 - d) + 1)) < 0
           /\ (~(s + (Size - 1 - d) + 1 >= Size)) <=> s - d \notin Word
<1>1. H \in Nat /\ H > 0
  BY WordAssumption
<1>2. QED
  BY <1>1, SMTT(60) DEF Wrap, Signed, Neg, Bit, Word, Size

LEMMA CompareExact ==
    ASSUME NEW s \in Word, NEW d \in Word
    PROVE  SignedExact(Compare(s, d), Signed(s) - Signed(d)) /\ CarryExact(Compare(s, d), s - d)
<1> DEFINE x == Wrap(s + (Size - 1 - d) + 1)
           v == Neg(s) # Neg(d) /\ Neg(d) = Neg(Wrap(s + (Size - 1 - d) + 1))
           c0 == ~(s + (Size - 1 - d) + 1 >= Size)
           y == Signed(s) - Signed(d)
           u == s - d
<1>1. Compare(s, d) = Result(x, v, c0)
  BY DEF Compare
<1>2. x \in Word /\ (x = y \/ x = y + Size \/ x = y - Size) /\ (Neg(x) <=> Signed(x) < 0)
  BY CompareValues
<1>3. v <=> y \notin (0 - H) .. H - 1
  BY CompareValues, Zenon
<1>4. c0 <=> u \notin Word
  BY CompareValues, Zenon
<1> HIDE DEF x, v, c0, y, u
<1>5. SignedExact(Result(x, v, c0), y) /\ CarryExact(Result(x, v, c0), u)
  BY <1>2, <1>3, <1>4, Zenon DEF SignedExact, CarryExact, Result
<1>6. QED
  BY <1>1, <1>5 DEF y, u

\* NEG: the values of its parts.
LEMMA NegateValues ==
    ASSUME NEW d \in Word
    PROVE  /\ Wrap(Size - 1 - d + 1) \in Word
           /\ Wrap(Size - 1 - d + 1) = 0 - Signed(d) \/ Wrap(Size - 1 - d + 1) = (0 - Signed(d)) + Size \/ Wrap(Size - 1 - d + 1) = (0 - Signed(d)) - Size
           /\ (Wrap(Size - 1 - d + 1) = H) <=> 0 - Signed(d) \notin (0 - H) .. H - 1
           /\ Neg(Wrap(Size - 1 - d + 1)) <=> Signed(Wrap(Size - 1 - d + 1)) < 0
           /\ (Wrap(Size - 1 - d + 1) # 0) <=> 0 - d \notin Word
<1>1. H \in Nat /\ H > 0
  BY WordAssumption
<1>2. QED
  BY <1>1, SMTT(60) DEF Wrap, Signed, Neg, Bit, Word, Size

LEMMA NegateExact ==
    ASSUME NEW d \in Word
    PROVE  SignedExact(Negate(d), 0 - Signed(d)) /\ CarryExact(Negate(d), 0 - d)
<1> DEFINE x == Wrap(Size - 1 - d + 1)
           v == Wrap(Size - 1 - d + 1) = H
           c0 == Wrap(Size - 1 - d + 1) # 0
           y == 0 - Signed(d)
           u == 0 - d
<1>1. Negate(d) = Result(x, v, c0)
  BY DEF Negate
<1>2. x \in Word /\ (x = y \/ x = y + Size \/ x = y - Size) /\ (Neg(x) <=> Signed(x) < 0)
  BY NegateValues
<1>3. v <=> y \notin (0 - H) .. H - 1
  BY NegateValues, Zenon
<1>4. c0 <=> u \notin Word
  BY NegateValues, Zenon
<1> HIDE DEF x, v, c0, y, u
<1>5. SignedExact(Result(x, v, c0), y) /\ CarryExact(Result(x, v, c0), u)
  BY <1>2, <1>3, <1>4, Zenon DEF SignedExact, CarryExact, Result
<1>6. QED
  BY <1>1, <1>5 DEF y, u

\* INC: the values of its parts.
LEMMA IncrementValues ==
    ASSUME NEW d \in Word, NEW c \in BOOLEAN
    PROVE  /\ Wrap(d + 1) \in Word
           /\ Wrap(d + 1) = Signed(d) + 1 \/ Wrap(d + 1) = (Signed(d) + 1) + Size \/ Wrap(d + 1) = (Signed(d) + 1) - Size
           /\ (d = H - 1) <=> Signed(d) + 1 \notin (0 - H) .. H - 1
           /\ Neg(Wrap(d + 1)) <=> Signed(Wrap(d + 1)) < 0
<1>1. H \in Nat /\ H > 0
  BY WordAssumption
<1>2. QED
  BY <1>1, SMTT(60) DEF Wrap, Signed, Neg, Bit, Word, Size

LEMMA IncrementExact ==
    ASSUME NEW d \in Word, NEW c \in BOOLEAN
    PROVE  SignedExact(Increment(d, c), Signed(d) + 1)
<1> DEFINE x == Wrap(d + 1)
           v == d = H - 1
           c0 == c
           y == Signed(d) + 1
<1>1. Increment(d, c) = Result(x, v, c0)
  BY DEF Increment
<1>2. x \in Word /\ (x = y \/ x = y + Size \/ x = y - Size) /\ (Neg(x) <=> Signed(x) < 0)
  BY IncrementValues
<1>3. v <=> y \notin (0 - H) .. H - 1
  BY IncrementValues, Zenon
<1> HIDE DEF x, v, c0, y
<1>4. SignedExact(Result(x, v, c0), y)
  BY <1>2, <1>3, Zenon DEF SignedExact, Result
<1>5. QED
  BY <1>1, <1>4 DEF y

\* DEC: the values of its parts.
LEMMA DecrementValues ==
    ASSUME NEW d \in Word, NEW c \in BOOLEAN
    PROVE  /\ Wrap(d - 1) \in Word
           /\ Wrap(d - 1) = Signed(d) - 1 \/ Wrap(d - 1) = (Signed(d) - 1) + Size \/ Wrap(d - 1) = (Signed(d) - 1) - Size
           /\ (d = H) <=> Signed(d) - 1 \notin (0 - H) .. H - 1
           /\ Neg(Wrap(d - 1)) <=> Signed(Wrap(d - 1)) < 0
<1>1. H \in Nat /\ H > 0
  BY WordAssumption
<1>2. QED
  BY <1>1, SMTT(60) DEF Wrap, Signed, Neg, Bit, Word, Size

LEMMA DecrementExact ==
    ASSUME NEW d \in Word, NEW c \in BOOLEAN
    PROVE  SignedExact(Decrement(d, c), Signed(d) - 1)
<1> DEFINE x == Wrap(d - 1)
           v == d = H
           c0 == c
           y == Signed(d) - 1
<1>1. Decrement(d, c) = Result(x, v, c0)
  BY DEF Decrement
<1>2. x \in Word /\ (x = y \/ x = y + Size \/ x = y - Size) /\ (Neg(x) <=> Signed(x) < 0)
  BY DecrementValues
<1>3. v <=> y \notin (0 - H) .. H - 1
  BY DecrementValues, Zenon
<1> HIDE DEF x, v, c0, y
<1>4. SignedExact(Result(x, v, c0), y)
  BY <1>2, <1>3, Zenon DEF SignedExact, Result
<1>5. QED
  BY <1>1, <1>4 DEF y

\* ADC: the values of its parts.
LEMMA AddCarryValues ==
    ASSUME NEW d \in Word, NEW c \in BOOLEAN
    PROVE  /\ (IF c THEN Wrap(d + 1) ELSE d) \in Word
           /\ (IF c THEN Wrap(d + 1) ELSE d) = Signed(d) + Bit(c) \/ (IF c THEN Wrap(d + 1) ELSE d) = (Signed(d) + Bit(c)) + Size \/ (IF c THEN Wrap(d + 1) ELSE d) = (Signed(d) + Bit(c)) - Size
           /\ (c /\ d = H - 1) <=> Signed(d) + Bit(c) \notin (0 - H) .. H - 1
           /\ Neg((IF c THEN Wrap(d + 1) ELSE d)) <=> Signed((IF c THEN Wrap(d + 1) ELSE d)) < 0
           /\ (c /\ d = Size - 1) <=> d + Bit(c) \notin Word
<1>1. H \in Nat /\ H > 0
  BY WordAssumption
<1>2. QED
  BY <1>1, SMTT(60) DEF Wrap, Signed, Neg, Bit, Word, Size

LEMMA AddCarryExact ==
    ASSUME NEW d \in Word, NEW c \in BOOLEAN
    PROVE  SignedExact(AddCarry(d, c), Signed(d) + Bit(c)) /\ CarryExact(AddCarry(d, c), d + Bit(c))
<1> DEFINE x == (IF c THEN Wrap(d + 1) ELSE d)
           v == c /\ d = H - 1
           c0 == c /\ d = Size - 1
           y == Signed(d) + Bit(c)
           u == d + Bit(c)
<1>1. AddCarry(d, c) = Result(x, v, c0)
  BY DEF AddCarry
<1>2. x \in Word /\ (x = y \/ x = y + Size \/ x = y - Size) /\ (Neg(x) <=> Signed(x) < 0)
  BY AddCarryValues
<1>3. v <=> y \notin (0 - H) .. H - 1
  BY AddCarryValues, Zenon
<1>4. c0 <=> u \notin Word
  BY AddCarryValues, Zenon
<1> HIDE DEF x, v, c0, y, u
<1>5. SignedExact(Result(x, v, c0), y) /\ CarryExact(Result(x, v, c0), u)
  BY <1>2, <1>3, <1>4, Zenon DEF SignedExact, CarryExact, Result
<1>6. QED
  BY <1>1, <1>5 DEF y, u

\* SBC: the values of its parts.
LEMMA SubtractCarryValues ==
    ASSUME NEW d \in Word, NEW c \in BOOLEAN
    PROVE  /\ (IF c THEN Wrap(d - 1) ELSE d) \in Word
           /\ (IF c THEN Wrap(d - 1) ELSE d) = Signed(d) - Bit(c) \/ (IF c THEN Wrap(d - 1) ELSE d) = (Signed(d) - Bit(c)) + Size \/ (IF c THEN Wrap(d - 1) ELSE d) = (Signed(d) - Bit(c)) - Size
           /\ (c /\ d = H) <=> Signed(d) - Bit(c) \notin (0 - H) .. H - 1
           /\ Neg((IF c THEN Wrap(d - 1) ELSE d)) <=> Signed((IF c THEN Wrap(d - 1) ELSE d)) < 0
           /\ (c /\ d = 0) <=> d - Bit(c) \notin Word
<1>1. H \in Nat /\ H > 0
  BY WordAssumption
<1>2. QED
  BY <1>1, SMTT(60) DEF Wrap, Signed, Neg, Bit, Word, Size

LEMMA SubtractCarryExact ==
    ASSUME NEW d \in Word, NEW c \in BOOLEAN
    PROVE  SignedExact(SubtractCarry(d, c), Signed(d) - Bit(c)) /\ CarryExact(SubtractCarry(d, c), d - Bit(c))
<1> DEFINE x == (IF c THEN Wrap(d - 1) ELSE d)
           v == c /\ d = H
           c0 == c /\ d = 0
           y == Signed(d) - Bit(c)
           u == d - Bit(c)
<1>1. SubtractCarry(d, c) = Result(x, v, c0)
  BY DEF SubtractCarry
<1>2. x \in Word /\ (x = y \/ x = y + Size \/ x = y - Size) /\ (Neg(x) <=> Signed(x) < 0)
  BY SubtractCarryValues
<1>3. v <=> y \notin (0 - H) .. H - 1
  BY SubtractCarryValues, Zenon
<1>4. c0 <=> u \notin Word
  BY SubtractCarryValues, Zenon
<1> HIDE DEF x, v, c0, y, u
<1>5. SignedExact(Result(x, v, c0), y) /\ CarryExact(Result(x, v, c0), u)
  BY <1>2, <1>3, <1>4, Zenon DEF SignedExact, CarryExact, Result
<1>6. QED
  BY <1>1, <1>5 DEF y, u

\* The codes of CMP, and what the branches make of them.
LEMMA CompareCodes ==
    ASSUME NEW s \in Word, NEW d \in Word
    PROVE  /\ Compare(s, d).cc.n = Neg(Wrap(s + (Size - 1 - d) + 1))
           /\ Compare(s, d).cc.z = (Wrap(s + (Size - 1 - d) + 1) = 0)
           /\ Compare(s, d).cc.v = (Neg(s) # Neg(d) /\ Neg(d) = Neg(Wrap(s + (Size - 1 - d) + 1)))
           /\ Compare(s, d).cc.c = (~(s + (Size - 1 - d) + 1 >= Size))
  BY Zenon DEF Compare, Result

LEMMA CompareOrder ==
    ASSUME NEW s \in Word, NEW d \in Word, NEW k, k = Compare(s, d).cc
    PROVE  /\ (BGE(k) <=> Signed(s) >= Signed(d)) /\ (BLT(k) <=> Signed(s) < Signed(d))
           /\ (BGT(k) <=> Signed(s) > Signed(d)) /\ (BLE(k) <=> Signed(s) <= Signed(d))
           /\ (BHI(k) <=> s > d) /\ (BLOS(k) <=> s <= d)
           /\ (BHIS(k) <=> s >= d) /\ (BLO(k) <=> s < d) /\ (BEQ(k) <=> s = d)
<1>0. H \in Nat /\ H > 0
  BY WordAssumption
<1> DEFINE n == Neg(Wrap(s + (Size - 1 - d) + 1))
           z == Wrap(s + (Size - 1 - d) + 1) = 0
           v == Neg(s) # Neg(d) /\ Neg(d) = n
           c == ~(s + (Size - 1 - d) + 1 >= Size)
<1>1. k.n = n /\ k.z = z /\ k.v = v /\ k.c = c
  BY CompareCodes, Zenon
<1>2. /\ (n <=> v) <=> Signed(s) >= Signed(d)
      /\ z <=> s = d
      /\ z <=> Signed(s) = Signed(d)
      /\ c <=> s < d
  BY <1>0, SMTT(60) DEF Wrap, Signed, Neg, Word, Size
<1>6. n \in BOOLEAN /\ z \in BOOLEAN /\ v \in BOOLEAN /\ c \in BOOLEAN
  BY DEF Neg
<1> HIDE DEF n, z, v, c
<1>3. s \in Int /\ d \in Int /\ Signed(s) \in Int /\ Signed(d) \in Int
  BY <1>0, SignedRange DEF Word, Size
<1>4. /\ BGE(k) <=> (n <=> v)
      /\ BLT(k) <=> ~(n <=> v)
      /\ BGT(k) <=> (n <=> v) /\ ~z
      /\ BLE(k) <=> (~(n <=> v) \/ z)
      /\ BHI(k) <=> (~c /\ ~z)
      /\ BLOS(k) <=> (c \/ z)
      /\ BHIS(k) <=> ~c
      /\ BLO(k) <=> c
      /\ BEQ(k) <=> z
  BY <1>1, <1>6 DEF BGE, BLT, BGT, BLE, BHI, BLOS, BHIS, BLO, BEQ
<1>5. QED
  BY <1>2, <1>3, <1>4, SMT

\* Word and codes of every result are a word and codes.
LEMMA ResultType ==
    ASSUME NEW x \in Word, NEW v \in BOOLEAN, NEW c \in BOOLEAN
    PROVE  Result(x, v, c).x \in Word /\ Result(x, v, c).cc \in Codes
  BY DEF Result, Codes, Neg

\* A word shifted left, as a number less than twice Size.
LEMMA LowDouble ==
    ASSUME NEW x \in Word
    PROVE  Low(2 * x) \in Word /\ Low(2 * x) + 1 \in Word
<1>1. H \in Nat /\ H > 0
  BY WordAssumption
<1>2. Low(2 * x) = IF x >= H THEN 2 * x - Size ELSE 2 * x
  BY <1>1, SMT DEF Low, Word, Size
<1>3. QED
  BY <1>1, <1>2, SMT DEF Word, Size

LEMMA HalfWord ==
    ASSUME NEW x \in Word
    PROVE  x \div 2 \in Word /\ (x \div 2) + H \in Word
<1>1. H \in Nat /\ H > 0
  BY WordAssumption
<1>2. QED
  BY <1>1, SMT DEF Word, Size

LEMMA EndWords == 0 \in Word /\ Size - 1 \in Word /\ \A x \in Word : Size - 1 - x \in Word
<1>1. H \in Nat /\ H > 0
  BY WordAssumption
<1>2. QED
  BY <1>1, SMT DEF Word, Size

\* The single-word instructions store a word and codes.
TypeOf(result) == result.x \in Word /\ result.cc \in Codes

LEMMA SumType ==
    ASSUME NEW s \in Word, NEW d \in Word, NEW c \in BOOLEAN
    PROVE  /\ TypeOf(Add(s, d)) /\ TypeOf(Subtract(s, d)) /\ TypeOf(Compare(s, d))
           /\ TypeOf(Negate(d)) /\ TypeOf(Increment(d, c)) /\ TypeOf(Decrement(d, c))
           /\ TypeOf(AddCarry(d, c)) /\ TypeOf(SubtractCarry(d, c))
           /\ TypeOf(Complement(d)) /\ TypeOf(Test(d)) /\ TypeOf(Move(d, c))
<1>1. TypeOf(Add(s, d))
  <2> DEFINE x == Wrap(s + d)
             v == Neg(s) = Neg(d) /\ Neg(s) # Neg(Wrap(s + d))
             k == s + d >= Size
  <2>1. x \in Word /\ v \in BOOLEAN /\ k \in BOOLEAN
    BY AddValues
  <2>2. Add(s, d) = Result(x, v, k)
    BY DEF Add
  <2> HIDE DEF x, v, k
  <2>3. QED
    BY <2>1, <2>2, ResultType, Zenon DEF TypeOf
<1>6. TypeOf(Subtract(s, d))
  <2> DEFINE x == Wrap(d + (Size - 1 - s) + 1)
             v == Neg(s) # Neg(d) /\ Neg(s) = Neg(Wrap(d + (Size - 1 - s) + 1))
             k == ~(d + (Size - 1 - s) + 1 >= Size)
  <2>1. x \in Word /\ v \in BOOLEAN /\ k \in BOOLEAN
    BY SubtractValues
  <2>2. Subtract(s, d) = Result(x, v, k)
    BY DEF Subtract
  <2> HIDE DEF x, v, k
  <2>3. QED
    BY <2>1, <2>2, ResultType, Zenon DEF TypeOf
<1>7. TypeOf(Compare(s, d))
  <2> DEFINE x == Wrap(s + (Size - 1 - d) + 1)
             v == Neg(s) # Neg(d) /\ Neg(d) = Neg(Wrap(s + (Size - 1 - d) + 1))
             k == ~(s + (Size - 1 - d) + 1 >= Size)
  <2>1. x \in Word /\ v \in BOOLEAN /\ k \in BOOLEAN
    BY CompareValues
  <2>2. Compare(s, d) = Result(x, v, k)
    BY DEF Compare
  <2> HIDE DEF x, v, k
  <2>3. QED
    BY <2>1, <2>2, ResultType, Zenon DEF TypeOf
<1>2. TypeOf(Negate(d)) /\ TypeOf(Increment(d, c)) /\ TypeOf(Decrement(d, c))
  BY NegateValues, IncrementValues, DecrementValues, ResultType, Zenon
     DEF Negate, Increment, Decrement, TypeOf
<1>3. TypeOf(AddCarry(d, c)) /\ TypeOf(SubtractCarry(d, c))
  BY AddCarryValues, SubtractCarryValues, ResultType, Zenon DEF AddCarry, SubtractCarry, TypeOf
<1>4. TypeOf(Complement(d)) /\ TypeOf(Test(d)) /\ TypeOf(Move(d, c))
  BY EndWords, ResultType, Zenon DEF Complement, Test, Move, TypeOf
<1>5. QED
  BY <1>1, <1>2, <1>3, <1>4, <1>6, <1>7

LEMMA ShiftType ==
    ASSUME NEW d \in Word, NEW c \in BOOLEAN
    PROVE  /\ TypeOf(ShiftRight(d)) /\ TypeOf(ShiftLeft(d))
           /\ TypeOf(RotateRight(d, c)) /\ TypeOf(RotateLeft(d, c))
<1>1. \A x \in Word, b \in BOOLEAN : TypeOf(Shifted(x, b))
  BY ResultType, Zenon DEF Shifted, TypeOf
<1>2. TypeOf(ShiftRight(d)) /\ TypeOf(RotateRight(d, c))
  <2>1. (d \div 2) + (IF Neg(d) THEN H ELSE 0) \in Word /\ (d \div 2) + (IF c THEN H ELSE 0) \in Word
    <3>1. \A b \in BOOLEAN : (d \div 2) + (IF b THEN H ELSE 0) \in Word
      <4>1. d \div 2 \in Word /\ (d \div 2) + H \in Word
        BY HalfWord
      <4>2. (d \div 2) + 0 = d \div 2
        BY <4>1 DEF Word
      <4>3. QED
        BY <4>1, <4>2, Zenon
    <3>2. QED
      BY <3>1, Zenon DEF Neg
  <2>2. QED
    BY <1>1, <2>1, Zenon DEF ShiftRight, RotateRight
<1>3. TypeOf(ShiftLeft(d)) /\ TypeOf(RotateLeft(d, c))
  <2>1. Low(2 * d) \in Word /\ Low(2 * d) + Bit(c) \in Word
    BY LowDouble DEF Bit, Word
  <2>2. Neg(d) \in BOOLEAN
    BY DEF Neg
  <2>3. QED
    BY <1>1, <2>1, <2>2, Zenon DEF ShiftLeft, RotateLeft
<1>4. QED
  BY <1>2, <1>3

LEMMA ExtendType ==
    ASSUME NEW codes \in Codes PROVE TypeOf(SignExtend(codes))
  BY EndWords DEF SignExtend, TypeOf, Codes

\* ASH: whatever is shifted in, x & 0177777 is a word.
LEMMA ShiftWordType ==
    ASSUME NEW d \in Word, NEW count \in Counts PROVE TypeOf(ShiftWord(d, count))
<1>1. \A x \in Word, v \in BOOLEAN, c \in BOOLEAN : TypeOf(Result(x, v, c))
  BY ResultType, Zenon DEF TypeOf
<1>2. W \in Nat /\ d \in Int /\ Signed(d) \in Int /\ count \in Int /\ count >= 0 /\ count < 4 * W
  BY WordAssumption, SignedRange DEF Word, Size, Counts
<1>3. CASE count \in 1 .. W - 1
  <2>1. 2 ^ count \in Int
    BY <1>2, PowersPositive
  <2>2. Low(d * 2 ^ count) \in Word
    BY <1>2, <2>1, LowWord
  <2>3. count # 0 /\ count \notin W .. 2 * W - 1 /\ count # 2 * W
    BY <1>2, <1>3
  <2>4. QED
    BY <1>1, <1>3, <2>2, <2>3, Zenon DEF ShiftWord
<1>4. CASE count \notin 0 .. 2 * W
  <2>1. 4 * W - count \in 0 .. 4 * W
    BY <1>2
  <2>2. 2 ^ Right(count) \in Nat \ {0}
    BY <2>1, PowersPositive DEF Right
  <2>3. Signed(d) \div 2 ^ Right(count) \in Int
    BY <1>2, <2>2, SMT
  <2>4. Low(Signed(d) \div 2 ^ Right(count)) \in Word
    BY <2>3, LowWord
  <2>5. count # 0 /\ count \notin 1 .. W - 1 /\ count \notin W .. 2 * W - 1 /\ count # 2 * W
    BY <1>2, <1>4
  <2>6. QED
    BY <1>1, <2>4, <2>5, Zenon DEF ShiftWord, LastOut
<1>5. CASE count = 0
  <2>1. count \notin 1 .. W - 1 /\ count \notin W .. 2 * W - 1 /\ count # 2 * W
    BY <1>5, WordAssumption
  <2>2. QED
    BY <1>1, <1>5, <2>1, Zenon DEF ShiftWord
<1>6. CASE count \in W .. 2 * W - 1
  <2>1. count # 0 /\ count \notin 1 .. W - 1 /\ count # 2 * W
    BY <1>6, WordAssumption
  <2>2. QED
    BY <1>1, <1>6, <2>1, EndWords, Zenon DEF ShiftWord
<1>7. CASE count = 2 * W
  <2>1. count # 0 /\ count \notin 1 .. W - 1 /\ count \notin W .. 2 * W - 1
    BY <1>7, WordAssumption
  <2>2. Neg(d) \in BOOLEAN
    BY DEF Neg
  <2>3. QED
    BY <1>1, <1>7, <2>1, <2>2, EndWords, Zenon DEF ShiftWord
<1>8. QED
  BY <1>2, <1>3, <1>4, <1>5, <1>6, <1>7

-----------------------------------------------------------------------------
(* MUL, DIV and ASHC: a pair of words.                                     *)

LEMMA PairType ==
    ASSUME NEW odd \in BOOLEAN, NEW high \in Word, NEW low \in Word
    PROVE  Pair(odd, high, low) \in [Reg -> Word]
  BY DEF Pair, Reg

LEMMA LowType ==
    ASSUME NEW x \in [Reg -> Word], NEW low \in Word
    PROVE  [x EXCEPT ![1] = low] \in [Reg -> Word]
  BY DEF Reg

LEMMA StoreType ==
    ASSUME NEW odd \in BOOLEAN, NEW x \in [Reg -> Word], NEW high \in Word, NEW low \in Word, NEW y,
           y = IF odd THEN [x EXCEPT ![1] = low] ELSE Pair(FALSE, high, low)
    PROVE  y \in [Reg -> Word]
<1>1. [x EXCEPT ![1] = low] \in [Reg -> Word]
  BY LowType
<1>2. Pair(FALSE, high, low) \in [Reg -> Word]
  BY PairType
<1>3. QED
  BY <1>1, <1>2

LEMMA CodesType ==
    ASSUME NEW n \in BOOLEAN, NEW z \in BOOLEAN, NEW v \in BOOLEAN, NEW c \in BOOLEAN
    PROVE  [n |-> n, z |-> z, v |-> v, c |-> c] \in Codes
  BY DEF Codes

LEMMA UpperWord ==
    ASSUME NEW odd \in BOOLEAN, NEW x \in [Reg -> Word]
    PROVE  Upper(odd, x) \in Word /\ x[1] \in Word
  BY DEF Upper, Reg

LEMMA MultiplyType ==
    ASSUME NEW odd \in BOOLEAN, NEW x \in [Reg -> Word], NEW s \in Word
    PROVE  Multiply(odd, x, s).r \in [Reg -> Word] /\ Multiply(odd, x, s).cc \in Codes
<1> DEFINE product == Signed(Upper(odd, x)) * Signed(s)
<1>1. product \in Int
  <2>1. Signed(Upper(odd, x)) \in Int /\ Signed(s) \in Int
    BY UpperWord, SignedRange, WordAssumption
  <2>2. QED
    BY <2>1, SMT
<1>2. High(product) \in Word /\ Low(product) \in Word
  BY <1>1, HighWord, LowWord
<1>3. /\ Multiply(odd, x, s).r = IF odd THEN [x EXCEPT ![1] = Low(product)]
                                 ELSE Pair(FALSE, High(product), Low(product))
      /\ Multiply(odd, x, s).cc = [n |-> product < 0, z |-> product = 0, v |-> FALSE,
                                   c |-> product > H - 1 \/ product < 0 - H]
  BY Zenon DEF Multiply
<1> HIDE DEF product
<1>4. Multiply(odd, x, s).r \in [Reg -> Word]
  <2> DEFINE high == High(product)
             low == Low(product)
  <2>1. high \in Word /\ low \in Word
    BY <1>2
  <2>2. Multiply(odd, x, s).r = IF odd THEN [x EXCEPT ![1] = low] ELSE Pair(FALSE, high, low)
    BY <1>3
  <2> HIDE DEF high, low
  <2>3. QED
    BY <2>1, <2>2, StoreType, Zenon
<1>5. Multiply(odd, x, s).cc \in Codes
  <2>1. (product < 0) \in BOOLEAN /\ (product > H - 1 \/ product < 0 - H) \in BOOLEAN
    OBVIOUS
  <2>2. QED
    BY <1>3, <2>1, CodesType, Zenon
<1>6. QED
  BY <1>4, <1>5

LEMMA QuotientInt ==
    ASSUME NEW a \in Int, NEW b \in Int, b # 0
    PROVE  Quotient(a, b) \in Int
<1>1. Magnitude(a) \in Int /\ Magnitude(b) \in Int /\ Magnitude(b) > 0
  BY SMT DEF Magnitude
<1>2. Magnitude(a) \div Magnitude(b) \in Int
  BY <1>1, SMT
<1>3. QED
  BY <1>2, SMT DEF Quotient

LEMMA DivideType ==
    ASSUME NEW odd \in BOOLEAN, NEW x \in [Reg -> Word], NEW s \in Word
    PROVE  Divide(odd, x, s).r \in [Reg -> Word] /\ Divide(odd, x, s).cc \in Codes
<1> DEFINE dividend == SignedDouble(Upper(odd, x), x[1])
           divisor == Signed(s)
           quotient == IF divisor = 0 THEN 0 ELSE Quotient(dividend, divisor)
           rest == dividend - divisor * quotient
           keep(n, z, c) == [r |-> x, cc |-> [n |-> n, z |-> z, v |-> TRUE, c |-> c]]
           done == [r |-> IF odd THEN [x EXCEPT ![1] = Low(rest)]
                          ELSE Pair(FALSE, Low(quotient), Low(rest)),
                    cc |-> [n |-> quotient < 0, z |-> quotient = 0, v |-> FALSE, c |-> FALSE]]
<1>1. dividend \in Int /\ divisor \in Int
  <2>1. Signed(Upper(odd, x)) \in Int /\ Signed(s) \in Int /\ x[1] \in Int /\ Size \in Int
    BY UpperWord, SignedRange, WordAssumption DEF Word, Size
  <2>2. QED
    BY <2>1, SMT DEF SignedDouble
<1>2. quotient \in Int
  BY <1>1, QuotientInt, Zenon
<1>3. Low(quotient) \in Word /\ Low(rest) \in Word
  BY <1>1, <1>2, LowWord
<1>4. \/ Divide(odd, x, s) = keep(FALSE, TRUE, TRUE)
      \/ Divide(odd, x, s) = keep(FALSE, FALSE, FALSE)
      \/ Divide(odd, x, s) = keep(quotient < 0, FALSE, FALSE)
      \/ Divide(odd, x, s) = done
  BY Zenon DEF Divide
<1> HIDE DEF dividend, divisor, quotient, rest
<1>5. \A n, z, c \in BOOLEAN : keep(n, z, c).r \in [Reg -> Word] /\ keep(n, z, c).cc \in Codes
  BY DEF Codes
<1>6. done.r \in [Reg -> Word] /\ done.cc \in Codes
  <2>1. done.r = IF odd THEN [x EXCEPT ![1] = Low(rest)] ELSE Pair(FALSE, Low(quotient), Low(rest))
    BY Zenon
  <2>2. done.cc = [n |-> quotient < 0, z |-> quotient = 0, v |-> FALSE, c |-> FALSE]
    BY Zenon
  <2>3. (quotient < 0) \in BOOLEAN
    BY <1>2, SMT
  <2>4. done.r \in [Reg -> Word]
    <3> DEFINE high == Low(quotient)
               low == Low(rest)
    <3>1. high \in Word /\ low \in Word
      BY <1>3
    <3>2. done.r = IF odd THEN [x EXCEPT ![1] = low] ELSE Pair(FALSE, high, low)
      BY <2>1
    <3> HIDE DEF high, low, done
    <3>3. QED
      BY <3>1, <3>2, StoreType, Zenon
  <2> HIDE DEF done
  <2>5. done.cc \in Codes
    BY <2>2, <2>3, CodesType, Zenon
  <2>6. QED
    BY <2>4, <2>5
<1>7. (quotient < 0) \in BOOLEAN
  BY <1>2, SMT
<1> HIDE DEF keep, done
<1>8. QED
  BY <1>4, <1>5, <1>6, <1>7, Zenon

LEMMA ShiftDoubleType ==
    ASSUME NEW high \in Word, NEW low \in Word, NEW count \in Counts
    PROVE  ShiftDouble(high, low, count).x \in Int /\ ShiftDouble(high, low, count).cc \in Codes
<1> DEFINE x == Double(high, low)
           fill == IF Neg(high) THEN DoubleSize ELSE 0
           k == Right(count)
           left == (x * 2 ^ count) % DoubleSize
           ones == IF left >= H * Size THEN DoubleSize - 1 ELSE 0
           spill == (x \div 2 ^ (2 * W - count)) + (IF Neg(high) THEN DoubleSize - 2 ^ count ELSE 0)
           right == ((x - fill) \div 2 ^ k) % DoubleSize
           ends == IF Neg(high) THEN DoubleSize - 1 ELSE 0
           result(y, v, c) == [x |-> y, cc |-> [n |-> y >= H * Size, z |-> y = 0, v |-> v, c |-> c]]
<1>1. /\ W \in Nat /\ W > 0 /\ H \in Nat /\ H > 0 /\ Size \in Nat /\ Size > 0 /\ high \in Int /\ low \in Int
      /\ count \in Int /\ count >= 0 /\ count < 4 * W
  BY WordAssumption DEF Size, Word, Counts
<1>2. DoubleSize \in Nat /\ DoubleSize > 0
  BY <1>1, SMT DEF DoubleSize
<1>3. x \in Int /\ fill \in Int /\ ends \in Int
  BY <1>1, <1>2, SMT DEF Double
<1>4. left \in Int
  <2>1. 2 ^ count \in Int
    BY <1>1, PowersPositive
  <2>2. x * 2 ^ count \in Int
    BY <1>3, <2>1, SMT
  <2> HIDE DEF x
  <2>3. QED
    BY <1>2, <2>2, SMT
<1>5. right \in Int
  <2>1. k \in 0 .. 4 * W
    BY <1>1 DEF Right
  <2>2. 2 ^ k \in Nat \ {0}
    BY <2>1, PowersPositive
  <2> HIDE DEF x, fill, k
  <2>3. (x - fill) \div 2 ^ k \in Int
    BY <1>3, <2>2, SMT
  <2>4. QED
    BY <1>2, <2>3, SMT
<1>6. \/ ShiftDouble(high, low, count) = result(x, FALSE, FALSE)
      \/ ShiftDouble(high, low, count) = result(left, spill # ones, spill % 2 = 1)
      \/ ShiftDouble(high, low, count) = result(ends, FALSE, Neg(high))
      \/ ShiftDouble(high, low, count) = result(right, FALSE, LastOut(x, k))
  <2>1. \/ count = 0 /\ count \notin 1 .. 2 * W - 1 /\ count # 2 * W
        \/ count # 0 /\ count \in 1 .. 2 * W - 1 /\ count # 2 * W
        \/ count # 0 /\ count \notin 1 .. 2 * W - 1 /\ count = 2 * W
        \/ count # 0 /\ count \notin 1 .. 2 * W - 1 /\ count # 2 * W
    BY <1>1
  <2>2. QED
    BY <2>1, Zenon DEF ShiftDouble
<1>7. Neg(high) \in BOOLEAN /\ LastOut(x, k) \in BOOLEAN
  BY DEF Neg, LastOut
<1>8. (spill # ones) \in BOOLEAN /\ (spill % 2 = 1) \in BOOLEAN
  OBVIOUS
<1> HIDE DEF x, fill, k, left, ones, spill, right, ends
<1>9. \A y \in Int, v, c \in BOOLEAN : result(y, v, c).x \in Int /\ result(y, v, c).cc \in Codes
  <2>1. \A y \in Int : (y >= H * Size) \in BOOLEAN
    OBVIOUS
  <2>2. QED
    BY <2>1, Zenon DEF Codes
<1> HIDE DEF result
<1>10. QED
  BY <1>3, <1>4, <1>5, <1>6, <1>7, <1>8, <1>9, Zenon

-----------------------------------------------------------------------------
(* The machine.                                                            *)

LEMMA StoreKeepsTypes ==
    ASSUME TypeOK, NEW k \in Reg, NEW result, TypeOf(result), Store(k, result)
    PROVE  TypeOK'
  BY DEF TypeOK, TypeOf, Store

THEOREM AluInit == Init => TypeOK
<1>1. 0 \in Word
  BY EndWords
<1>2. QED
  BY <1>1 DEF Init, TypeOK, Codes

\* Whatever instruction is executed next, the registers stay words and the codes truth values.
LEMMA NextKeepsTypes == TypeOK /\ [Next]_vars => TypeOK'
<1> SUFFICES ASSUME TypeOK, [Next]_vars PROVE TypeOK'
  OBVIOUS
<1>0. cc.c \in BOOLEAN /\ \A k \in Reg : r[k] \in Word
  BY DEF TypeOK, Codes
<1>1. CASE UNCHANGED vars
  BY <1>1 DEF vars, TypeOK
<1>2. CASE DoMove
  BY <1>0, <1>2, SumType, StoreKeepsTypes, Zenon DEF DoMove
<1>3. CASE DoAdd
  BY <1>0, <1>3, SumType, StoreKeepsTypes, Zenon DEF DoAdd
<1>4. CASE DoSubtract
  BY <1>0, <1>4, SumType, StoreKeepsTypes, Zenon DEF DoSubtract
<1>5. CASE DoCompare
  <2>1. PICK k \in Reg, s \in Word : Codify(Compare(s, r[k]))
    BY <1>5 DEF DoCompare
  <2>2. Compare(s, r[k]).cc \in Codes
    BY <1>0, SumType, Zenon DEF TypeOf
  <2>3. QED
    BY <2>1, <2>2 DEF Codify, TypeOK
<1>6. CASE DoTest
  <2>1. PICK k \in Reg : Codify(Test(r[k]))
    BY <1>6 DEF DoTest
  <2>2. Test(r[k]).cc \in Codes
    BY <1>0, SumType, Zenon DEF TypeOf
  <2>3. QED
    BY <2>1, <2>2 DEF Codify, TypeOK
<1>7. CASE DoCount
  BY <1>0, <1>7, SumType, StoreKeepsTypes, Zenon DEF DoCount
<1>8. CASE DoNegate
  BY <1>0, <1>8, SumType, StoreKeepsTypes, Zenon DEF DoNegate
<1>9. CASE DoCarry
  BY <1>0, <1>9, SumType, StoreKeepsTypes, Zenon DEF DoCarry
<1>10. CASE DoExtend
  BY <1>10, ExtendType, StoreKeepsTypes, Zenon DEF DoExtend, TypeOK
<1>11. CASE DoShift
  BY <1>0, <1>11, ShiftType, StoreKeepsTypes, Zenon DEF DoShift
<1>12. CASE DoRotate
  BY <1>0, <1>12, ShiftType, StoreKeepsTypes, Zenon DEF DoRotate
<1>13. CASE DoShiftWord
  BY <1>0, <1>13, ShiftWordType, StoreKeepsTypes, Zenon DEF DoShiftWord
<1>14. CASE DoMultiply
  <2>1. PICK odd \in BOOLEAN, s \in Word : r' = Multiply(odd, r, s).r /\ cc' = Multiply(odd, r, s).cc
    BY <1>14 DEF DoMultiply
  <2>2. r \in [Reg -> Word]
    BY DEF TypeOK
  <2>3. Multiply(odd, r, s).r \in [Reg -> Word] /\ Multiply(odd, r, s).cc \in Codes
    BY <2>2, MultiplyType, Zenon
  <2>4. QED
    BY <2>1, <2>3, Zenon DEF TypeOK
<1>15. CASE DoDivide
  <2>1. PICK odd \in BOOLEAN, s \in Word : r' = Divide(odd, r, s).r /\ cc' = Divide(odd, r, s).cc
    BY <1>15 DEF DoDivide
  <2>2. r \in [Reg -> Word]
    BY DEF TypeOK
  <2>3. Divide(odd, r, s).r \in [Reg -> Word] /\ Divide(odd, r, s).cc \in Codes
    BY <2>2, DivideType, Zenon
  <2>4. QED
    BY <2>1, <2>3, Zenon DEF TypeOK
<1>16. CASE DoShiftDouble
  <2>1. PICK odd \in BOOLEAN, count \in Counts :
          /\ r' = IF odd THEN [r EXCEPT ![1] = Low(ShiftDouble(Upper(odd, r), r[1], count).x)]
                  ELSE Pair(FALSE, High(ShiftDouble(Upper(odd, r), r[1], count).x),
                                   Low(ShiftDouble(Upper(odd, r), r[1], count).x))
          /\ cc' = ShiftDouble(Upper(odd, r), r[1], count).cc
    BY <1>16 DEF DoShiftDouble
  <2> DEFINE y == ShiftDouble(Upper(odd, r), r[1], count)
             high == High(y.x)
             low == Low(y.x)
  <2>2. y.x \in Int /\ y.cc \in Codes
    BY UpperWord, ShiftDoubleType, Zenon DEF TypeOK
  <2>3. high \in Word /\ low \in Word
    BY <2>2, LowWord, HighWord
  <2>4. /\ r' = IF odd THEN [r EXCEPT ![1] = low] ELSE Pair(FALSE, high, low)
        /\ cc' = y.cc
    BY <2>1
  <2> HIDE DEF y, high, low
  <2>5. QED
    BY <2>2, <2>3, <2>4, StoreType, Zenon DEF TypeOK
<1>17. QED
  BY <1>1, <1>2, <1>3, <1>4, <1>5, <1>6, <1>7, <1>8, <1>9, <1>10, <1>11, <1>12, <1>13, <1>14,
     <1>15, <1>16 DEF Next

\* Every instruction leaves words in R0 and R1 and truth values in the condition codes.
THEOREM AluTypeCorrect == Spec => []TypeOK
  BY AluInit, NextKeepsTypes, PTL DEF Spec

\* ADD, SUB, CMP, NEG, ADC, SBC, INC and DEC compute the true sum or difference, with V and C
\* when it does not fit the signed and the unsigned word, for words of every width.
THEOREM ArithmeticIsExact == Spec => []ArithmeticExact
<1>1. TypeOK => ArithmeticExact
  <2> SUFFICES ASSUME TypeOK PROVE ArithmeticExact
    OBVIOUS
  <2>1. cc.c \in BOOLEAN /\ r[0] \in Word
    BY DEF TypeOK, Codes, Reg
  <2>2. QED
    BY <2>1, AddExact, SubtractExact, CompareExact, NegateExact, IncrementExact, DecrementExact,
       AddCarryExact, SubtractCarryExact, Zenon DEF ArithmeticExact
<1>2. QED
  BY <1>1, AluTypeCorrect, PTL

\* After CMP every branch takes the order it is named for.
THEOREM BranchesAreOrder == Spec => []BranchesOrder
<1>1. TypeOK => BranchesOrder
  <2> SUFFICES ASSUME TypeOK PROVE BranchesOrder
    OBVIOUS
  <2>1. r[0] \in Word
    BY DEF TypeOK, Reg
  <2>2. QED
    BY <2>1, CompareOrder, Zenon DEF BranchesOrder
<1>2. QED
  BY <1>1, AluTypeCorrect, PTL

-----------------------------------------------------------------------------
(* Division: the quotient and the remainder of C, and what DIV keeps.      *)

\* The magnitude of a quotient and of its remainder are those of the magnitudes; both
\* signs are the signs of the code.
LEMMA QuotientExact ==
    ASSUME NEW a \in Int, NEW b \in Int, b # 0
    PROVE  /\ Quotient(a, b) \in Int
           /\ IsRemainder(a - b * Quotient(a, b), a, b)
           /\ \A k \in Int : IsRemainder(a - k * b, a, b) => k = Quotient(a, b)
<1> DEFINE A == Magnitude(a)
           B == Magnitude(b)
           n == A \div B
           p == A % B
           q == Quotient(a, b)
<1>1. A \in Int /\ A >= 0 /\ B \in Nat \ {0}
  BY DEF Magnitude
<1>2. /\ A = (IF a < 0 THEN 0 - a ELSE a)
      /\ B = (IF b < 0 THEN 0 - b ELSE b)
  BY DEF Magnitude
<1> HIDE DEF A, B
<1>3. n \in Nat /\ p \in 0 .. B - 1 /\ A = n * B + p
  BY <1>1, Euclid
<1>4. ASSUME NEW k \in Int, NEW j \in 0 .. B - 1, A = k * B + j PROVE k = n
  BY <1>1, <1>4, Euclid
<1>5. q = IF (a < 0) = (b < 0) THEN n ELSE 0 - n
  BY DEF Quotient, A, B
<1> HIDE DEF n, p, q
<1>6. a - b * q = IF a < 0 THEN 0 - p ELSE p
  <2>1. CASE a >= 0 /\ b >= 0
    <3>1. b * n = n * B /\ q = n
      BY <1>3, <1>5, <1>2, <2>1
    <3> QED BY <1>3, <1>2, <2>1, <3>1
  <2>2. CASE a >= 0 /\ b < 0
    <3>1. b * (0 - n) = n * B /\ q = 0 - n
      BY <1>3, <1>5, <1>2, <2>2
    <3> QED BY <1>3, <1>2, <2>2, <3>1
  <2>3. CASE a < 0 /\ b >= 0
    <3>1. b * (0 - n) = 0 - (n * B) /\ q = 0 - n /\ n * B \in Int
      BY <1>1, <1>3, <1>5, <1>2, <2>3
    <3> QED BY <1>3, <1>2, <2>3, <3>1
  <2>4. CASE a < 0 /\ b < 0
    <3>1. b * n = 0 - (n * B) /\ q = n /\ n * B \in Int
      BY <1>1, <1>3, <1>5, <1>2, <2>4
    <3> QED BY <1>3, <1>2, <2>4, <3>1
  <2> QED BY <2>1, <2>2, <2>3, <2>4
<1>7. q \in Int
  BY <1>3, <1>5
<1>8. IsRemainder(a - b * q, a, b)
  <2> DEFINE e == a - b * q
  <2>1. e = IF a < 0 THEN 0 - p ELSE p
    BY <1>6
  <2> HIDE DEF e
  <2>2. e = 0 \/ (e < 0) = (a < 0)
    BY <1>1, <1>3, <2>1
  <2>3. Magnitude(e) = p /\ Magnitude(b) = B
    BY <1>1, <1>3, <2>1 DEF Magnitude, B
  <2> QED BY <1>1, <1>3, <2>2, <2>3 DEF IsRemainder, e
<1>9. ASSUME NEW k \in Int, IsRemainder(a - k * b, a, b) PROVE k = q
  <2> DEFINE e == a - k * b
             j == IF e < 0 THEN 0 - e ELSE e
             l == IF (a < 0) = (b < 0) THEN k ELSE 0 - k
  <2>1. e \in Int /\ (e = 0 \/ (e < 0) = (a < 0)) /\ Magnitude(e) < Magnitude(b)
    BY <1>9 DEF IsRemainder
  <2>2. Magnitude(e) = j /\ Magnitude(b) = B
    BY DEF Magnitude, B
  <2>3. j \in 0 .. B - 1
    BY <1>1, <2>1, <2>2
  <2>4. k * b = a - e
    BY <2>1
  <2> HIDE DEF e
  <2>5. l * B = IF a < 0 THEN 0 - (k * b) ELSE k * b
    <3>1. CASE b >= 0
      BY <1>2, <3>1
    <3>2. CASE b < 0
      BY <1>2, <3>2
    <3> QED BY <3>1, <3>2
  <2>6. A = l * B + j /\ l \in Int
    BY <1>2, <2>1, <2>4, <2>5
  <2>7. l = n
    BY <1>4, <2>3, <2>6
  <2> QED BY <1>3, <1>5, <2>7
<1> QED BY <1>7, <1>8, <1>9 DEF q

\* A number that fits the signed word comes back from its low bits, and a word from its
\* signed value.
LEMMA SignedLow ==
    ASSUME NEW q \in (0 - H) .. H - 1
    PROVE  Low(q) \in Word /\ Signed(Low(q)) = q
<1>1. H \in Nat \ {0} /\ Size \in Nat \ {0} /\ Size = 2 * H /\ q \in Int
  BY WordAssumption DEF Size
<1>2. Low(q) = IF q < 0 THEN q + Size ELSE q
  <2>1. CASE q < 0
    <3>1. q = (-1) * Size + (q + Size) /\ q + Size \in 0 .. Size - 1
      BY <1>1, <2>1
    <3> DEFINE p == q + Size
    <3>2. q = (-1) * Size + p /\ p \in 0 .. Size - 1
      BY <3>1
    <3> HIDE DEF p
    <3>3. p = q % Size
      BY <1>1, <3>2, Euclid
    <3> QED BY <2>1, <3>3 DEF Low, p
  <2>2. CASE q >= 0
    <3>1. q = 0 * Size + q /\ q \in 0 .. Size - 1
      BY <1>1, <2>2
    <3>2. q = q % Size
      BY <1>1, <3>1, Euclid
    <3> QED BY <1>1, <2>2, <3>2 DEF Low
  <2> QED BY <1>1, <2>1, <2>2
<1> QED BY <1>1, <1>2 DEF Word, Signed, Neg

LEMMA LowSigned ==
    ASSUME NEW x \in Word
    PROVE  Low(Signed(x)) = x
<1>1. Signed(x) \in (0 - H) .. H - 1
  BY SignedRange
<1>2. Low(Signed(x)) \in Word /\ Signed(Low(Signed(x))) = Signed(x)
  BY <1>1, SignedLow
<1>3. \A y \in Word : Signed(y) = Signed(x) => y = x
  BY WordAssumption DEF Signed, Neg, Word, Size
<1> QED BY <1>2, <1>3

\* A pair of words and the double word it holds.
LEMMA PairDouble ==
    ASSUME NEW m \in Int, 0 - H * Size <= m, m < H * Size
    PROVE  SignedDouble(High(m), Low(m)) = m
<1>1. H \in Nat \ {0} /\ Size \in Nat \ {0} /\ Size = 2 * H
  BY WordAssumption DEF Size
<1> DEFINE a == m \div Size
           b == m % Size
           top == H * Size
<1>2. a \in Int /\ b \in 0 .. Size - 1 /\ m = a * Size + b
  BY <1>1, Euclid
<1> HIDE DEF a, b
<1>3. a \in (0 - H) .. H - 1
  <2> DEFINE x == a * Size
  <2>1. (a - H) * Size = x - top /\ (a + H) * Size = x + top /\ x \in Int /\ top \in Int
    BY <1>1, <1>2
  <2>2. a - H \in Int /\ a + H \in Int
    BY <1>1, <1>2
  <2>3. /\ a - H >= 0 => (a - H) * Size >= 0
        /\ a + H <= -1 => (a + H) * Size <= -Size
    BY <1>1, <2>2, ProductSign
  <2>4. m = x + b /\ 0 - top <= m /\ m < top
    BY <1>2
  <2> HIDE DEF x, top
  <2>5. ~(a - H >= 0) /\ ~(a + H <= -1)
    BY <1>1, <1>2, <2>1, <2>3, <2>4
  <2> QED BY <1>1, <1>2, <2>5
<1>4. Signed(Low(a)) = a
  BY <1>3, SignedLow
<1>5. High(m) = Low(a) /\ Low(m) = b
  BY DEF High, Low, a, b
<1> QED BY <1>2, <1>4, <1>5 DEF SignedDouble

\* A product of two words fits the pair, with room to spare.
LEMMA ProductRange ==
    ASSUME NEW u \in (0 - H) .. H - 1, NEW b \in (0 - H) .. H - 1
    PROVE  u * b \in Int /\ 0 - H * Size < u * b /\ u * b < H * Size
<1>1. H \in Nat \ {0} /\ Size = 2 * H
  BY WordAssumption DEF Size
<1>2. \A x, y \in Nat : x * y \in Nat
  OBVIOUS
<1>3. H - u \in Nat /\ H + u \in Nat /\ H - b \in Nat /\ H + b \in Nat
  BY <1>1
<1>4. /\ (H - u) * (H - b) \in Nat /\ (H + u) * (H + b) \in Nat
      /\ (H - u) * (H + b) \in Nat /\ (H + u) * (H - b) \in Nat
  BY <1>2, <1>3
<1> DEFINE p == u * b
           s == H * H
           t == H * u
           w == H * b
<1>5. p \in Int /\ s \in Int /\ t \in Int /\ w \in Int /\ s > 0
  <2>1. H * H >= H
    BY <1>1, ProductSign
  <2> QED BY <1>1, <2>1
<1>6. /\ (H - u) * (H - b) = s - t - w + p /\ (H + u) * (H + b) = s + t + w + p
      /\ (H - u) * (H + b) = s - t + w - p /\ (H + u) * (H - b) = s + t - w - p
  BY <1>1
<1>7. H * Size = 2 * s
  BY <1>1
<1> HIDE DEF p, s, t, w
<1>8. 0 - s <= p /\ p <= s
  BY <1>4, <1>5, <1>6
<1>9. p \in Int /\ 0 - H * Size < p /\ p < H * Size
  BY <1>5, <1>7, <1>8
<1> QED BY <1>9 DEF p

\* DIV of the pair that holds x by the word s: its four ways out.
LEMMA DivideCases ==
    ASSUME NEW x \in [Reg -> Word], NEW s \in Word
    PROVE  LET a == SignedDouble(x[0], x[1])
               b == Signed(s)
               q == Quotient(a, b)
               y == Divide(FALSE, x, s)
           IN  /\ a \in Int /\ b \in Int
               /\ \/ /\ y.cc.v /\ y.r = x
                     /\ \/ b = 0
                        \/ b # 0 /\ a = 0 - H * Size /\ b = 0 - 1
                        \/ b # 0 /\ q \notin (0 - H) .. H - 1
                  \/ /\ ~y.cc.v /\ b # 0 /\ q \in (0 - H) .. H - 1
                     /\ y.r = Pair(FALSE, Low(q), Low(a - b * q))
               /\ b # 0 /\ q \in (0 - H) .. H - 1 /\ ~(a = 0 - H * Size /\ b = 0 - 1) =>
                     y.r = Pair(FALSE, Low(q), Low(a - b * q))
<1> DEFINE a == SignedDouble(x[0], x[1])
           b == Signed(s)
           q == Quotient(a, b)
           y == Divide(FALSE, x, s)
           keep(n, z, c) == [r |-> x, cc |-> [n |-> n, z |-> z, v |-> TRUE, c |-> c]]
           done == [r |-> Pair(FALSE, Low(q), Low(a - b * q)),
                    cc |-> [n |-> q < 0, z |-> q = 0, v |-> FALSE, c |-> FALSE]]
<1>1. a \in Int /\ b \in Int /\ H \in Int
  <2>1. Signed(x[0]) \in Int /\ Signed(s) \in Int /\ x[1] \in Int /\ Size \in Int /\ H \in Int
    BY SignedRange, WordAssumption DEF Word, Size, Reg
  <2> QED BY <2>1, SMT DEF SignedDouble
<1>2. b # 0 => q \in Int
  BY <1>1, QuotientInt
<1>3. Upper(FALSE, x) = x[0]
  BY DEF Upper
<1>4. y = IF b = 0 THEN keep(FALSE, TRUE, TRUE)
          ELSE IF a = 0 - H * Size /\ b = 0 - 1 THEN keep(FALSE, FALSE, FALSE)
          ELSE IF q > H - 1 \/ q < 0 - H THEN keep(q < 0, FALSE, FALSE)
          ELSE done
  BY <1>3, Zenon DEF Divide
<1>5. \A n, z, c : keep(n, z, c).r = x /\ keep(n, z, c).cc.v = TRUE
  OBVIOUS
<1>6. done.r = Pair(FALSE, Low(q), Low(a - b * q)) /\ done.cc.v = FALSE
  BY Zenon
<1> HIDE DEF a, b, q, keep, done, y
<1>7. q \in Int => (q \in (0 - H) .. H - 1 <=> ~(q > H - 1 \/ q < 0 - H))
  BY <1>1
<1> QED BY <1>1, <1>2, <1>4, <1>5, <1>6, <1>7, Zenon DEF a, b, q, y

\* DIV: an exact quotient and remainder, or V and the registers as they were.
LEMMA DivideExact ==
    ASSUME NEW x \in [Reg -> Word], NEW s \in Word
    PROVE  LET a == SignedDouble(x[0], x[1])
               b == Signed(s)
               y == Divide(FALSE, x, s)
               q == Signed(y.r[0])
               p == Signed(y.r[1])
           IN  IF y.cc.v
               THEN y.r = x /\ \A k \in Word : ~IsRemainder(a - Signed(k) * b, a, b)
               ELSE a = q * b + p /\ IsRemainder(p, a, b)
<1> DEFINE a == SignedDouble(x[0], x[1])
           b == Signed(s)
           n == Quotient(a, b)
           y == Divide(FALSE, x, s)
           rest == a - b * n
<1>1. a \in Int /\ b \in Int
  BY DivideCases
<1>2. H \in Nat \ {0} /\ Size \in Nat \ {0} /\ b \in (0 - H) .. H - 1
      /\ \A k \in Word : Signed(k) \in (0 - H) .. H - 1
  BY WordAssumption, SignedRange DEF Size
<1>3. b # 0 => /\ n \in Int /\ IsRemainder(rest, a, b)
               /\ \A k \in Int : IsRemainder(a - k * b, a, b) => k = n
  BY <1>1, QuotientExact
<1>4. \/ /\ y.cc.v /\ y.r = x
         /\ \/ b = 0
            \/ b # 0 /\ a = 0 - H * Size /\ b = 0 - 1
            \/ b # 0 /\ n \notin (0 - H) .. H - 1
      \/ /\ ~y.cc.v /\ b # 0 /\ n \in (0 - H) .. H - 1
         /\ y.r = Pair(FALSE, Low(n), Low(rest))
  BY DivideCases
<1> HIDE DEF a, b, n, y
<1>5. ASSUME b = 0, NEW e \in Int PROVE ~IsRemainder(e, a, b)
  BY <1>5 DEF IsRemainder, Magnitude
<1>6. ASSUME a = 0 - H * Size, b = 0 - 1, NEW k \in Word
      PROVE  ~IsRemainder(a - Signed(k) * b, a, b)
  <2> DEFINE top == H * Size
             h == Signed(k)
  <2>1. top >= H /\ top \in Int
    <3>1. Size * H >= H /\ Size * H = top
      BY <1>2, ProductSign
    <3> QED BY <1>2, <3>1
  <2>2. h \in Int /\ h <= H - 1
    BY <1>2
  <2>3. a = 0 - top
    BY <1>6
  <2> HIDE DEF top, h
  <2>4. a - h * b = h - top
    BY <1>6, <2>1, <2>2, <2>3
  <2>5. ~(Magnitude(h - top) < Magnitude(b))
    BY <1>2, <1>6, <2>1, <2>2 DEF Magnitude
  <2> QED BY <2>4, <2>5 DEF IsRemainder, h
<1>7. CASE y.cc.v
  <2>1. y.r = x
    BY <1>4, <1>7
  <2>2. ASSUME NEW k \in Word PROVE ~IsRemainder(a - Signed(k) * b, a, b)
    <3>1. Signed(k) \in Int /\ a - Signed(k) * b \in Int
      BY <1>1, <1>2
    <3>2. CASE b = 0
      BY <1>5, <3>1, <3>2
    <3>3. CASE a = 0 - H * Size /\ b = 0 - 1
      BY <1>6, <3>3
    <3>4. CASE b # 0 /\ n \notin (0 - H) .. H - 1
      BY <1>2, <1>3, <3>1, <3>4
    <3> QED BY <1>4, <1>7, <3>2, <3>3, <3>4
  <2> QED BY <1>7, <2>1, <2>2 DEF a, b, y
<1>8. CASE ~y.cc.v
  <2>1. b # 0 /\ n \in (0 - H) .. H - 1 /\ y.r = Pair(FALSE, Low(n), Low(rest))
    BY <1>4, <1>8
  <2>2. IsRemainder(rest, a, b) /\ rest \in Int /\ b * n \in Int
    BY <1>1, <1>2, <1>3, <2>1
  <2>3. a = n * b + rest
    BY <1>1, <1>2, <2>1, <2>2
  <2> HIDE DEF rest
  <2>4. rest \in (0 - H) .. H - 1
    BY <1>2, <2>2 DEF IsRemainder, Magnitude
  <2>5. Signed(Low(n)) = n /\ Signed(Low(rest)) = rest
    BY <2>1, <2>4, SignedLow
  <2>6. y.r[0] = Low(n) /\ y.r[1] = Low(rest)
    BY <2>1 DEF Pair, Reg
  <2>7. Signed(y.r[0]) = n /\ Signed(y.r[1]) = rest
    BY <2>5, <2>6
  <2> QED BY <1>8, <2>2, <2>3, <2>7 DEF a, b, y
<1> QED BY <1>7, <1>8

\* DIV by the same word takes MUL back.
LEMMA DivideTakesBack ==
    ASSUME NEW x \in [Reg -> Word], NEW s \in Word, s # 0
    PROVE  LET m == Multiply(FALSE, x, s).r
           IN  Divide(FALSE, m, s).r = [m EXCEPT ![0] = x[0], ![1] = 0]
<1> DEFINE u == Signed(x[0])
           b == Signed(s)
           p == u * b
           m == Multiply(FALSE, x, s).r
<1>1. /\ H \in Nat \ {0} /\ Size \in Nat \ {0} /\ x[0] \in Word
      /\ u \in (0 - H) .. H - 1 /\ b \in (0 - H) .. H - 1
  BY WordAssumption, SignedRange DEF Size, Reg
<1>2. b # 0
  BY WordAssumption DEF Signed, Neg, Word, Size
<1>3. m = Pair(FALSE, High(p), Low(p)) /\ m \in [Reg -> Word]
  <2>1. m \in [Reg -> Word]
    BY MultiplyType
  <2>2. m = Pair(FALSE, High(p), Low(p))
    BY Zenon DEF Multiply, Upper
  <2> QED BY <2>1, <2>2
<1>4. p \in Int /\ 0 - H * Size < p /\ p < H * Size
  BY <1>1, ProductRange
<1>5. SignedDouble(High(p), Low(p)) = p
  BY <1>1, <1>4, PairDouble
<1> HIDE DEF p, m
<1>6. m[0] = High(p) /\ m[1] = Low(p)
  BY <1>3 DEF Pair, Reg
<1>7. SignedDouble(m[0], m[1]) = p
  BY <1>5, <1>6
<1> HIDE DEF u, b
<1>8. Quotient(p, b) = u
  <2>1. p - u * b = 0
    BY <1>1 DEF p
  <2>2. IsRemainder(p - u * b, p, b)
    <3>1. Magnitude(0) < Magnitude(b)
      BY <1>1, <1>2 DEF Magnitude
    <3> QED BY <2>1, <3>1 DEF IsRemainder
  <2> QED BY <1>1, <1>2, <1>4, <2>2, QuotientExact
<1>9. p - b * u = 0 /\ p # 0 - H * Size
  <2>1. p - b * u = 0
    BY <1>1 DEF p
  <2> QED BY <1>1, <1>4, <2>1
<1>10. Divide(FALSE, m, s).r = Pair(FALSE, Low(u), Low(0))
  <2>1. b = Signed(s)
    BY DEF b
  <2> DEFINE e == SignedDouble(m[0], m[1])
             n == Quotient(e, Signed(s))
  <2>2. Signed(s) # 0 /\ n \in (0 - H) .. H - 1 /\ ~(e = 0 - H * Size /\ Signed(s) = 0 - 1) =>
            Divide(FALSE, m, s).r = Pair(FALSE, Low(n), Low(e - Signed(s) * n))
    BY <1>3, DivideCases, Zenon
  <2>3. e = p /\ n = u
    BY <1>7, <1>8, <2>1
  <2> HIDE DEF e, n
  <2>4. n \in (0 - H) .. H - 1 /\ e - Signed(s) * n = 0 /\ e # 0 - H * Size
    BY <1>1, <1>9, <2>1, <2>3
  <2> QED BY <1>2, <2>1, <2>2, <2>3, <2>4
<1>11. Low(u) = x[0] /\ Low(0) = 0
  <2>1. Low(u) = x[0]
    BY <1>1, LowSigned DEF u
  <2>2. Low(0) = 0
    BY <1>1, DivZero DEF Low
  <2> QED BY <2>1, <2>2
<1>12. [m EXCEPT ![0] = x[0], ![1] = 0] = Pair(FALSE, x[0], 0)
  BY <1>3 DEF Pair, Reg
<1> QED BY <1>10, <1>11, <1>12 DEF m

\* DIV rounds towards zero, gives V and keeps the registers exactly when no word is the
\* quotient, and takes back MUL, for words of every width.
THEOREM DivisionIsExact == Spec => []DivisionExact
<1>1. TypeOK => DivisionExact
  <2> SUFFICES ASSUME TypeOK PROVE DivisionExact
    OBVIOUS
  <2>1. r \in [Reg -> Word]
    BY DEF TypeOK
  <2>2. ASSUME NEW s \in Word
        PROVE  LET x == SignedDouble(r[0], r[1])
                   y == Divide(FALSE, r, s)
                   b == Signed(s)
                   q == Signed(y.r[0])
                   p == Signed(y.r[1])
                   m == Multiply(FALSE, r, s).r
               IN  /\ IF y.cc.v
                      THEN /\ y.r = r
                           /\ \A k \in Word : ~IsRemainder(x - Signed(k) * b, x, b)
                      ELSE x = q * b + p /\ IsRemainder(p, x, b)
                   /\ s # 0 => Divide(FALSE, m, s).r = [m EXCEPT ![0] = r[0], ![1] = 0]
    BY <2>1, DivideExact, DivideTakesBack, Zenon
  <2> QED BY <2>2, Zenon DEF DivisionExact
<1> QED BY <1>1, AluTypeCorrect, PTL

-----------------------------------------------------------------------------
(* Products and quotients that the shifts need.                            *)

\* A common factor of a number and its divisor.
LEMMA DivCancel ==
    ASSUME NEW m \in Int, NEW q \in Nat \ {0}, NEW p \in Nat \ {0}
    PROVE  (m * p) \div (q * p) = m \div q
<1> DEFINE a == m \div q
           b == m % q
           n == q * p
           e == b * p
<1>1. a \in Int /\ b \in 0 .. q - 1 /\ m = a * q + b
  BY Euclid
<1>2. n \in Nat \ {0}
  OBVIOUS
<1> HIDE DEF a, b
<1>3. e \in 0 .. n - 1
  <2>1. q - b >= 1 /\ q - b \in Int /\ b \in Nat
    BY <1>1
  <2>2. (q - b) * p >= p /\ b * p >= 0
    BY <2>1, ProductSign
  <2>3. (q - b) * p = n - e /\ e \in Int
    BY <2>1
  <2> HIDE DEF n, e
  <2>4. n - e >= p /\ p >= 1 /\ n \in Int
    BY <1>2, <2>2, <2>3
  <2>5. e >= 0
    BY <2>2 DEF e
  <2> QED BY <2>3, <2>4, <2>5
<1>4. m * p = a * n + e /\ m * p \in Int
  <2>1. m * p = (a * q + b) * p
    BY <1>1
  <2>2. (a * q + b) * p = a * (q * p) + b * p
    BY <1>1
  <2> QED BY <2>1, <2>2
<1> DEFINE l == m * p
<1>5. l \in Int /\ l = a * n + e
  BY <1>4
<1> HIDE DEF n, e, l
<1>6. l \div n = a
  BY ONLY <1>1, <1>2, <1>3, <1>5, Euclid
<1> QED BY <1>6 DEF a, n, l

\* A number moved by a multiple of its divisor.
LEMMA DivShift ==
    ASSUME NEW m \in Int, NEW n \in Nat \ {0}, NEW t \in Int
    PROVE  (m + t * n) \div n = (m \div n) + t /\ (m + t * n) % n = m % n
<1> DEFINE a == m \div n
           b == m % n
           l == m + t * n
           c == a + t
<1>1. a \in Int /\ b \in 0 .. n - 1 /\ m = a * n + b
  BY Euclid
<1> HIDE DEF a, b
<1>2. l = c * n + b /\ l \in Int /\ c \in Int
  <2>1. t * n \in Int /\ a * n \in Int /\ (a + t) * n = a * n + t * n
    BY <1>1
  <2> QED BY <1>1, <2>1
<1> HIDE DEF l, c
<1>3. l \div n = c /\ l % n = b
  BY ONLY <1>1, <1>2, n \in Nat \ {0}, Euclid
<1> QED BY <1>3 DEF a, b, l, c

\* A number less than its divisor.
LEMMA DivSmall ==
    ASSUME NEW n \in Nat \ {0}, NEW x \in 0 .. n - 1
    PROVE  x \div n = 0 /\ x % n = x
<1> DEFINE q == 0
<1>1. x \in Int /\ q \in Int /\ x = q * n + x
  OBVIOUS
<1> HIDE DEF q
<1>2. \A i \in Int, j \in 0 .. n - 1 : x = i * n + j => i = x \div n /\ j = x % n
  BY ONLY <1>1, n \in Nat \ {0}, Euclid
<1>3. q = x \div n /\ x = x % n
  BY ONLY <1>1, <1>2, x \in 0 .. n - 1, Zenon
<1> QED BY <1>3 DEF q

-----------------------------------------------------------------------------
(* Shifts of a pair, bit by bit.                                           *)

\* The double word of a pair, and what its two words say of it.
LEMMA PairValue ==
    ASSUME NEW high \in Word, NEW low \in Word
    PROVE  /\ Double(high, low) \in 0 .. DoubleSize - 1
           /\ Neg(high) <=> Double(high, low) >= H * Size
           /\ high = Double(high, low) \div Size /\ low = Double(high, low) % Size
<1>1. H \in Nat \ {0} /\ Size \in Nat \ {0} /\ Size = 2 * H
  BY WordAssumption DEF Size
<1>2. high \in 0 .. Size - 1 /\ low \in 0 .. Size - 1
  BY DEF Word
<1> DEFINE x == high * Size
           top == H * Size
           all == Size * Size
<1>3. x \in Nat /\ top \in Int /\ all \in Int
  BY <1>1, <1>2
<1>4. /\ (high - H) * Size = x - top
      /\ ((Size - 1) - high) * Size = all - Size - x
  BY <1>1, <1>2
<1>5. high - H \in Int /\ (Size - 1) - high \in Int
  BY <1>1, <1>2
<1>6. /\ high - H >= 0 => (high - H) * Size >= 0
      /\ high - H <= -1 => (high - H) * Size <= -Size
      /\ (Size - 1) - high >= 0 => ((Size - 1) - high) * Size >= 0
  BY <1>1, <1>5, ProductSign
<1> DEFINE m == x + low
<1>7. m \in Int /\ m = high * Size + low /\ high \in Int
  BY <1>2, <1>3
<1>8. high = m \div Size /\ low = m % Size
  <2> HIDE DEF m
  <2> QED BY ONLY <1>1, <1>2, <1>7, Euclid
<1> HIDE DEF x, top, all
<1>9. m \in 0 .. all - 1 /\ (high >= H <=> m >= top)
  BY <1>1, <1>2, <1>3, <1>4, <1>5, <1>6
<1> QED BY <1>8, <1>9 DEF Double, DoubleSize, Neg, m, x, top, all

\* A word shifted left.
LEMMA LowTwice ==
    ASSUME NEW x \in Word
    PROVE  Low(2 * x) = IF Neg(x) THEN 2 * x - Size ELSE 2 * x
<1>1. H \in Nat /\ H > 0
  BY WordAssumption
<1>2. QED
  BY <1>1, SMT DEF Low, Word, Size, Neg

\* ASL of the lower word and ROL of the upper one.
LEMMA LeftStepValue ==
    ASSUME NEW p, p.high \in Word, p.low \in Word, p.v \in BOOLEAN
    PROVE  LET q == LeftStep(p)
               x == Double(p.high, p.low)
               y == Double(q.high, q.low)
           IN  /\ q.high \in Word /\ q.low \in Word /\ q.c \in BOOLEAN /\ q.v \in BOOLEAN
               /\ y = IF x >= H * Size THEN 2 * x - DoubleSize ELSE 2 * x
               /\ q.c = (x >= H * Size)
               /\ q.v = (p.v \/ (y >= H * Size) # (x >= H * Size))
<1> DEFINE h == p.high
           l == p.low
           a == Low(2 * h) + Bit(Neg(l))
           b == Low(2 * l)
           q == LeftStep(p)
<1>1. ShiftLeft(l).x = b /\ ShiftLeft(l).cc.c = Neg(l)
  BY DEF ShiftLeft, Shifted, Result
<1>2. RotateLeft(h, Neg(l)).x = a /\ RotateLeft(h, Neg(l)).cc.c = Neg(h)
      /\ RotateLeft(h, Neg(l)).cc.v = (Neg(a) # Neg(h))
  BY DEF RotateLeft, Shifted, Result
<1>3. q.high = a /\ q.low = b /\ q.c = Neg(h) /\ q.v = (p.v \/ Neg(a) # Neg(h))
  BY <1>1, <1>2 DEF LeftStep
<1>4. a \in Word /\ b \in Word
  BY LowDouble DEF Bit, Word
<1>5. a = (IF Neg(h) THEN 2 * h - Size ELSE 2 * h) + Bit(Neg(l))
      /\ b = IF Neg(l) THEN 2 * l - Size ELSE 2 * l
  BY LowTwice
<1>6. Neg(h) \in BOOLEAN /\ Neg(l) \in BOOLEAN /\ Neg(a) \in BOOLEAN
  BY DEF Neg
<1>7. /\ Neg(h) = (Double(h, l) >= H * Size)
      /\ Neg(a) = (Double(a, b) >= H * Size)
  BY <1>4, <1>6, PairValue
<1>8. Double(a, b) = IF Neg(h) THEN 2 * Double(h, l) - DoubleSize ELSE 2 * Double(h, l)
  <2>1. h \in Int /\ l \in Int /\ Size \in Int
    BY WordAssumption DEF Word, Size
  <2> DEFINE n == Size
             i == IF Neg(h) THEN 1 ELSE 0
             j == Bit(Neg(l))
  <2>2. a = (2 * h - i * n) + j /\ b = 2 * l - j * n /\ i \in Int /\ j \in Int
    BY <1>5, <1>6, <2>1 DEF Bit
  <2>3. ((2 * h - i * n) + j) * n + (2 * l - j * n) = 2 * (h * n + l) - i * (n * n)
    <3> HIDE DEF h, l, n, i, j
    <3> QED BY <2>1, <2>2 DEF n
  <2>4. Double(a, b) = 2 * Double(h, l) - i * DoubleSize
    <3> HIDE DEF a, b, h, l, i, j
    <3> QED BY <2>2, <2>3 DEF Double, DoubleSize
  <2>5. Double(h, l) \in Int /\ DoubleSize \in Int
    BY <2>1 DEF Double, DoubleSize
  <2> HIDE DEF a, b, h, l
  <2> QED BY <2>4, <2>5
<1> HIDE DEF q
<1>9. /\ q.high \in Word /\ q.low \in Word /\ q.c \in BOOLEAN /\ q.v \in BOOLEAN
      /\ Double(q.high, q.low) = Double(a, b)
  BY <1>3, <1>4, <1>6
<1> HIDE DEF a, b, h, l
<1> QED BY <1>3, <1>7, <1>8, <1>9 DEF h, l, q

\* p holds the pair x shifted left n times: a is what has left it at the top, C the last bit of
\* a, and V is clear as long as a and the sign of p repeat the sign of x.
SameSigns(a, n, y, top) == (a = 0 /\ y < top) \/ (a = 2 ^ n - 1 /\ y >= top)
Lefts(p, x, n) ==
    /\ p.high \in Word /\ p.low \in Word /\ p.v \in BOOLEAN
    /\ \E a \in 0 .. 2 ^ n - 1 :
          /\ x * 2 ^ n = a * DoubleSize + Double(p.high, p.low)
          /\ p.c = (a % 2 = 1)
          /\ p.v = ~SameSigns(a, n, Double(p.high, p.low), H * Size)

\* No shift, and one more.
LEMMA LeftsStart ==
    ASSUME NEW high \in Word, NEW low \in Word
    PROVE  Lefts(Start(high, low), Double(high, low), 0)
<1> DEFINE x == Double(high, low)
           m == DoubleSize
           top == H * Size
<1>1. x \in Int /\ m \in Int /\ top \in Int
  BY PairValue, Weights
<1>2. 2 ^ 0 = 1
  OBVIOUS
<1>3. Start(high, low) = [high |-> high, low |-> low, v |-> FALSE, c |-> FALSE]
  BY DEF Start
<1> HIDE DEF x, m, top
<1>4. x * 1 = 0 * m + x /\ 0 \in 0 .. 1 - 1
  BY <1>1
<1>5. FALSE = (0 % 2 = 1) /\ FALSE = ~((0 = 0 /\ x < top) \/ (0 = 1 - 1 /\ x >= top))
  BY <1>1
<1>6. \E a \in 0 .. 1 - 1 :
        /\ x * 1 = a * m + x /\ FALSE = (a % 2 = 1)
        /\ FALSE = ~((a = 0 /\ x < top) \/ (a = 1 - 1 /\ x >= top))
  BY ONLY <1>4, <1>5, Zenon
<1>7. \E a \in 0 .. 2 ^ 0 - 1 :
        /\ x * 2 ^ 0 = a * m + x /\ FALSE = (a % 2 = 1)
        /\ FALSE = ~((a = 0 /\ x < top) \/ (a = 2 ^ 0 - 1 /\ x >= top))
  BY ONLY <1>2, <1>6, Zenon
<1>8. Lefts([high |-> high, low |-> low, v |-> FALSE, c |-> FALSE], x, 0)
  BY <1>7 DEF Lefts, SameSigns, x, m, top
<1> QED BY <1>3, <1>8 DEF x

LEMMA LeftsStep ==
    ASSUME NEW p, NEW x \in Int, NEW n \in 0 .. 2 * W, Lefts(p, x, n)
    PROVE  Lefts(LeftStep(p), x, n + 1)
<1> DEFINE q == LeftStep(p)
           m == DoubleSize
           top == H * Size
           u == Double(p.high, p.low)
           y == Double(q.high, q.low)
           g == 2 ^ n
<1>1. m \in Nat /\ top \in Nat /\ m = 2 * top
  BY Weights
<1>2. g \in Nat \ {0} /\ 2 ^ (n + 1) = 2 * g
  <2>1. n \in 0 .. 4 * W
    BY WordAssumption
  <2> QED BY <2>1, PowersPositive, PowersAssumption
<1>3. /\ q.high \in Word /\ q.low \in Word /\ q.c \in BOOLEAN /\ q.v \in BOOLEAN
      /\ y = IF u >= top THEN 2 * u - m ELSE 2 * u
      /\ q.c = (u >= top)
      /\ q.v = (p.v \/ (y >= top) # (u >= top))
  BY LeftStepValue DEF Lefts
<1>4. u \in 0 .. m - 1 /\ y \in 0 .. m - 1
  BY <1>3, PairValue DEF Lefts
<1>5. PICK a \in 0 .. g - 1 :
        /\ x * g = a * m + u
        /\ p.v = ~((a = 0 /\ u < top) \/ (a = g - 1 /\ u >= top))
  BY DEF Lefts, SameSigns
<1> DEFINE b == IF u >= top THEN 2 * a + 1 ELSE 2 * a
<1> HIDE DEF q, m, top, u, y, g
<1>6. b \in 0 .. 2 * g - 1 /\ ((b % 2 = 1) <=> u >= top)
  <2>1. a \in Int /\ 0 <= a /\ a <= g - 1
    BY <1>2
  <2>2. CASE u >= top
    BY <1>2, <2>1, <2>2
  <2>3. CASE ~(u >= top)
    BY <1>2, <2>1, <2>3
  <2> QED BY <2>2, <2>3
<1>7. x * (2 * g) = b * m + y
  <2>1. x * (2 * g) = 2 * (x * g) /\ (2 * a) * m = 2 * (a * m) /\ (2 * a + 1) * m = 2 * (a * m) + m
    BY <1>1, <1>2
  <2> DEFINE v == x * g
             w == a * m
  <2>2. v \in Int /\ w \in Int /\ v = w + u
    BY <1>1, <1>2, <1>5
  <2>3. x * (2 * g) = 2 * v /\ b * m = IF u >= top THEN 2 * w + m ELSE 2 * w
    BY <2>1
  <2> HIDE DEF v, w, b
  <2> QED BY <1>1, <1>3, <1>4, <2>2, <2>3
<1>8. ((b = 0 /\ y < top) \/ (b = 2 * g - 1 /\ y >= top))
        <=> (((a = 0 /\ u < top) \/ (a = g - 1 /\ u >= top)) /\ ((y >= top) <=> (u >= top)))
  <2>1. a \in Int /\ 0 <= a /\ a <= g - 1
    BY <1>2
  <2>2. CASE u >= top
    BY <1>1, <1>2, <1>4, <2>1, <2>2
  <2>3. CASE ~(u >= top)
    BY <1>1, <1>2, <1>4, <2>1, <2>3
  <2> QED BY <2>2, <2>3
<1> HIDE DEF b
<1>9. q.v = ~((b = 0 /\ y < top) \/ (b = 2 * g - 1 /\ y >= top))
  <2>1. p.v \in BOOLEAN /\ (y >= top) \in BOOLEAN /\ (u >= top) \in BOOLEAN
    BY DEF Lefts
  <2> QED BY <1>3, <1>5, <1>8, <2>1
<1>10. q.c = (b % 2 = 1)
  BY <1>3, <1>6
<1> QED BY <1>2, <1>3, <1>6, <1>7, <1>9, <1>10 DEF Lefts, SameSigns, q, y, m, top

\* What the code shifts out at the top, extended by the sign, against what the last sign says:
\* of a number of 2 * top values shifted left by the factor p.
LEMMA Spill ==
    ASSUME NEW top \in Nat \ {0}, NEW p \in Nat, NEW g \in Nat \ {0}, p = 2 * g, g <= top,
           NEW x \in 0 .. 2 * top - 1, NEW a \in 0 .. p - 1, NEW y \in 0 .. 2 * top - 1,
           x * p = a * (2 * top) + y
    PROVE  LET spill == a + (IF x >= top THEN 2 * top - p ELSE 0)
               ones  == IF y >= top THEN 2 * top - 1 ELSE 0
           IN  /\ spill \in 0 .. 2 * top - 1
               /\ (spill # ones) = ~((a = 0 /\ y < top) \/ (a = p - 1 /\ y >= top))
               /\ (spill % 2 = 1) = (a % 2 = 1)
<1> DEFINE m == 2 * top
           u == a * m
           v == g * m
           d == x - top
<1>1. m \in Nat \ {0} /\ a \in Int /\ a >= 0 /\ a <= p - 1 /\ u \in Int /\ v \in Int /\ d \in Int
      /\ y \in Int /\ y >= 0 /\ y < m
  OBVIOUS
<1>2. a \in 0 .. p - 1 /\ (x >= top <=> a >= g)
  <2>1. d * p = (u + y) - v
    <3>1. d * p = x * p - top * p /\ top * p = v /\ x * p = u + y /\ x * p \in Int
      OBVIOUS
    <3> HIDE DEF d, u, v
    <3> QED BY <1>1, <3>1
  <2>2. /\ d >= 0 => d * p >= 0
        /\ d <= -1 => d * p <= -p
    BY <1>1, ProductSign
  <2>3. (a - g) * m = u - v
    BY <1>1
  <2>4. /\ a - g >= 0 => (a - g) * m >= 0
        /\ a - g <= -1 => (a - g) * m <= -m
    BY <1>1, ProductSign
  <2> HIDE DEF u, v, m
  <2>5. a - g \in Int /\ p \in Int /\ p > 0
    OBVIOUS
  <2>6. d >= 0 <=> a - g >= 0
    <3> HIDE DEF d
    <3> QED BY <1>1, <2>1, <2>2, <2>3, <2>4, <2>5
  <2> QED BY <2>6 DEF d
<1> HIDE DEF u, v, d
<1>3. CASE x >= top
  <2>1. a >= g /\ g >= 1
    BY <1>2, <1>3
  <2> DEFINE spill == a + (2 * top - p)
  <2>2. spill \in Int /\ spill \in 0 .. 2 * top - 1 /\ (spill % 2 = 1 <=> a % 2 = 1)
    BY <1>1
  <2>3. CASE y >= top
    <3>1. spill # 2 * top - 1 <=> ~((a = 0 /\ y < top) \/ (a = p - 1 /\ y >= top))
      BY <1>1, <2>1, <2>3
    <3> QED BY <1>3, <2>2, <2>3, <3>1
  <2>4. CASE ~(y >= top)
    <3>1. spill # 0 <=> ~((a = 0 /\ y < top) \/ (a = p - 1 /\ y >= top))
      BY <1>1, <2>1, <2>4
    <3> QED BY <1>3, <2>2, <2>4, <3>1
  <2> QED BY <2>3, <2>4
<1>4. CASE ~(x >= top)
  <2>1. ~(a >= g) /\ a + 0 = a /\ a \in 0 .. 2 * top - 1
    BY <1>1, <1>2, <1>4
  <2>2. CASE y >= top
    <3>1. a # 2 * top - 1 <=> ~((a = 0 /\ y < top) \/ (a = p - 1 /\ y >= top))
      BY <1>1, <2>1, <2>2
    <3> QED BY <1>4, <2>1, <2>2, <3>1
  <2>3. CASE ~(y >= top)
    <3>1. a # 0 <=> ~((a = 0 /\ y < top) \/ (a = p - 1 /\ y >= top))
      BY <1>1, <2>1, <2>3
    <3> QED BY <1>4, <2>1, <2>3, <3>1
  <2> QED BY <2>2, <2>3
<1> QED BY <1>3, <1>4

\* ASR of the upper word and ROR of the lower one.
LEMMA RightStepValue ==
    ASSUME NEW p, p.high \in Word, p.low \in Word
    PROVE  LET q == RightStep(p)
               x == SignedDouble(p.high, p.low)
               y == SignedDouble(q.high, q.low)
           IN  /\ q.high \in Word /\ q.low \in Word /\ q.v = FALSE /\ x \in Int /\ y \in Int
               /\ x = 2 * y + Bit(q.c) /\ q.c \in BOOLEAN
<1> DEFINE h == p.high
           l == p.low
           c == h % 2 = 1
           e == l % 2 = 1
           a == (h \div 2) + (IF Neg(h) THEN H ELSE 0)
           b == (l \div 2) + (IF c THEN H ELSE 0)
           q == RightStep(p)
<1>1. ShiftRight(h).x = a /\ ShiftRight(h).cc.c = c
  BY DEF ShiftRight, Shifted, Result
<1>2. RotateRight(l, c).x = b /\ RotateRight(l, c).cc.c = e
  BY DEF RotateRight, Shifted, Result
<1>3. q.high = a /\ q.low = b /\ q.c = e /\ q.v = FALSE
  BY <1>1, <1>2 DEF RightStep
<1>4. H \in Nat \ {0} /\ Size = 2 * H /\ h \in 0 .. Size - 1 /\ l \in 0 .. Size - 1
  BY WordAssumption DEF Size, Word
<1> DEFINE i == Signed(h)
           j == Signed(a)
<1>5. a \in 0 .. Size - 1 /\ i \in Int /\ j \in Int /\ i = 2 * j + Bit(c)
  <2> HIDE DEF h
  <2>1. CASE h >= H
    BY <1>4, <2>1 DEF Signed, Neg, Bit
  <2>2. CASE ~(h >= H)
    BY <1>4, <2>2 DEF Signed, Neg, Bit
  <2> QED BY <2>1, <2>2
<1>6. b \in 0 .. Size - 1 /\ l + Bit(c) * Size = 2 * b + Bit(e)
  <2> HIDE DEF l, h
  <2>1. CASE c
    <3>1. b = (l \div 2) + H /\ Bit(c) = 1
      BY <2>1 DEF Bit
    <3>2. l = 2 * (l \div 2) + Bit(e)
      BY <1>4 DEF Bit
    <3> HIDE DEF c, e, b
    <3>3. Bit(e) \in 0 .. 1
      BY DEF Bit
    <3> QED BY <1>4, <3>1, <3>2, <3>3
  <2>2. CASE ~c
    <3>1. b = l \div 2 /\ Bit(c) = 0
      BY <1>4, <2>2 DEF Bit
    <3>2. l = 2 * (l \div 2) + Bit(e)
      BY <1>4 DEF Bit
    <3> HIDE DEF c, e, b
    <3>3. Bit(e) \in 0 .. 1
      BY DEF Bit
    <3> QED BY <1>4, <3>1, <3>2, <3>3
  <2> QED BY <2>1, <2>2
<1>7. i * Size + l = 2 * (j * Size + b) + Bit(e) /\ j * Size + b \in Int /\ i * Size + l \in Int
  <2> DEFINE f == Bit(c)
             g == Bit(e)
             n == Size
  <2>1. f \in Int /\ g \in Int /\ n \in Int /\ l \in Int /\ b \in Int
    BY <1>4, <1>6 DEF Bit
  <2> HIDE DEF f, g, n, i, j, l, b
  <2>2. i * n = 2 * (j * n) + f * n
    <3>1. i * n = (2 * j + f) * n
      BY <1>5 DEF f
    <3> QED BY <1>5, <2>1, <3>1
  <2> DEFINE s == i * n
             t == j * n
             w == f * n
  <2>3. s \in Int /\ t \in Int /\ w \in Int /\ s = 2 * t + w /\ l + w = 2 * b + g
    BY <1>5, <1>6, <2>1, <2>2 DEF f, g, n
  <2> HIDE DEF s, t, w
  <2>4. s + l = 2 * (t + b) + g /\ t + b \in Int /\ s + l \in Int
    BY <2>1, <2>3
  <2> QED BY <2>4 DEF s, t, g, n
<1> HIDE DEF q
<1>8. /\ SignedDouble(p.high, p.low) = i * Size + l /\ SignedDouble(q.high, q.low) = j * Size + b
      /\ Bit(q.c) = Bit(e) /\ q.c \in BOOLEAN
  BY <1>3 DEF SignedDouble
<1>9. q.high \in Word /\ q.low \in Word /\ q.v = FALSE
  BY <1>3, <1>5, <1>6 DEF Word
<1> HIDE DEF i, j, l, b, e
<1> QED BY <1>7, <1>8, <1>9 DEF q

\* p holds the signed pair x shifted right n times: b is what has left it at the bottom, and C
\* the last bit of that.
Rights(p, x, n) ==
    /\ p.high \in Word /\ p.low \in Word /\ p.v = FALSE
    /\ \E b \in 0 .. 2 ^ n - 1 : x = SignedDouble(p.high, p.low) * 2 ^ n + b
    /\ n # 0 => p.c = ((x \div 2 ^ (n - 1)) % 2 = 1)

\* No shift, and one more.
LEMMA RightsStart ==
    ASSUME NEW high \in Word, NEW low \in Word
    PROVE  Rights(Start(high, low), SignedDouble(high, low), 0)
<1> DEFINE x == SignedDouble(high, low)
<1>1. x \in Int
  BY WordAssumption DEF SignedDouble, Signed, Word, Size
<1>2. 2 ^ 0 = 1
  OBVIOUS
<1>3. Start(high, low) = [high |-> high, low |-> low, v |-> FALSE, c |-> FALSE]
  BY DEF Start
<1> HIDE DEF x
<1>4. x = x * 1 + 0 /\ 0 \in 0 .. 1 - 1
  BY <1>1
<1>5. \E b \in 0 .. 2 ^ 0 - 1 : x = x * 2 ^ 0 + b
  BY ONLY <1>2, <1>4, Zenon
<1>6. Rights([high |-> high, low |-> low, v |-> FALSE, c |-> FALSE], x, 0)
  BY <1>5 DEF Rights, x
<1> QED BY <1>3, <1>6 DEF x

LEMMA RightsStep ==
    ASSUME NEW p, NEW x \in Int, NEW n \in 0 .. 2 * W, Rights(p, x, n)
    PROVE  Rights(RightStep(p), x, n + 1)
<1> DEFINE q == RightStep(p)
           u == SignedDouble(p.high, p.low)
           y == SignedDouble(q.high, q.low)
           g == 2 ^ n
           e == Bit(q.c)
<1>1. g \in Nat \ {0} /\ 2 ^ (n + 1) = 2 * g
  <2>1. n \in 0 .. 4 * W
    BY WordAssumption
  <2> QED BY <2>1, PowersPositive, PowersAssumption
<1>2. /\ q.high \in Word /\ q.low \in Word /\ q.v = FALSE /\ u \in Int /\ y \in Int
      /\ u = 2 * y + e /\ q.c \in BOOLEAN
  BY RightStepValue DEF Rights
<1>3. PICK b \in 0 .. g - 1 : x = u * g + b
  BY DEF Rights
<1>4. e \in 0 .. 1 /\ q.c = (e = 1)
  BY <1>2 DEF Bit
<1> HIDE DEF q, u, y, g, e
<1>5. x \div g = u
  <2>1. g \in Nat \ {0} /\ u \in Int
    BY <1>1, <1>2
  <2> QED BY ONLY <2>1, <1>3, x \in Int, b \in 0 .. g - 1, Euclid
<1>6. q.c = ((x \div g) % 2 = 1)
  <2>1. u % 2 = e
    BY <1>2, <1>4
  <2> QED BY <1>4, <1>5, <2>1
<1>7. \E d \in 0 .. 2 * g - 1 : x = y * (2 * g) + d
  <2> DEFINE d == e * g + b
  <2>1. e = 0 \/ e = 1
    BY <1>4
  <2>2. d \in 0 .. 2 * g - 1
    BY <1>1, <2>1
  <2>3. u * g = y * (2 * g) + e * g
    <3>1. u * g = (2 * y + e) * g
      BY <1>2
    <3> QED BY <1>1, <1>2, <1>4, <3>1
  <2>4. x = y * (2 * g) + d
    <3>1. y * (2 * g) \in Int /\ e * g \in Int /\ b \in Int
      BY <1>1, <1>2, <1>4
    <3> QED BY <1>3, <2>3, <3>1
  <2> QED BY <2>2, <2>4
<1>8. (n + 1) - 1 = n
  BY WordAssumption
<1> QED BY <1>1, <1>2, <1>6, <1>7, <1>8 DEF Rights, q, y, g

\* The function that Shifts makes, of n shifts to one side.
OneShift(toLeft, p) == IF toLeft THEN LeftStep(p) ELSE RightStep(p)
Steps(toLeft, p, n, f) == f = [k \in 0 .. n |-> IF k = 0 THEN p ELSE OneShift(toLeft, f[k - 1])]

\* There is such a function, by the least number of shifts for which there would be none.
LEMMA StepsExist == ASSUME NEW toLeft, NEW p, NEW n \in Nat PROVE \E f : Steps(toLeft, p, n, f)
<1> DEFINE Fails == {k \in Nat : ~\E f : Steps(toLeft, p, k, f)}
<1>1. Fails = {}
  <2>1. SUFFICES ASSUME Fails # {} PROVE FALSE
    OBVIOUS
  <2>2. PICK k \in Fails : \A j \in Fails : k <= j
    BY <2>1, LeastNatural
  <2>3. CASE k = 0
    <3>1. Steps(toLeft, p, 0, [j \in 0 .. 0 |-> p])
      BY DEF Steps
    <3> QED BY <2>2, <2>3, <3>1
  <2>4. CASE k # 0
    <3>1. k \in Nat /\ k - 1 \in Nat /\ ~(k <= k - 1)
      BY <2>2, <2>4
    <3>2. PICK f : Steps(toLeft, p, k - 1, f)
      BY <2>2, <3>1
    <3> DEFINE g == [j \in 0 .. k |-> IF j = k THEN OneShift(toLeft, f[k - 1]) ELSE f[j]]
    <3>3. \A j \in 0 .. k - 1 : g[j] = f[j]
      BY <3>1
    <3>4. g[k] = OneShift(toLeft, f[k - 1])
      BY <3>1
    <3>5. g = [j \in 0 .. k |-> g[j]]
      OBVIOUS
    <3> HIDE DEF g
    <3>6. ASSUME NEW j \in 0 .. k
          PROVE  g[j] = IF j = 0 THEN p ELSE OneShift(toLeft, g[j - 1])
      <4>1. CASE j = k
        <5>1. k - 1 \in 0 .. k - 1
          BY <3>1
        <5>2. g[k - 1] = f[k - 1]
          BY <3>3, <5>1
        <5> QED BY <2>4, <3>4, <4>1, <5>2
      <4>2. CASE j # k
        <5>1. j \in 0 .. k - 1
          BY <3>1, <4>2
        <5>2. f[j] = IF j = 0 THEN p ELSE OneShift(toLeft, f[j - 1])
          BY <3>2, <5>1 DEF Steps
        <5>3. j # 0 => g[j - 1] = f[j - 1]
          BY <3>1, <3>3, <5>1
        <5> QED BY <3>3, <5>1, <5>2, <5>3
      <4> QED BY <4>1, <4>2
    <3>7. Steps(toLeft, p, k, g)
      BY <3>5, <3>6 DEF Steps
    <3> QED BY <2>2, <3>7
  <2> QED BY <2>3, <2>4
<1> QED BY <1>1

\* Shifts, one way and the other.
LEMMA ShiftsLeft ==
    ASSUME NEW high \in Word, NEW low \in Word, NEW count \in 0 .. 2 * W - 1
    PROVE  Lefts(Shifts(high, low, count), Double(high, low), count)
<1> DEFINE s == Start(high, low)
           x == Double(high, low)
           f == CHOOSE f : f = [n \in 0 .. 2 * W |-> IF n = 0 THEN s ELSE LeftStep(f[n - 1])]
           Fails == {k \in Nat : k <= 2 * W /\ ~Lefts(f[k], x, k)}
<1>1. W \in Nat \ {0} /\ count \in Nat /\ count < 2 * W /\ 2 * W \in Nat
  BY WordAssumption
<1>2. Shifts(high, low, count) = f[count]
  BY <1>1 DEF Shifts
<1>3. f = [n \in 0 .. 2 * W |-> IF n = 0 THEN s ELSE LeftStep(f[n - 1])]
  <2>1. PICK g : Steps(TRUE, s, 2 * W, g)
    BY <1>1, StepsExist
  <2>2. g = [n \in 0 .. 2 * W |-> IF n = 0 THEN s ELSE LeftStep(g[n - 1])]
    BY <2>1 DEF Steps, OneShift
  <2> QED BY <2>2
<1> HIDE DEF f
<1>4. f[0] = s /\ \A n \in 1 .. 2 * W : f[n] = LeftStep(f[n - 1])
  <2>1. \A n \in 0 .. 2 * W : f[n] = IF n = 0 THEN s ELSE LeftStep(f[n - 1])
    BY <1>3
  <2> QED BY <1>1, <2>1
<1>5. Lefts(f[0], x, 0)
  BY <1>4, LeftsStart
<1>6. x \in Int
  BY PairValue, Weights
<1> HIDE DEF s, x
<1>7. Fails = {}
  <2>1. SUFFICES ASSUME Fails # {} PROVE FALSE
    OBVIOUS
  <2>2. PICK k \in Fails : \A j \in Fails : k <= j
    BY <2>1, LeastNatural
  <2>3. k \in Nat /\ k <= 2 * W /\ ~Lefts(f[k], x, k) /\ k # 0
    BY <1>5, <2>2
  <2>4. k - 1 \in Nat /\ k - 1 <= 2 * W /\ k - 1 \in 0 .. 2 * W /\ k \in 1 .. 2 * W /\ (k - 1) + 1 = k /\ ~(k <= k - 1)
    BY <1>1, <2>3
  <2>5. Lefts(f[k - 1], x, k - 1)
    BY <2>2, <2>4
  <2>6. Lefts(LeftStep(f[k - 1]), x, (k - 1) + 1)
    BY <1>6, <2>4, <2>5, LeftsStep
  <2> QED BY <1>4, <2>3, <2>4, <2>6
<1>8. Lefts(f[count], x, count)
  BY <1>1, <1>7
<1> QED BY <1>2, <1>8 DEF x

LEMMA ShiftsRight ==
    ASSUME NEW high \in Word, NEW low \in Word, NEW count \in 2 * W .. 4 * W - 1
    PROVE  Rights(Shifts(high, low, count), SignedDouble(high, low), Right(count))
<1> DEFINE s == Start(high, low)
           x == SignedDouble(high, low)
           f == CHOOSE f : f = [n \in 0 .. 2 * W |-> IF n = 0 THEN s ELSE RightStep(f[n - 1])]
           Fails == {k \in Nat : k <= 2 * W /\ ~Rights(f[k], x, k)}
           m == Right(count)
<1>1. W \in Nat \ {0} /\ count \in Int /\ ~(count < 2 * W) /\ 2 * W \in Nat /\ m \in Nat /\ m <= 2 * W
  BY WordAssumption DEF Right
<1>2. Shifts(high, low, count) = f[m]
  BY <1>1 DEF Shifts
<1>3. f = [n \in 0 .. 2 * W |-> IF n = 0 THEN s ELSE RightStep(f[n - 1])]
  <2>1. PICK g : Steps(FALSE, s, 2 * W, g)
    BY <1>1, StepsExist
  <2>2. g = [n \in 0 .. 2 * W |-> IF n = 0 THEN s ELSE RightStep(g[n - 1])]
    BY <2>1 DEF Steps, OneShift
  <2> QED BY <2>2
<1> HIDE DEF f
<1>4. f[0] = s /\ \A n \in 1 .. 2 * W : f[n] = RightStep(f[n - 1])
  <2>1. \A n \in 0 .. 2 * W : f[n] = IF n = 0 THEN s ELSE RightStep(f[n - 1])
    BY <1>3
  <2> QED BY <1>1, <2>1
<1>5. Rights(f[0], x, 0)
  BY <1>4, RightsStart
<1>6. x \in Int
  BY WordAssumption DEF SignedDouble, Signed, Word, Size
<1> HIDE DEF s, x, m
<1>7. Fails = {}
  <2>1. SUFFICES ASSUME Fails # {} PROVE FALSE
    OBVIOUS
  <2>2. PICK k \in Fails : \A j \in Fails : k <= j
    BY <2>1, LeastNatural
  <2>3. k \in Nat /\ k <= 2 * W /\ ~Rights(f[k], x, k) /\ k # 0
    BY <1>5, <2>2
  <2>4. k - 1 \in Nat /\ k - 1 <= 2 * W /\ k - 1 \in 0 .. 2 * W /\ k \in 1 .. 2 * W /\ (k - 1) + 1 = k /\ ~(k <= k - 1)
    BY <1>1, <2>3
  <2>5. Rights(f[k - 1], x, k - 1)
    BY <2>2, <2>4
  <2>6. Rights(RightStep(f[k - 1]), x, (k - 1) + 1)
    BY <1>6, <2>4, <2>5, RightsStep
  <2> QED BY <1>4, <2>3, <2>4, <2>6
<1>8. Rights(f[m], x, m)
  BY <1>1, <1>7
<1> QED BY <1>2, <1>8 DEF x, m

\* Powers of two on both sides of a shift by n places of a word of m bits.
LEMMA Around ==
    ASSUME NEW m \in 1 .. 2 * W, NEW n \in 1 .. m
    PROVE  /\ 2 ^ n \in Nat \ {0} /\ 2 ^ (n - 1) \in Nat \ {0} /\ 2 ^ (m - n) \in Nat \ {0}
           /\ 2 ^ n = 2 * 2 ^ (n - 1) /\ 2 ^ m = 2 ^ (m - n) * 2 ^ n
           /\ 2 ^ (n - 1) <= 2 ^ (m - 1) /\ 2 ^ m = (2 * 2 ^ (m - n)) * 2 ^ (n - 1)
<1>1. /\ W \in Nat /\ m \in Nat /\ n \in Nat /\ n - 1 \in 0 .. 2 * W /\ n \in 0 .. 2 * W /\ m - n \in 0 .. 2 * W
      /\ (n - 1) + 1 = n /\ (m - n) + n = m /\ (m - n) + (n - 1) = m - 1
      /\ n \in 0 .. 4 * W /\ n - 1 \in 0 .. 4 * W /\ m - n \in 0 .. 4 * W
  BY WordAssumption
<1> DEFINE p == 2 ^ n
           g == 2 ^ (n - 1)
           q == 2 ^ (m - n)
<1>2. p \in Nat \ {0} /\ g \in Nat \ {0} /\ q \in Nat \ {0}
  BY <1>1, PowersPositive
<1>3. p = 2 * g
  BY <1>1, PowersAssumption
<1>4. 2 ^ m = q * p /\ 2 ^ (m - 1) = q * g
  <2>1. 2 ^ ((m - n) + n) = 2 ^ (m - n) * 2 ^ n
    BY <1>1, PowerSum
  <2>2. 2 ^ ((m - n) + (n - 1)) = 2 ^ (m - n) * 2 ^ (n - 1)
    BY <1>1, PowerSum
  <2> QED BY <1>1, <2>1, <2>2
<1> HIDE DEF p, g, q
<1>5. q * g >= g
  BY <1>2, ProductSign
<1>6. q * p = (2 * q) * g
  BY <1>2, <1>3
<1> QED BY <1>2, <1>3, <1>4, <1>5, <1>6 DEF p, g, q

\* ASHC to the left.
LEMMA DoubleLeft ==
    ASSUME NEW high \in Word, NEW low \in Word, NEW count \in 1 .. 2 * W - 1
    PROVE  LET y == ShiftDouble(high, low, count)
               p == Shifts(high, low, count)
           IN  y.x = Double(p.high, p.low) /\ y.cc.v = p.v /\ y.cc.c = p.c
<1> DEFINE p == Shifts(high, low, count)
           x == Double(high, low)
           y == Double(p.high, p.low)
           m == DoubleSize
           top == H * Size
           e == 2 ^ count
           g == 2 ^ (count - 1)
           q == 2 ^ (2 * W - count)
           left == (x * e) % m
           ones == IF left >= top THEN m - 1 ELSE 0
           spill == (x \div q) + (IF Neg(high) THEN m - e ELSE 0)
           result == [x |-> left, cc |-> [n |-> left >= top, z |-> left = 0, v |-> spill # ones, c |-> spill % 2 = 1]]
<1>1. W \in Nat /\ count \in 0 .. 2 * W - 1 /\ count # 0 /\ 2 * W \in 1 .. 2 * W /\ count \in 1 .. 2 * W
      /\ count \in 1 .. 2 * W - 1 /\ count # 2 * W
  BY WordAssumption
<1>2. ShiftDouble(high, low, count) = result
  BY <1>1, Zenon DEF ShiftDouble
<1>3. Lefts(p, x, count)
  BY <1>1, ShiftsLeft
<1>4. m = 2 * top /\ top \in Nat \ {0} /\ m \in Nat \ {0} /\ m = 2 ^ (2 * W) /\ top = 2 ^ (2 * W - 1)
  BY Weights
<1>5. /\ e \in Nat \ {0} /\ g \in Nat \ {0} /\ q \in Nat \ {0} /\ e = 2 * g /\ m = q * e /\ g <= top
  BY <1>1, <1>4, Around
<1>6. x \in 0 .. m - 1 /\ (Neg(high) <=> x >= top) /\ y \in 0 .. m - 1
  BY <1>3, PairValue DEF Lefts
<1>7. PICK a \in 0 .. e - 1 :
        x * e = a * m + y /\ p.c = (a % 2 = 1) /\ p.v = ~((a = 0 /\ y < top) \/ (a = e - 1 /\ y >= top))
  BY <1>3 DEF Lefts, SameSigns
<1> HIDE DEF p, x, y, m, top, e, g, q
<1>8. left = y /\ x \div q = a
  <2>1. x \in Int /\ a \in Int /\ y \in 0 .. m - 1 /\ m \in Nat \ {0} /\ x * e \in Int
    BY <1>4, <1>5, <1>6
  <2> DEFINE l == x * e
  <2>2. l \in Int /\ l = a * m + y
    BY <1>7, <2>1
  <2>3. (x * e) \div (q * e) = x \div q
    BY <1>5, <2>1, DivCancel
  <2> HIDE DEF l
  <2>4. a = l \div m /\ y = l % m
    BY ONLY <2>1, <2>2, Euclid
  <2> QED BY <1>5, <2>3, <2>4 DEF l
<1>9. LET s == a + (IF x >= top THEN m - e ELSE 0)
          o == IF y >= top THEN m - 1 ELSE 0
      IN  /\ (s # o) = ~((a = 0 /\ y < top) \/ (a = e - 1 /\ y >= top))
          /\ (s % 2 = 1) = (a % 2 = 1)
  <2>1. x \in 0 .. 2 * top - 1 /\ y \in 0 .. 2 * top - 1 /\ x * e = a * (2 * top) + y /\ e \in Nat
    BY <1>4, <1>5, <1>6, <1>7
  <2>2. top \in Nat \ {0} /\ g \in Nat \ {0} /\ e = 2 * g /\ g <= top
    BY <1>4, <1>5
  <2>3. LET s == a + (IF x >= top THEN 2 * top - e ELSE 0)
            o == IF y >= top THEN 2 * top - 1 ELSE 0
        IN  /\ (s # o) = ~((a = 0 /\ y < top) \/ (a = e - 1 /\ y >= top))
            /\ (s % 2 = 1) = (a % 2 = 1)
    BY ONLY <2>1, <2>2, a \in 0 .. e - 1, Spill
  <2> QED BY ONLY <1>4, <2>3, Zenon
<1>10. spill = a + (IF x >= top THEN m - e ELSE 0) /\ ones = IF y >= top THEN m - 1 ELSE 0
  BY <1>6, <1>8
<1> HIDE DEF left, spill, ones
<1>11. (spill # ones) = p.v /\ (spill % 2 = 1) = p.c
  BY <1>7, <1>9, <1>10
<1>12. result.x = left /\ result.cc.v = (spill # ones) /\ result.cc.c = (spill % 2 = 1)
  OBVIOUS
<1> HIDE DEF result
<1>13. ShiftDouble(high, low, count).x = y /\ ShiftDouble(high, low, count).cc.v = p.v /\ ShiftDouble(high, low, count).cc.c = p.c
  BY <1>2, <1>8, <1>11, <1>12
<1> QED BY <1>13 DEF p, y

\* A pair as a number, with sign and without.
LEMMA PairSign ==
    ASSUME NEW high \in Word, NEW low \in Word
    PROVE  /\ SignedDouble(high, low) = Double(high, low) - (IF Neg(high) THEN DoubleSize ELSE 0)
           /\ SignedDouble(high, low) \in (0 - H * Size) .. H * Size - 1
           /\ SignedDouble(high, low) < 0 <=> Neg(high)
           /\ Double(high, low) = SignedDouble(high, low) % DoubleSize
           /\ low = Low(SignedDouble(high, low))
<1> DEFINE m == DoubleSize
           top == H * Size
           x == Double(high, low)
           z == SignedDouble(high, low)
           f == IF Neg(high) THEN 1 ELSE 0
<1>1. m = 2 * top /\ top \in Nat \ {0} /\ m \in Nat \ {0} /\ Size \in Nat \ {0}
  BY Weights
<1>2. x \in 0 .. m - 1 /\ (Neg(high) <=> x >= top)
  BY PairValue
<1>3. z = x - f * m /\ (f * m = IF Neg(high) THEN m ELSE 0) /\ z = Signed(high) * Size + low
  <2>1. Signed(high) = high - f * Size /\ high \in Int /\ low \in Int
    BY <1>1 DEF Signed, Word
  <2>2. (high - f * Size) * Size + low = (high * Size + low) - f * (Size * Size)
    <3>1. f \in Int
      OBVIOUS
    <3> DEFINE n == Size
    <3>2. n \in Int
      BY <1>1
    <3> HIDE DEF f, n
    <3>3. (high - f * n) * n + low = (high * n + low) - f * (n * n)
      BY <2>1, <3>1, <3>2
    <3> QED BY <3>3 DEF n
  <2>3. f * m = IF Neg(high) THEN m ELSE 0
    BY <1>1
  <2> QED BY <2>1, <2>2, <2>3 DEF SignedDouble, Double, DoubleSize
<1>4. low = Low(z)
  <2>1. Signed(high) \in Int /\ low \in 0 .. Size - 1
    BY <1>1 DEF Signed, Word
  <2> DEFINE s == Signed(high)
  <2>2. z = s * Size + low /\ z \in Int /\ s \in Int
    <3>1. s * Size \in Int
      BY <1>1, <2>1
    <3> QED BY <1>3, <2>1, <3>1
  <2> HIDE DEF z, s
  <2>3. low = z % Size
    BY ONLY <1>1, <2>1, <2>2, Euclid
  <2> QED BY <2>3 DEF Low
<1>5. x = z % m
  <2>1. z = (0 - f) * m + x /\ 0 - f \in Int /\ z \in Int
    BY <1>1, <1>2, <1>3
  <2> DEFINE s == 0 - f
  <2>2. z = s * m + x /\ s \in Int /\ z \in Int
    BY <2>1
  <2> HIDE DEF z, s, x, m
  <2> QED BY ONLY <1>1, <1>2, <2>2, Euclid
<1> HIDE DEF f, x, z, m, top
<1>6. z \in (0 - top) .. top - 1 /\ (z < 0 <=> Neg(high))
  BY <1>1, <1>2, <1>3
<1>7. z = x - (IF Neg(high) THEN m ELSE 0)
  BY <1>3
<1> QED BY <1>4, <1>5, <1>6, <1>7 DEF x, z, m, top

\* k shifts to the right are a division that rounds down.
LEMMA RightResult ==
    ASSUME NEW high \in Word, NEW low \in Word, NEW k \in 1 .. 2 * W,
           NEW p, Rights(p, SignedDouble(high, low), k)
    PROVE  LET z == SignedDouble(high, low)
               s == z \div 2 ^ k
           IN  /\ Double(p.high, p.low) = s % DoubleSize /\ p.low = Low(s) /\ p.v = FALSE
               /\ p.c = LastOut(Double(high, low), k)
               /\ k = 2 * W => /\ Double(p.high, p.low) = IF Neg(high) THEN DoubleSize - 1 ELSE 0
                               /\ p.low = (IF Neg(high) THEN Size - 1 ELSE 0) /\ p.c = Neg(high)
<1> DEFINE m == DoubleSize
           top == H * Size
           x == Double(high, low)
           z == SignedDouble(high, low)
           y == Double(p.high, p.low)
           t == SignedDouble(p.high, p.low)
           e == 2 ^ k
           g == 2 ^ (k - 1)
           q == 2 ^ (2 * W - k)
           f == IF Neg(high) THEN 1 ELSE 0
<1>1. /\ m = 2 * top /\ top \in Nat \ {0} /\ m \in Nat \ {0} /\ m = 2 ^ (2 * W) /\ top = 2 ^ (2 * W - 1)
      /\ W \in Nat \ {0} /\ Size \in Nat \ {0}
  BY Weights
<1>2. e \in Nat \ {0} /\ g \in Nat \ {0} /\ q \in Nat \ {0} /\ m = (2 * q) * g
  <2>1. 2 * W \in 1 .. 2 * W /\ k \in 1 .. 2 * W
    BY <1>1
  <2> QED BY <1>1, <2>1, Around
<1>3. /\ z = x - (IF Neg(high) THEN m ELSE 0) /\ z \in Int /\ z < top /\ 0 - top <= z
      /\ (z < 0 <=> Neg(high)) /\ x \in Int
  BY <1>1, PairSign, PairValue
<1>4. /\ y = t % m /\ p.low = Low(t) /\ y \in 0 .. m - 1 /\ p.v = FALSE /\ t \in Int
      /\ t = y - (IF Neg(p.high) THEN m ELSE 0)
  BY <1>1, PairSign, PairValue DEF Rights
<1>5. PICK b \in 0 .. e - 1 : z = t * e + b
  BY DEF Rights
<1>6. p.c = ((z \div g) % 2 = 1)
  <2>1. k # 0
    BY <1>1
  <2> QED BY <2>1 DEF Rights
<1> HIDE DEF m, top, x, z, y, t, e, g, q
<1>7. t = z \div e
  <2>1. e \in Nat \ {0} /\ z \in Int /\ t \in Int
    BY <1>2, <1>3, <1>4
  <2> QED BY ONLY <2>1, <1>5, b \in 0 .. e - 1, Euclid
<1>8. (z \div g) % 2 = (x \div g) % 2
  <2>1. x = z + (f * (2 * q)) * g
    <3>1. (f * (2 * q)) * g = f * m /\ f * m = IF Neg(high) THEN m ELSE 0
      BY <1>1, <1>2
    <3> QED BY <1>1, <1>3, <3>1
  <2> DEFINE u == f * (2 * q)
             v == z \div g
  <2>2. u \in Int
    BY <1>2
  <2>3. (z + u * g) \div g = v + u
    BY <1>2, <1>3, <2>2, DivShift
  <2>4. v \in Int
    BY <1>2, <1>3, Euclid
  <2>5. (v + u) % 2 = v % 2
    <3>1. u = 0 \/ u = 2 * q
      BY <1>2
    <3> HIDE DEF u, v
    <3> QED BY <1>2, <2>2, <2>4, <3>1
  <2> QED BY <2>1, <2>3, <2>5
<1>9. p.c = LastOut(x, k)
  BY <1>6, <1>8 DEF LastOut, g
<1>10. ASSUME k = 2 * W
       PROVE  /\ y = (IF Neg(high) THEN m - 1 ELSE 0) /\ p.low = (IF Neg(high) THEN Size - 1 ELSE 0)
              /\ p.c = Neg(high)
  <2>1. e = m /\ g = top
    BY <1>1, <1>10 DEF e, g
  <2>2. t = IF Neg(high) THEN 0 - 1 ELSE 0
    <3>0. e \in Nat \ {0} /\ z \in Int
      BY <1>2, <1>3
    <3>1. CASE Neg(high)
      <4>1. z = (0 - 1) * e + (z + e) /\ z + e \in 0 .. e - 1 /\ 0 - 1 \in Int
        BY <1>1, <1>3, <2>1, <3>1
      <4> DEFINE i == 0 - 1
                 j == z + e
      <4>2. z = i * e + j /\ j \in 0 .. e - 1 /\ i \in Int
        BY <4>1
      <4> HIDE DEF i, j
      <4>3. i = z \div e
        BY ONLY <3>0, <4>2, Euclid
      <4> QED BY <1>7, <3>1, <4>3 DEF i
    <3>2. CASE ~Neg(high)
      <4>1. z \in 0 .. e - 1
        BY <1>1, <1>3, <2>1, <3>2
      <4>2. z \div e = 0
        BY ONLY <3>0, <4>1, DivSmall
      <4> QED BY <1>7, <3>2, <4>2
    <3> QED BY <3>1, <3>2
  <2>3. y = IF Neg(high) THEN m - 1 ELSE 0
    BY <1>1, <1>4, <2>2
  <2>4. p.low = IF Neg(high) THEN Size - 1 ELSE 0
    <3>1. Low(0 - 1) = Size - 1 /\ Low(0) = 0
      <4>0. Size \in Nat \ {0}
        BY <1>1
      <4>1. 0 - 1 = (0 - 1) * Size + (Size - 1) /\ Size - 1 \in 0 .. Size - 1
        BY <1>1
      <4> DEFINE i == 0 - 1
                 j == Size - 1
      <4>2. i = i * Size + j /\ j \in 0 .. Size - 1 /\ i \in Int
        BY <4>1
      <4> HIDE DEF i, j
      <4>3. j = i % Size
        <5>1. \A q1 \in Int, r1 \in 0 .. Size - 1 : i = q1 * Size + r1 => q1 = i \div Size /\ r1 = i % Size
          BY ONLY <4>0, <4>2, Euclid
        <5> QED BY ONLY <4>2, <5>1, Zenon
      <4> QED BY <1>1, <4>3, DivZero DEF i, j, Low
    <3> QED BY <1>4, <2>2, <3>1
  <2>5. p.c = Neg(high)
    <3>1. (z \div top) = IF Neg(high) THEN 0 - 1 ELSE 0
      <4>1. CASE Neg(high)
        <5>1. z = (0 - 1) * top + (z + top) /\ z + top \in 0 .. top - 1 /\ 0 - 1 \in Int
          BY <1>1, <1>3, <4>1
        <5> DEFINE i == 0 - 1
                   j == z + top
        <5>2. z = i * top + j /\ j \in 0 .. top - 1 /\ i \in Int
          BY <5>1
        <5> HIDE DEF i, j
        <5>3. i = z \div top
          BY ONLY <1>1, <1>3, <5>2, Euclid
        <5> QED BY <4>1, <5>3 DEF i
      <4>2. CASE ~Neg(high)
        <5>1. z \in 0 .. top - 1
          BY <1>1, <1>3, <4>2
        <5>2. z \div top = 0
          BY ONLY <1>1, <5>1, DivSmall
        <5> QED BY <4>2, <5>2
      <4> QED BY <4>1, <4>2
    <3>2. ((z \div top) % 2 = 1) <=> Neg(high)
      BY <3>1
    <3>3. Neg(high) \in BOOLEAN
      BY DEF Neg
    <3> QED BY <1>6, <2>1, <3>2, <3>3
  <2> QED BY <2>3, <2>4, <2>5
<1> HIDE DEF f
<1> QED BY <1>4, <1>7, <1>9, <1>10 DEF m, x, z, y, e

\* ASHC to the right.
LEMMA DoubleRight ==
    ASSUME NEW high \in Word, NEW low \in Word, NEW count \in 2 * W .. 4 * W - 1
    PROVE  LET y == ShiftDouble(high, low, count)
               p == Shifts(high, low, count)
           IN  y.x = Double(p.high, p.low) /\ y.cc.v = p.v /\ y.cc.c = p.c
<1> DEFINE p == Shifts(high, low, count)
           x == Double(high, low)
           fill == IF Neg(high) THEN DoubleSize ELSE 0
           k == Right(count)
           z == SignedDouble(high, low)
           result(y, v, c) == [x |-> y, cc |-> [n |-> y >= H * Size, z |-> y = 0, v |-> v, c |-> c]]
<1>1. W \in Nat \ {0} /\ count \in Int /\ k \in 1 .. 2 * W /\ count # 0 /\ count \notin 1 .. 2 * W - 1
      /\ (count = 2 * W <=> k = 2 * W)
  BY WordAssumption DEF Right
<1>2. Rights(p, z, k)
  BY ShiftsRight
<1>3. z = x - fill
  BY PairSign
<1> HIDE DEF p, z, k
<1>4. /\ Double(p.high, p.low) = (z \div 2 ^ k) % DoubleSize /\ p.v = FALSE /\ p.c = LastOut(x, k)
      /\ k = 2 * W => Double(p.high, p.low) = (IF Neg(high) THEN DoubleSize - 1 ELSE 0) /\ p.c = Neg(high)
  <2>1. Rights(p, SignedDouble(high, low), k) /\ k \in 1 .. 2 * W
    BY <1>1, <1>2 DEF z
  <2>2. Double(p.high, p.low) = (SignedDouble(high, low) \div 2 ^ k) % DoubleSize
    BY <2>1, RightResult
  <2>3. p.v = FALSE /\ p.c = LastOut(Double(high, low), k)
    BY <2>1, RightResult
  <2>4. k = 2 * W => Double(p.high, p.low) = (IF Neg(high) THEN DoubleSize - 1 ELSE 0)
    BY <2>1, RightResult
  <2>5. k = 2 * W => p.c = Neg(high)
    BY <2>1, RightResult
  <2> QED BY <2>2, <2>3, <2>4, <2>5 DEF z
<1>5. CASE count = 2 * W
  <2> DEFINE ends == IF Neg(high) THEN DoubleSize - 1 ELSE 0
             c == Neg(high)
  <2>1. ShiftDouble(high, low, count) = result(ends, FALSE, c)
    BY <1>1, <1>5, Zenon DEF ShiftDouble
  <2> HIDE DEF ends, c
  <2>2. result(ends, FALSE, c).x = ends /\ result(ends, FALSE, c).cc.v = FALSE /\ result(ends, FALSE, c).cc.c = c
    OBVIOUS
  <2>3. Double(p.high, p.low) = ends /\ p.v = FALSE /\ p.c = c
    BY <1>1, <1>4, <1>5 DEF ends, c
  <2> HIDE DEF result
  <2> QED BY <2>1, <2>2, <2>3 DEF p
<1>6. CASE count # 2 * W
  <2> DEFINE right == ((x - fill) \div 2 ^ k) % DoubleSize
             c == LastOut(x, k)
  <2>1. ShiftDouble(high, low, count) = result(right, FALSE, c)
    BY <1>1, <1>6, Zenon DEF ShiftDouble, k
  <2>2. Double(p.high, p.low) = right /\ p.v = FALSE /\ p.c = c
    BY <1>3, <1>4
  <2> HIDE DEF right, c
  <2>3. result(right, FALSE, c).x = right /\ result(right, FALSE, c).cc.v = FALSE /\ result(right, FALSE, c).cc.c = c
    OBVIOUS
  <2> HIDE DEF result
  <2> QED BY <2>1, <2>2, <2>3 DEF p
<1> QED BY <1>5, <1>6

\* ASHC by zero.
LEMMA DoubleNone ==
    ASSUME NEW high \in Word, NEW low \in Word
    PROVE  LET y == ShiftDouble(high, low, 0)
               p == Shifts(high, low, 0)
           IN  y.x = Double(p.high, p.low) /\ y.cc.v = p.v /\ y.cc.c = p.c
<1> DEFINE p == Shifts(high, low, 0)
           x == Double(high, low)
           result == [x |-> x, cc |-> [n |-> x >= H * Size, z |-> x = 0, v |-> FALSE, c |-> FALSE]]
<1>1. W \in Nat \ {0} /\ 0 \in 0 .. 2 * W - 1 /\ 0 # 2 * W /\ 0 \notin 1 .. 2 * W - 1 /\ 2 ^ 0 = 1
  BY WordAssumption
<1>2. ShiftDouble(high, low, 0) = result
  BY <1>1, Zenon DEF ShiftDouble
<1>3. Lefts(p, x, 0)
  BY <1>1, ShiftsLeft
<1> DEFINE y == Double(p.high, p.low)
           m == DoubleSize
           top == H * Size
<1>4. /\ m = 2 * top /\ top \in Nat \ {0} /\ x \in 0 .. m - 1 /\ y \in 0 .. m - 1
  BY <1>3, PairValue, Weights DEF Lefts
<1>5. PICK a \in 0 .. 2 ^ 0 - 1 :
        /\ x * 2 ^ 0 = a * m + y /\ p.c = (a % 2 = 1)
        /\ p.v = ~((a = 0 /\ y < top) \/ (a = 2 ^ 0 - 1 /\ y >= top))
  BY <1>3 DEF Lefts, SameSigns
<1> HIDE DEF p, x, y, m, top
<1>6. a = 0 /\ 2 ^ 0 - 1 = 0
  BY <1>1
<1>7. y = x
  BY <1>1, <1>4, <1>5, <1>6
<1>8. p.c = FALSE /\ p.v = FALSE
  <2>1. ~(a % 2 = 1)
    BY <1>6
  <2>2. (a = 0 /\ y < top) \/ (a = 2 ^ 0 - 1 /\ y >= top)
    BY <1>4, <1>6
  <2> QED BY <1>5, <2>1, <2>2
<1>9. result.x = x /\ result.cc.v = FALSE /\ result.cc.c = FALSE
  OBVIOUS
<1> HIDE DEF result
<1>10. ShiftDouble(high, low, 0).x = y /\ ShiftDouble(high, low, 0).cc.v = p.v /\ ShiftDouble(high, low, 0).cc.c = p.c
  BY <1>2, <1>7, <1>8, <1>9
<1> QED BY <1>10 DEF p, y

\* The upper word of a word extended to a double word.
Ends(x) == IF Neg(x) THEN Size - 1 ELSE 0

LEMMA WideValue ==
    ASSUME NEW x \in Word
    PROVE  /\ Ends(x) \in Word /\ Neg(Ends(x)) = Neg(x) /\ SignedDouble(Ends(x), x) = Signed(x)
           /\ Signed(x) % DoubleSize = Double(Ends(x), x)
           /\ Double(Ends(x), x) = x + Ends(x) * Size
<1> DEFINE e == Ends(x)
<1>1. H \in Nat \ {0} /\ Size = 2 * H /\ x \in 0 .. Size - 1
  BY WordAssumption DEF Size, Word
<1>2. e \in Word /\ (Neg(e) <=> Neg(x)) /\ Neg(e) \in BOOLEAN /\ Neg(x) \in BOOLEAN
  BY <1>1 DEF Word, Neg, Ends
<1>3. Signed(e) = IF Neg(x) THEN 0 - 1 ELSE 0
  BY <1>1 DEF Signed, Neg, Ends
<1>4. Signed(e) * Size + x = Signed(x)
  <2>1. Signed(e) * Size = IF Neg(x) THEN 0 - Size ELSE 0
    BY <1>1, <1>3
  <2> QED BY <1>1, <2>1 DEF Signed
<1>5. Double(e, x) = Signed(x) % DoubleSize
  BY <1>2, <1>4, PairSign DEF SignedDouble
<1>6. Double(e, x) = x + e * Size
  <2>1. e * Size \in Int
    BY <1>1, <1>2 DEF Word
  <2> QED BY <1>1, <2>1 DEF Double
<1> QED BY <1>2, <1>4, <1>5, <1>6 DEF SignedDouble

\* ASH to the right.
LEMMA WordRight ==
    ASSUME NEW x \in Word, NEW count \in 2 * W .. 4 * W - 1
    PROVE  LET y == ShiftWord(x, count)
               p == Shifts(Ends(x), x, count)
           IN  y.x = p.low /\ y.cc.v = p.v /\ y.cc.c = p.c
<1> DEFINE p == Shifts(Ends(x), x, count)
           k == Right(count)
           e == Ends(x)
<1>1. W \in Nat \ {0} /\ count \in Int /\ k \in 1 .. 2 * W /\ count # 0 /\ count \notin 1 .. W - 1
      /\ count \notin W .. 2 * W - 1 /\ (count = 2 * W <=> k = 2 * W)
  BY WordAssumption DEF Right
<1>2. e \in Word /\ Neg(e) = Neg(x) /\ SignedDouble(e, x) = Signed(x) /\ Double(e, x) = Signed(x) % DoubleSize
  BY WideValue
<1>3. Rights(p, SignedDouble(e, x), k)
  BY <1>2, ShiftsRight
<1> HIDE DEF p, k, e
<1>4. e \in Word /\ k \in 1 .. 2 * W
  BY <1>1, <1>2
<1>5. p.low = Low(Signed(x) \div 2 ^ k) /\ p.v = FALSE
  <2>1. p.low = Low(SignedDouble(e, x) \div 2 ^ k)
    BY <1>3, <1>4, RightResult
  <2>2. p.v = FALSE
    BY <1>3 DEF Rights
  <2> QED BY <1>2, <2>1, <2>2
<1>6. p.c = LastOut(Signed(x) % DoubleSize, k)
  <2>1. p.c = LastOut(Double(e, x), k)
    BY <1>3, <1>4, RightResult
  <2> QED BY <1>2, <2>1
<1>7. k = 2 * W => p.low = Ends(x) /\ p.c = Neg(x)
  <2>1. k = 2 * W => p.low = (IF Neg(e) THEN Size - 1 ELSE 0)
    BY <1>3, <1>4, RightResult
  <2>2. k = 2 * W => p.c = Neg(e)
    BY <1>3, <1>4, RightResult
  <2> QED BY <1>2, <2>1, <2>2 DEF Ends
<1>8. CASE count = 2 * W
  <2>1. ShiftWord(x, count) = Result(Ends(x), FALSE, Neg(x))
    BY <1>1, <1>8, Zenon DEF ShiftWord, Ends
  <2> DEFINE y == Result(Ends(x), FALSE, Neg(x))
  <2>2. y.x = Ends(x) /\ y.cc.v = FALSE /\ y.cc.c = Neg(x)
    BY DEF Result
  <2> HIDE DEF y
  <2>3. p.low = Ends(x) /\ p.v = FALSE /\ p.c = Neg(x)
    BY <1>1, <1>5, <1>7, <1>8
  <2> QED BY <2>1, <2>2, <2>3 DEF p, y
<1>9. CASE count # 2 * W
  <2>1. ShiftWord(x, count) = Result(Low(Signed(x) \div 2 ^ k), FALSE, LastOut(Signed(x) % DoubleSize, k))
    BY <1>1, <1>9, Zenon DEF ShiftWord, k
  <2> DEFINE a == Low(Signed(x) \div 2 ^ k)
             b == LastOut(Signed(x) % DoubleSize, k)
             y == Result(a, FALSE, b)
  <2>2. y.x = a /\ y.cc.v = FALSE /\ y.cc.c = b
    BY DEF Result
  <2>3. p.low = a /\ p.v = FALSE /\ p.c = b
    BY <1>5, <1>6
  <2>4. ShiftWord(x, count) = y
    BY <2>1
  <2> HIDE DEF y, a, b
  <2> QED BY <2>2, <2>3, <2>4 DEF p
<1> QED BY <1>8, <1>9

\* ASH to the left by less than a word.
LEMMA WordLeft ==
    ASSUME NEW x \in Word, NEW count \in 1 .. W - 1
    PROVE  LET y == ShiftWord(x, count)
               p == Shifts(x, 0, count)
           IN  y.x = p.high /\ y.cc.v = p.v /\ y.cc.c = p.c
<1> DEFINE p == Shifts(x, 0, count)
           n == Size
           h == p.high
           l == p.low
           e == 2 ^ count
           g == 2 ^ (count - 1)
           q == 2 ^ (W - count)
           s == Ends(x)
           wide == Signed(x) % DoubleSize
           left == Low(x * e)
           spill == Low(wide \div q)
           ones == IF Neg(left) THEN Size - 1 ELSE 0
<1>1. /\ W \in Nat \ {0} /\ H \in Nat \ {0} /\ n = 2 * H /\ n = 2 ^ W /\ H = 2 ^ (W - 1) /\ n \in Nat \ {0}
      /\ count \in 1 .. W /\ W \in 1 .. 2 * W /\ count \in 0 .. 2 * W - 1
      /\ count # 0 /\ count \in 1 .. W - 1 /\ count \notin W .. 2 * W - 1 /\ count # 2 * W
  BY Weights, WordAssumption DEF Size
<1>2. e \in Nat \ {0} /\ g \in Nat \ {0} /\ q \in Nat \ {0} /\ e = 2 * g /\ n = q * e /\ g <= H
  BY <1>1, Around
<1>3. ShiftWord(x, count) = Result(left, spill # ones, spill % 2 = 1)
  BY <1>1, Zenon DEF ShiftWord
<1>4. x \in 0 .. n - 1 /\ x \in Int /\ 0 \in Word
  BY <1>1 DEF Word
<1>5. Lefts(p, Double(x, 0), count)
  BY <1>1, <1>4, ShiftsLeft
<1>6. /\ h \in Word /\ l \in Word /\ h \in 0 .. n - 1 /\ l \in 0 .. n - 1
      /\ (Double(h, l) >= H * n <=> h >= H)
  <2>1. h \in Word /\ l \in Word
    BY <1>5 DEF Lefts
  <2> QED BY <2>1, PairValue DEF Word, Neg
<1>7. PICK a \in 0 .. e - 1 :
        /\ Double(x, 0) * e = a * DoubleSize + Double(h, l) /\ p.c = (a % 2 = 1)
        /\ p.v = ~((a = 0 /\ Double(h, l) < H * n) \/ (a = e - 1 /\ Double(h, l) >= H * n))
  BY <1>5 DEF Lefts, SameSigns
<1>8. p.v = ~((a = 0 /\ h < H) \/ (a = e - 1 /\ h >= H))
  <2>1. Double(h, l) \in Int /\ H * n \in Int /\ h \in Int
    BY <1>1, <1>6, PairValue
  <2> QED BY <1>1, <1>6, <1>7, <2>1
<1>9. wide = x + s * n /\ s \in Int /\ s = (IF x >= H THEN n - 1 ELSE 0)
  BY <1>1, <1>4, WideValue DEF Ends, Neg
<1> HIDE DEF p, h, l, e, g, q, n, s, wide
<1>10. x * e = a * n + h
  <2> DEFINE u == x * e
             v == a * n + h
             t == Double(x, 0) * e
  <2>1. u \in Int /\ v \in Int
    BY <1>1, <1>2, <1>4, <1>6
  <2>2. t = u * n + 0
    <3>1. Double(x, 0) = x * n
      BY <1>1, <1>4 DEF Double, n
    <3>2. (x * n) * e = (x * e) * n
      BY <1>1, <1>2, <1>4
    <3>3. (x * e) * n \in Int
      BY <1>1, <1>2, <1>4
    <3> QED BY <3>1, <3>2, <3>3
  <2>3. t = v * n + l
    <3>1. t = a * (n * n) + (h * n + l)
      BY <1>7 DEF Double, DoubleSize, n
    <3>2. a * (n * n) = (a * n) * n /\ (a * n + h) * n = (a * n) * n + h * n /\ (a * n) * n \in Int /\ h * n \in Int
      BY <1>1, <1>2, <1>6
    <3> QED BY <1>6, <3>1, <3>2
  <2> DEFINE o == 0
  <2>4. t \in Int /\ t = u * n + o /\ o \in 0 .. n - 1 /\ l \in 0 .. n - 1
    <3>1. u * n \in Int
      BY <1>1, <2>1
    <3> QED BY <1>1, <1>6, <2>2, <3>1
  <2> HIDE DEF t, u, v, o
  <2>5. u = t \div n
    <3>1. n \in Nat \ {0}
      BY <1>1
    <3> QED BY ONLY <3>1, <2>1, <2>4, Euclid
  <2>6. v = t \div n
    <3>1. n \in Nat \ {0} /\ t \in Int /\ l \in 0 .. n - 1
      BY <1>1, <2>4
    <3> QED BY ONLY <3>1, <2>1, <2>3, Euclid
  <2> QED BY <2>5, <2>6 DEF u, v
<1>11. left = h
  <2> DEFINE u == x * e
  <2>1. u \in Int /\ u = a * n + h /\ n \in Nat \ {0} /\ a \in Int /\ h \in 0 .. n - 1
    BY <1>1, <1>2, <1>4, <1>6, <1>10
  <2> HIDE DEF u
  <2>2. h = u % n
    BY ONLY <2>1, Euclid
  <2> QED BY <2>2 DEF Low, u, n
<1>12. wide \div q = a + s * e
  <2> DEFINE u == wide * e
             v == a + s * e
  <2>1. wide \in Int /\ s * e \in Int /\ a \in Int /\ v \in Int /\ u \in Int
    BY <1>1, <1>2, <1>4, <1>9
  <2>2. u = v * n + h
    <3>1. (x + s * n) * e = x * e + (s * e) * n
      BY <1>1, <1>2, <1>4, <1>9
    <3>2. (a + s * e) * n = a * n + (s * e) * n /\ a * n \in Int /\ (s * e) * n \in Int
      BY <1>1, <1>2, <1>9
    <3> QED BY <1>6, <1>9, <1>10, <3>1, <3>2
  <2>3. (wide * e) \div (q * e) = wide \div q
    BY <1>2, <2>1, DivCancel
  <2> HIDE DEF u, v
  <2>4. v = u \div n
    <3>1. n \in Nat \ {0} /\ h \in 0 .. n - 1
      BY <1>1, <1>6
    <3> QED BY ONLY <3>1, <2>1, <2>2, Euclid
  <2> QED BY <1>2, <2>3, <2>4 DEF u, v
<1> DEFINE b == a + (IF x >= H THEN 2 * H - e ELSE 0)
           o == IF h >= H THEN 2 * H - 1 ELSE 0
<1>13. /\ b \in 0 .. 2 * H - 1 /\ (b # o) = ~((a = 0 /\ h < H) \/ (a = e - 1 /\ h >= H))
       /\ (b % 2 = 1) = (a % 2 = 1)
  <2>1. /\ x \in 0 .. 2 * H - 1 /\ h \in 0 .. 2 * H - 1 /\ x * e = a * (2 * H) + h /\ e \in Nat
        /\ H \in Nat \ {0} /\ g \in Nat \ {0} /\ e = 2 * g /\ g <= H /\ a \in 0 .. e - 1
    BY <1>1, <1>2, <1>4, <1>6, <1>10
  <2> QED BY ONLY <2>1, Spill
<1>14. spill = b
  <2>1. CASE x >= H
    <3>1. s * e = (e - 1) * n + (n - e) /\ e - 1 \in Int
      BY <1>1, <1>2, <1>9, <2>1
    <3> DEFINE t == e - 1
    <3>2. a + s * e = b + t * n
      <4>1. (e - 1) * n \in Int
        BY <1>1, <1>2
      <4> QED BY <1>1, <1>2, <2>1, <3>1, <4>1
    <3>3. b \in Int /\ n \in Nat \ {0} /\ t \in Int /\ b \in 0 .. n - 1
      BY <1>1, <1>13, <3>1
    <3> HIDE DEF b, t
    <3>4. (b + t * n) % n = b % n
      BY ONLY <3>3, DivShift
    <3>5. b % n = b
      BY ONLY <3>3, DivSmall
    <3> QED BY <1>12, <3>2, <3>4, <3>5 DEF Low, n
  <2>2. CASE ~(x >= H)
    <3>1. s * e = 0 /\ a + s * e = b
      BY <1>1, <1>2, <1>9, <2>2
    <3>2. n \in Nat \ {0} /\ b \in 0 .. n - 1
      BY <1>1, <1>13
    <3> HIDE DEF b
    <3>3. b % n = b
      BY ONLY <3>2, DivSmall
    <3> QED BY <1>12, <3>1, <3>3 DEF Low, n
  <2> QED BY <2>1, <2>2
<1>15. ones = o
  BY <1>1, <1>11 DEF Neg, n
<1> HIDE DEF left, spill, ones, b, o
<1>16. (spill # ones) = p.v /\ (spill % 2 = 1) = p.c
  BY <1>7, <1>8, <1>13, <1>14, <1>15
<1>17. /\ Result(left, spill # ones, spill % 2 = 1).x = left
       /\ Result(left, spill # ones, spill % 2 = 1).cc.v = (spill # ones)
       /\ Result(left, spill # ones, spill % 2 = 1).cc.c = (spill % 2 = 1)
  BY DEF Result
<1>18. ShiftWord(x, count).x = h /\ ShiftWord(x, count).cc.v = p.v /\ ShiftWord(x, count).cc.c = p.c
  BY <1>3, <1>11, <1>16, <1>17
<1> QED BY <1>18 DEF p, h

\* ASH to the left by a word or more.
LEMMA WordGone ==
    ASSUME NEW x \in Word, NEW count \in W .. 2 * W - 1
    PROVE  LET y == ShiftWord(x, count)
               p == Shifts(x, 0, count)
           IN  y.x = p.high /\ y.cc.v = p.v /\ y.cc.c = p.c
<1> DEFINE p == Shifts(x, 0, count)
           n == Size
           m == DoubleSize
           top == H * n
           e == 2 ^ count
           g == 2 ^ (count - W)
           s == Ends(x)
           wide == Signed(x) % DoubleSize
           y == Double(p.high, p.low)
           c == (wide * g) % 2 = 1
           v == x # 0
<1>1. /\ W \in Nat \ {0} /\ H \in Nat \ {0} /\ n = 2 * H /\ n = 2 ^ W /\ n \in Nat \ {0} /\ m = n * n
      /\ m \in Nat \ {0} /\ top \in Nat \ {0}
      /\ count \in 0 .. 2 * W - 1 /\ count # 0 /\ count \notin 1 .. W - 1 /\ count # 2 * W
      /\ count - W \in 0 .. 2 * W /\ count - W \in 0 .. 4 * W /\ W \in 0 .. 2 * W /\ W + (count - W) = count
  BY Weights, WordAssumption DEF Size, DoubleSize
<1>2. e = n * g /\ g \in Nat \ {0} /\ e \in Nat \ {0}
  <2>1. 2 ^ (W + (count - W)) = 2 ^ W * 2 ^ (count - W)
    BY <1>1, PowerSum
  <2>2. g \in Nat \ {0} /\ n \in Nat \ {0}
    BY <1>1, PowersPositive
  <2>3. n * g \in Nat \ {0}
    <3> HIDE DEF g, n
    <3> QED BY <2>2
  <2> QED BY <1>1, <2>1, <2>2, <2>3
<1>3. ShiftWord(x, count) = Result(0, v, c)
  BY <1>1, Zenon DEF ShiftWord
<1>4. x \in 0 .. n - 1 /\ x \in Int /\ 0 \in Word
  BY <1>1 DEF Word
<1>5. Lefts(p, Double(x, 0), count)
  BY <1>1, <1>4, ShiftsLeft
<1>6. PICK a \in 0 .. e - 1 :
        /\ Double(x, 0) * e = a * m + y /\ p.c = (a % 2 = 1)
        /\ p.v = ~((a = 0 /\ y < top) \/ (a = e - 1 /\ y >= top))
  BY <1>5 DEF Lefts, SameSigns
<1>7. p.high \in Word /\ y \in 0 .. m - 1 /\ p.high = y \div n
  <2>1. p.high \in Word /\ p.low \in Word
    BY <1>5 DEF Lefts
  <2> QED BY <2>1, PairValue
<1>8. wide = x + s * n /\ s \in Int
  BY <1>1, <1>4, WideValue DEF Ends
<1>9. Double(x, 0) = x * n
  BY <1>1, <1>4 DEF Double
<1> HIDE DEF p, n, m, top, e, g, s, wide, y
<1>10. a = x * g /\ y = 0
  <2> DEFINE t == Double(x, 0) * e
             u == x * g
             o == 0
  <2>1. t = u * m + o /\ u \in Int /\ t \in Int /\ o \in 0 .. m - 1
    <3>1. (x * n) * (n * g) = (x * g) * (n * n) /\ x * g \in Int /\ (x * g) * (n * n) \in Int
      BY <1>1, <1>2, <1>4
    <3> QED BY <1>1, <1>2, <1>9, <3>1
  <2>2. m \in Nat \ {0} /\ a \in Int /\ y \in 0 .. m - 1 /\ t = a * m + y
    BY <1>1, <1>2, <1>6, <1>7
  <2> HIDE DEF t, u, o
  <2>3. u = t \div m /\ o = t % m
    BY ONLY <2>1, <2>2, Euclid
  <2>4. a = t \div m /\ y = t % m
    <3>1. t \in Int
      BY <2>1
    <3> QED BY ONLY <2>2, <3>1, Euclid
  <2> QED BY <2>3, <2>4 DEF u, o
<1>11. p.high = 0
  BY <1>1, <1>7, <1>10, DivZero
<1>12. p.v = v
  <2>1. a = 0 <=> x = 0
    <3>1. x >= 1 => x * g >= g
      BY <1>2, <1>4, ProductSign
    <3>2. x = 0 => x * g = 0
      BY <1>2
    <3> DEFINE w == x * g
    <3>3. w \in Int /\ (x >= 1 => w >= g) /\ (x = 0 => w = 0)
      BY <1>2, <1>4, <3>1, <3>2
    <3> HIDE DEF w
    <3>4. w = 0 <=> x = 0
      BY <1>2, <1>4, <3>3
    <3> QED BY <1>10, <3>4 DEF w
  <2>2. y < top /\ ~(y >= top)
    BY <1>1, <1>10
  <2> QED BY <1>6, <2>1, <2>2
<1>13. p.c = c
  <2> DEFINE i == s * (H * g)
             w == x * g
  <2>1. wide * g = w + 2 * i /\ w \in Int /\ i \in Int
    <3>1. (x + s * n) * g = x * g + (s * n) * g
      BY <1>1, <1>2, <1>4, <1>8
    <3>2. (s * (2 * H)) * g = 2 * (s * (H * g)) /\ s * (H * g) \in Int
      BY <1>1, <1>2, <1>8
    <3> QED BY <1>1, <1>2, <1>4, <1>8, <3>1, <3>2
  <2> HIDE DEF i, w
  <2>2. (w + 2 * i) % 2 = w % 2
    BY <2>1
  <2> QED BY <1>6, <1>10, <2>1, <2>2 DEF w
<1> HIDE DEF v, c
<1>14. Result(0, v, c).x = 0 /\ Result(0, v, c).cc.v = v /\ Result(0, v, c).cc.c = c
  BY DEF Result
<1> QED BY <1>3, <1>11, <1>12, <1>13, <1>14 DEF p

\* ASH by zero.
LEMMA WordNone ==
    ASSUME NEW x \in Word
    PROVE  LET y == ShiftWord(x, 0)
               p == Shifts(x, 0, 0)
           IN  y.x = p.high /\ y.cc.v = p.v /\ y.cc.c = p.c
<1> DEFINE p == Shifts(x, 0, 0)
           z == Double(x, 0)
           y == Double(p.high, p.low)
           m == DoubleSize
           top == H * Size
<1>1. W \in Nat \ {0} /\ 0 \in 0 .. 2 * W - 1 /\ 2 ^ 0 = 1 /\ 0 \in Word
  BY Weights DEF Word
<1>2. ShiftWord(x, 0) = Result(x, FALSE, FALSE)
  <2>1. 0 \notin 1 .. W - 1 /\ 0 \notin W .. 2 * W - 1 /\ 0 # 2 * W
    BY <1>1
  <2> QED BY <2>1, Zenon DEF ShiftWord
<1>3. Lefts(p, z, 0)
  BY <1>1, ShiftsLeft
<1>4. p.high \in Word /\ p.low \in Word
  BY <1>3 DEF Lefts
<1>5. /\ m = 2 * top /\ top \in Nat \ {0} /\ z \in 0 .. m - 1 /\ y \in 0 .. m - 1
      /\ x = z \div Size /\ p.high = y \div Size
  BY <1>1, <1>4, PairValue, Weights
<1>6. PICK a \in 0 .. 2 ^ 0 - 1 :
        /\ z * 2 ^ 0 = a * m + y /\ p.c = (a % 2 = 1)
        /\ p.v = ~((a = 0 /\ y < top) \/ (a = 2 ^ 0 - 1 /\ y >= top))
  BY <1>3 DEF Lefts, SameSigns
<1> HIDE DEF p, z, y, m, top
<1>7. a = 0 /\ 2 ^ 0 - 1 = 0
  BY <1>1
<1>8. y = z
  BY <1>1, <1>5, <1>6, <1>7
<1>9. p.c = FALSE /\ p.v = FALSE
  <2>1. ~(a % 2 = 1)
    BY <1>7
  <2>2. (a = 0 /\ y < top) \/ (a = 2 ^ 0 - 1 /\ y >= top)
    BY <1>5, <1>7
  <2> QED BY <1>6, <2>1, <2>2
<1>10. p.high = x
  BY <1>5, <1>8
<1>11. Result(x, FALSE, FALSE).x = x /\ Result(x, FALSE, FALSE).cc.v = FALSE /\ Result(x, FALSE, FALSE).cc.c = FALSE
  BY DEF Result
<1> QED BY <1>2, <1>9, <1>10, <1>11 DEF p

\* For every count, a word and a pair shifted by ASH and ASHC are those shifted bit by bit.
THEOREM ShiftsByStep == Spec => []ShiftsAreSteps
<1>1. TypeOK => ShiftsAreSteps
  <2>1. SUFFICES ASSUME TypeOK, NEW count \in Counts
                 PROVE  LET single == ShiftWord(r[0], count)
                            double == ShiftDouble(r[0], r[1], count)
                            pair   == Shifts(r[0], r[1], count)
                            word   == IF count < 2 * W THEN Shifts(r[0], 0, count)
                                      ELSE Shifts(IF Neg(r[0]) THEN Size - 1 ELSE 0, r[0], count)
                        IN  /\ double.x = Double(pair.high, pair.low)
                            /\ double.cc.v = pair.v /\ double.cc.c = pair.c
                            /\ single.x = IF count < 2 * W THEN word.high ELSE word.low
                            /\ single.cc.v = word.v /\ single.cc.c = word.c
    BY DEF ShiftsAreSteps
  <2> DEFINE x == r[0]
             z == r[1]
             single == ShiftWord(x, count)
             double == ShiftDouble(x, z, count)
             pair == Shifts(x, z, count)
             left == Shifts(x, 0, count)
             right == Shifts(Ends(x), x, count)
  <2>2. x \in Word /\ z \in Word
    BY <2>1 DEF TypeOK, Reg
  <2>3. \/ count = 0 \/ count \in 1 .. W - 1 \/ count \in W .. 2 * W - 1 \/ count \in 2 * W .. 4 * W - 1
    BY <2>1, WordAssumption DEF Counts
  <2>4. /\ count = 0 \/ count \in 1 .. W - 1 \/ count \in W .. 2 * W - 1 => count < 2 * W
        /\ count \in 2 * W .. 4 * W - 1 => ~(count < 2 * W)
        /\ count \in 1 .. W - 1 \/ count \in W .. 2 * W - 1 => count \in 1 .. 2 * W - 1
    BY WordAssumption
  <2>5. double.x = Double(pair.high, pair.low) /\ double.cc.v = pair.v /\ double.cc.c = pair.c
    <3>1. CASE count = 0
      BY <2>2, <3>1, DoubleNone
    <3>2. CASE count \in 1 .. 2 * W - 1
      BY <2>2, <3>2, DoubleLeft
    <3>3. CASE count \in 2 * W .. 4 * W - 1
      BY <2>2, <3>3, DoubleRight
    <3> QED BY <2>3, <2>4, <3>1, <3>2, <3>3
  <2>6. ASSUME count < 2 * W
        PROVE  single.x = left.high /\ single.cc.v = left.v /\ single.cc.c = left.c
    <3>1. CASE count = 0
      BY <2>2, <3>1, WordNone
    <3>2. CASE count \in 1 .. W - 1
      BY <2>2, <3>2, WordLeft
    <3>3. CASE count \in W .. 2 * W - 1
      BY <2>2, <3>3, WordGone
    <3> QED BY <2>3, <2>4, <2>6, <3>1, <3>2, <3>3
  <2>7. ASSUME ~(count < 2 * W)
        PROVE  single.x = right.low /\ single.cc.v = right.v /\ single.cc.c = right.c
    <3>1. count \in 2 * W .. 4 * W - 1
      BY <2>3, <2>4, <2>7
    <3> QED BY <2>2, <3>1, WordRight
  <2>8. Shifts(IF Neg(r[0]) THEN Size - 1 ELSE 0, r[0], count) = right
    BY DEF Ends
  <2> HIDE DEF single, double, pair, left, right
  <2> QED BY <2>5, <2>6, <2>7, <2>8 DEF single, double, pair, left
<1> QED BY <1>1, AluTypeCorrect, PTL

=============================================================================
