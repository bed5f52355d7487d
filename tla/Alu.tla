-------------------------------- MODULE Alu --------------------------------
(***************************************************************************)
(* Arithmetic and condition codes of core/core.c: the instructions that    *)
(* compute on words of W bits (16, or 8 for the byte forms), the branches  *)
(* that read N, Z, V and C, and MUL, DIV, ASH and ASHC on a register pair. *)
(* The operators compute what the code computes, with its conditions; the  *)
(* properties compare them with signed and unsigned arithmetic.            *)
(* A state is a register pair, R0 and R1, and the condition codes.         *)
(* Logical instructions are left out, and writes to the PSW by its address *)
(* (which keep an instruction from setting the codes) as well.             *)
(***************************************************************************)
EXTENDS Integers

CONSTANTS
    W,      \* bound: bits of a word, 16 in the code
    H       \* weight of the sign bit

ASSUME WordAssumption == W \in Nat \ {0} /\ H \in Nat \ {0} /\ 2 * H = 2 ^ W

\* What ^ means, which the provers do not know.
ASSUME PowersAssumption == \A n \in 0 .. 4 * W : 2 ^ (n + 1) = 2 * 2 ^ n

VARIABLES
    r,      \* R0 and R1
    cc      \* condition codes

vars == <<r, cc>>

Size == 2 * H
Word == 0 .. Size - 1
Reg == {0, 1}
Codes == [n : BOOLEAN, z : BOOLEAN, v : BOOLEAN, c : BOOLEAN]

Neg(x) == x >= H                                   \* x & SIGN
Bit(b) == IF b THEN 1 ELSE 0
Signed(x) == IF Neg(x) THEN x - Size ELSE x        \* (sword)x

\* x & 0177777, of a sum or a difference of words, and of any number.
Wrap(x) == IF x >= Size THEN x - Size ELSE IF x < 0 THEN x + Size ELSE x
Low(x) == x % Size

\* PSW_SET_NZVC: a word and the condition codes that go with it.
Result(x, v, c) == [x |-> x, cc |-> [n |-> Neg(x), z |-> x = 0, v |-> v, c |-> c]]

-----------------------------------------------------------------------------
(* Sums and differences.                                                   *)

\* Mutant of Add: V compares the result with one operand only.
AddOneSign(s, d) ==
    LET sum == s + d
    IN  Result(Wrap(sum), Neg(s) # Neg(Wrap(sum)), sum >= Size)

Add(s, d) ==
    LET sum == s + d
    IN  Result(Wrap(sum), Neg(s) = Neg(d) /\ Neg(s) # Neg(Wrap(sum)), sum >= Size)

Subtract(s, d) ==
    LET sum == d + (Size - 1 - s) + 1
    IN  Result(Wrap(sum), Neg(s) # Neg(d) /\ Neg(s) = Neg(Wrap(sum)), ~(sum >= Size))

\* Mutant of Compare: the operands of SUB, whose destination comes first.
CompareSwapped(s, d) == Subtract(s, d)

Compare(s, d) ==
    LET sum == s + (Size - 1 - d) + 1
    IN  Result(Wrap(sum), Neg(s) # Neg(d) /\ Neg(d) = Neg(Wrap(sum)), ~(sum >= Size))

Increment(x, c) == Result(Wrap(x + 1), x = H - 1, c)
Decrement(x, c) == Result(Wrap(x - 1), x = H, c)

Negate(x) ==
    LET y == Wrap(Size - 1 - x + 1) IN Result(y, y = H, y # 0)

AddCarry(x, c) == Result(IF c THEN Wrap(x + 1) ELSE x, c /\ x = H - 1, c /\ x = Size - 1)
SubtractCarry(x, c) == Result(IF c THEN Wrap(x - 1) ELSE x, c /\ x = H, c /\ x = 0)

Complement(x) == Result(Size - 1 - x, FALSE, TRUE)
Test(x) == Result(x, FALSE, FALSE)
Move(x, c) == Result(x, FALSE, c)
SignExtend(codes) ==
    [x |-> IF codes.n THEN Size - 1 ELSE 0, cc |-> [codes EXCEPT !.z = ~codes.n, !.v = FALSE]]

-----------------------------------------------------------------------------
(* Shifts by one bit; V is N exclusive-or C.                               *)

Shifted(x, c) == Result(x, Neg(x) # c, c)

ShiftRight(x) == Shifted((x \div 2) + (IF Neg(x) THEN H ELSE 0), x % 2 = 1)
ShiftLeft(x) == Shifted(Low(2 * x), Neg(x))
RotateRight(x, c) == Shifted((x \div 2) + (IF c THEN H ELSE 0), x % 2 = 1)
RotateLeft(x, c) == Shifted(Low(2 * x) + Bit(c), Neg(x))

-----------------------------------------------------------------------------
(* Branches: taken or not.                                                 *)

BGE(k) == k.n = k.v
BLT(k) == k.n # k.v
BGT(k) == k.n = k.v /\ ~k.z
BLE(k) == k.n # k.v \/ k.z
BHI(k) == ~k.c /\ ~k.z
BLOS(k) == k.c \/ k.z
BHIS(k) == ~k.c
BLO(k) == k.c
BEQ(k) == k.z

-----------------------------------------------------------------------------
(* MUL, DIV, ASH and ASHC.                                                 *)

DoubleSize == Size * Size
Double(high, low) == high * Size + low
SignedDouble(high, low) == Signed(high) * Size + low
Counts == 0 .. 4 * W - 1                \* the low six bits of the operand
Right(count) == 4 * W - count           \* a count of 2 * W and more is negative

\* The pair R0, R1, or the odd register R1 alone, which both words go to.
Pair(odd, high, low) == [k \in Reg |-> IF odd \/ k = 1 THEN low ELSE high]
High(x) == (x \div Size) % Size
Upper(odd, x) == IF odd THEN x[1] ELSE x[0]

Multiply(odd, x, s) ==
    LET product == Signed(Upper(odd, x)) * Signed(s)
    IN  [r |-> IF odd THEN [x EXCEPT ![1] = Low(product)] ELSE Pair(FALSE, High(product), Low(product)),
         cc |-> [n |-> product < 0, z |-> product = 0, v |-> FALSE,
                 c |-> product > H - 1 \/ product < 0 - H]]

\* Mutant of Quotient: rounded down.
QuotientFloor(a, b) == IF b > 0 THEN a \div b ELSE (0 - a) \div (0 - b)

\* Division of C, which rounds towards zero.
Magnitude(x) == IF x < 0 THEN 0 - x ELSE x
Quotient(a, b) ==
    LET q == Magnitude(a) \div Magnitude(b) IN IF (a < 0) = (b < 0) THEN q ELSE 0 - q

\* The J-11: an odd register keeps the remainder, written last.
Divide(odd, x, s) ==
    LET dividend == SignedDouble(Upper(odd, x), x[1])
        divisor  == Signed(s)
        quotient == IF divisor = 0 THEN 0 ELSE Quotient(dividend, divisor)
        keep(n, z, c) == [r |-> x, cc |-> [n |-> n, z |-> z, v |-> TRUE, c |-> c]]
    IN  IF divisor = 0 THEN keep(FALSE, TRUE, TRUE)
        ELSE IF dividend = 0 - H * Size /\ divisor = 0 - 1 THEN keep(FALSE, FALSE, FALSE)
        ELSE IF quotient > H - 1 \/ quotient < 0 - H THEN keep(quotient < 0, FALSE, FALSE)
        ELSE [r |-> IF odd THEN [x EXCEPT ![1] = Low(dividend - divisor * quotient)]
                    ELSE Pair(FALSE, Low(quotient), Low(dividend - divisor * quotient)),
              cc |-> [n |-> quotient < 0, z |-> quotient = 0, v |-> FALSE, c |-> FALSE]]

\* Mutant of LastOut: the bit after.
LastOutNext(x, k) == (x \div 2 ^ k) % 2 = 1

\* The last bit that a right shift by k moves out.
LastOut(x, k) == (x \div 2 ^ (k - 1)) % 2 = 1

\* ASH: the word is extended to a double word.
ShiftWord(x, count) ==
    LET wide  == Signed(x) % DoubleSize
        k     == Right(count)
        left  == Low(x * 2 ^ count)
        spill == Low(wide \div 2 ^ (W - count))
    IN  CASE count = 0         -> Result(x, FALSE, FALSE)
          [] count \in 1 .. W - 1 ->
               Result(left, spill # (IF Neg(left) THEN Size - 1 ELSE 0), spill % 2 = 1)
          [] count \in W .. 2 * W - 1 -> Result(0, x # 0, (wide * 2 ^ (count - W)) % 2 = 1)
          [] count = 2 * W     -> Result(IF Neg(x) THEN Size - 1 ELSE 0, FALSE, Neg(x))
          [] OTHER             -> Result(Low(Signed(x) \div 2 ^ k), FALSE, LastOut(wide, k))

\* ASHC
ShiftDouble(high, low, count) ==
    LET x     == Double(high, low)
        fill  == IF Neg(high) THEN DoubleSize ELSE 0
        k     == Right(count)
        left  == (x * 2 ^ count) % DoubleSize
        ones  == IF left >= H * Size THEN DoubleSize - 1 ELSE 0
        spill == (x \div 2 ^ (2 * W - count)) + (IF Neg(high) THEN DoubleSize - 2 ^ count ELSE 0)
        result(y, v, c) == [x |-> y, cc |-> [n |-> y >= H * Size, z |-> y = 0, v |-> v, c |-> c]]
    IN  CASE count = 0     -> result(x, FALSE, FALSE)
          [] count \in 1 .. 2 * W - 1 -> result(left, spill # ones, spill % 2 = 1)
          [] count = 2 * W -> result(IF Neg(high) THEN DoubleSize - 1 ELSE 0, FALSE, Neg(high))
          [] OTHER         -> result(((x - fill) \div 2 ^ k) % DoubleSize, FALSE, LastOut(x, k))

-----------------------------------------------------------------------------
(* Instructions.                                                           *)

Init == r = [k \in Reg |-> 0] /\ cc = [n |-> FALSE, z |-> FALSE, v |-> FALSE, c |-> FALSE]

Store(k, result) == r' = [r EXCEPT ![k] = result.x] /\ cc' = result.cc
Codify(result) == cc' = result.cc /\ UNCHANGED r

DoMove == \E k \in Reg, s \in Word : Store(k, Move(s, cc.c))
DoAdd == \E k \in Reg, s \in Word : Store(k, Add(s, r[k]))
DoSubtract == \E k \in Reg, s \in Word : Store(k, Subtract(s, r[k]))
DoCompare == \E k \in Reg, s \in Word : Codify(Compare(s, r[k]))
DoTest == \E k \in Reg : Codify(Test(r[k]))
DoCount == \E k \in Reg : Store(k, Increment(r[k], cc.c)) \/ Store(k, Decrement(r[k], cc.c))
DoNegate == \E k \in Reg : Store(k, Negate(r[k])) \/ Store(k, Complement(r[k]))
DoCarry == \E k \in Reg : Store(k, AddCarry(r[k], cc.c)) \/ Store(k, SubtractCarry(r[k], cc.c))
DoExtend == \E k \in Reg : Store(k, SignExtend(cc))
DoShift == \E k \in Reg : Store(k, ShiftRight(r[k])) \/ Store(k, ShiftLeft(r[k]))
DoRotate == \E k \in Reg : Store(k, RotateRight(r[k], cc.c)) \/ Store(k, RotateLeft(r[k], cc.c))
DoShiftWord == \E k \in Reg, count \in Counts : Store(k, ShiftWord(r[k], count))
DoMultiply ==
    \E odd \in BOOLEAN, s \in Word : r' = Multiply(odd, r, s).r /\ cc' = Multiply(odd, r, s).cc
DoDivide ==
    \E odd \in BOOLEAN, s \in Word : r' = Divide(odd, r, s).r /\ cc' = Divide(odd, r, s).cc
DoShiftDouble ==
    \E odd \in BOOLEAN, count \in Counts :
        LET y == ShiftDouble(Upper(odd, r), r[1], count)
        IN  /\ r' = IF odd THEN [r EXCEPT ![1] = Low(y.x)] ELSE Pair(FALSE, High(y.x), Low(y.x))
            /\ cc' = y.cc

Next ==
    \/ DoMove \/ DoAdd \/ DoSubtract \/ DoCompare \/ DoTest \/ DoCount \/ DoNegate \/ DoCarry
    \/ DoExtend \/ DoShift \/ DoRotate \/ DoShiftWord \/ DoMultiply \/ DoDivide \/ DoShiftDouble

Spec == Init /\ [][Next]_vars

-----------------------------------------------------------------------------
(* Properties.                                                             *)

\* Types of the registers and the condition codes.
TypeOK == r \in [Reg -> Word] /\ cc \in Codes

\* A result of which the true value is value: N, Z and V are those of signed arithmetic.
SignedExact(result, value) ==
    /\ result.x \in Word /\ (result.x = value \/ result.x = value + Size \/ result.x = value - Size)
    /\ (result.cc.v <=> value \notin (0 - H) .. H - 1)
    /\ (result.cc.n <=> Signed(result.x) < 0) /\ (result.cc.z <=> result.x = 0)
CarryExact(result, value) == result.cc.c <=> value \notin Word

\* ADD, SUB, CMP, NEG, ADC, SBC, INC and DEC give the sum or the difference, V when it does not
\* fit the signed word and C when it does not fit the unsigned one (INC and DEC keep C): for
\* all operands, the carry in included, by conditions on signs and single values in the code.
ArithmeticExact ==
    LET d == r[0]
        x == Signed(d)
        c == Bit(cc.c)
    IN
    /\ \A s \in Word :
          /\ SignedExact(Add(s, d), Signed(s) + x) /\ CarryExact(Add(s, d), s + d)
          /\ SignedExact(Subtract(s, d), x - Signed(s)) /\ CarryExact(Subtract(s, d), d - s)
          /\ SignedExact(Compare(s, d), Signed(s) - x) /\ CarryExact(Compare(s, d), s - d)
    /\ SignedExact(Negate(d), 0 - x) /\ CarryExact(Negate(d), 0 - d)
    /\ SignedExact(AddCarry(d, cc.c), x + c) /\ CarryExact(AddCarry(d, cc.c), d + c)
    /\ SignedExact(SubtractCarry(d, cc.c), x - c) /\ CarryExact(SubtractCarry(d, cc.c), d - c)
    /\ SignedExact(Increment(d, cc.c), x + 1) /\ SignedExact(Decrement(d, cc.c), x - 1)

\* After CMP the branches take the signed order (BGE, BLT, BGT, BLE), the unsigned one (BHI,
\* BLOS, BHIS, BLO) and equality of the operands, whatever their signs and overflow.
BranchesOrder ==
    \A s \in Word :
        LET d == r[0]
            k == Compare(s, d).cc
        IN  /\ (BGE(k) <=> Signed(s) >= Signed(d)) /\ (BLT(k) <=> Signed(s) < Signed(d))
            /\ (BGT(k) <=> Signed(s) > Signed(d)) /\ (BLE(k) <=> Signed(s) <= Signed(d))
            /\ (BHI(k) <=> s > d) /\ (BLOS(k) <=> s <= d)
            /\ (BHIS(k) <=> s >= d) /\ (BLO(k) <=> s < d) /\ (BEQ(k) <=> s = d)

\* n shifts by one bit of a word by ASL or ASR, or of a pair by ASL, ROL or ASR, ROR; V tells
\* whether a left shift has changed the sign on the way.
Start(high, low) == [high |-> high, low |-> low, v |-> FALSE, c |-> FALSE]
LeftStep(p) ==
    LET l == ShiftLeft(p.low)
        h == RotateLeft(p.high, l.cc.c)
    IN  [high |-> h.x, low |-> l.x, v |-> p.v \/ h.cc.v, c |-> h.cc.c]
RightStep(p) ==
    LET h == ShiftRight(p.high)
        l == RotateRight(p.low, h.cc.c)
    IN  [high |-> h.x, low |-> l.x, v |-> FALSE, c |-> l.cc.c]
Shifts(high, low, count) ==
    LET left[n \in 0 .. 2 * W] == IF n = 0 THEN Start(high, low) ELSE LeftStep(left[n - 1])
        right[n \in 0 .. 2 * W] == IF n = 0 THEN Start(high, low) ELSE RightStep(right[n - 1])
    IN  IF count < 2 * W THEN left[count] ELSE right[Right(count)]

\* ASH and ASHC give for every count, positive or negative and up to twice the word, the word
\* or pair and the V and C that as many shifts by one bit give.
ShiftsAreSteps ==
    \A count \in Counts :
        LET single == ShiftWord(r[0], count)
            double == ShiftDouble(r[0], r[1], count)
            pair   == Shifts(r[0], r[1], count)
            \* a word shifted left is the upper half of a pair, and right the lower one
            word   == IF count < 2 * W THEN Shifts(r[0], 0, count)
                      ELSE Shifts(IF Neg(r[0]) THEN Size - 1 ELSE 0, r[0], count)
        IN  /\ double.x = Double(pair.high, pair.low)
            /\ double.cc.v = pair.v /\ double.cc.c = pair.c
            /\ single.x = IF count < 2 * W THEN word.high ELSE word.low
            /\ single.cc.v = word.v /\ single.cc.c = word.c

\* p is the remainder of x divided by b: of the sign of x, and less than b.
IsRemainder(p, x, b) ==
    /\ p = 0 \/ (p < 0) = (x < 0)
    /\ Magnitude(p) < Magnitude(b)

\* DIV gives the quotient rounded towards zero and a remainder with the sign of the dividend; V
\* and the registers as they were when no word is such a quotient; and it takes back MUL.
DivisionExact ==
    \A s \in Word :
        LET x == SignedDouble(r[0], r[1])
            y == Divide(FALSE, r, s)
            b == Signed(s)
            q == Signed(y.r[0])
            p == Signed(y.r[1])
            m == Multiply(FALSE, r, s).r
        IN  /\ IF y.cc.v
               THEN /\ y.r = r
                    /\ \A k \in Word : ~IsRemainder(x - Signed(k) * b, x, b)
               ELSE x = q * b + p /\ IsRemainder(p, x, b)
            /\ s # 0 => Divide(FALSE, m, s).r = [m EXCEPT ![0] = r[0], ![1] = 0]

=============================================================================
