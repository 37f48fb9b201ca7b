-------------------------------- MODULE Bits --------------------------------
(***************************************************************************)
(* The integer puzzles of the data lab: the solutions of bits.c and the    *)
(* reference functions of tests.c, on words of W bits (32 in the code).    *)
(* A word is the set of the positions that hold a 1, so that an operation  *)
(* of C on words is an operation on sets.  Sums wrap around: bits.c:72     *)
(* assumes two's complement, as does every build the lab is run with.      *)
(*                                                                         *)
(* The references are translated as they stand, on integers.  The float    *)
(* puzzles are unsolved (return 2) and only their names are modelled.      *)
(***************************************************************************)
EXTENDS Integers, FiniteSetsExt

CONSTANT W      \* bits of an int

\* 0x39 is a positive int.
ASSUME WordAssumption == W \in Nat /\ W >= 7

Bit == 0..(W - 1)
Word == SUBSET Bit
Sign == W - 1

----------------------------------------------------------------------------
(* The operators of C.                                                     *)

Zero == {}
One == {0}
Not(x) == Bit \ x                       \* ~x
Xor(x, y) == (x \ y) \cup (y \ x)       \* x ^ y;  & and | are \cap and \cup
Truth(b) == IF b THEN One ELSE Zero       \* the value of a comparison
Bang(x) == Truth(x = Zero)                \* !x

\* A 1 is carried into position i from a lower j where it arises.
Carry(x, y, i) ==
    \E j \in 0..(i - 1) :
        j \in x \cap y /\ \A k \in (j + 1)..(i - 1) : k \in x \cup y
Plus(x, y) == {i \in Bit : (i \in x) <=> ((i \in y) <=> Carry(x, y, i))}

Shl(x, n) == {i \in Bit : i - n \in x}
\* The sign is shifted in.
Sar(x, n) == {i \in Bit : (IF i + n < W THEN i + n ELSE Sign) \in x}

\* The integer a word stands for, and back.
Unsigned(x) == MapThenSumSet(LAMBDA i : 2 ^ i, x)
Signed(x) == Unsigned(x) - (IF Sign \in x THEN 2 ^ W ELSE 0)
WordOf(n) == {i \in Bit : (n \div 2 ^ i) % 2 = 1}

TMin == -(2 ^ (W - 1))
TMax == 2 ^ (W - 1) - 1

----------------------------------------------------------------------------
(* The solutions (bits.c).                                                 *)

bitXor(x, y) == Not(Not(x) \cap Not(y)) \cap Not(x \cap y)

tmin == Shl(One, W - 1)

\* m is 0x7fffffff.
isTmax(x) == LET m == Bit \ {Sign} IN Bang(Xor(x, m))

\* f is 0xAAAAAAAA.
allOddBits(x) == LET f == {i \in Bit : i % 2 = 1} IN Bang(Xor(x \cap f, f))

negate(x) == Plus(Not(x), One)

\* The borders are compared apart; between them the differences have signs.
isAsciiDigit(x) ==
    LET leftMask == WordOf(48)
        rightMask == WordOf(57)
        SignOf(w) == Sar(w, W - 1) \cap One
    IN  Bang(Xor(x, leftMask)) \cup Bang(Xor(x, rightMask))
        \cup (SignOf(Plus(leftMask, negate(x)))
              \cap Bang(SignOf(Plus(rightMask, negate(x)))))

\* ~1 + 1 is -1.
conditional(x, y, z) ==
    LET f == Plus(Bang(x), Plus(Not(One), One))
    IN  (f \cap y) \cup (Not(f) \cap z)

\* Fault: the sign of the difference decides, even when it overflows.
isLessOrEqual_Overflow(x, y) == Bang(Sar(Plus(y, negate(x)), W - 1))

\* The difference decides only when it cannot overflow.
isLessOrEqual(x, y) ==
    LET diff_sgn == Xor(Bang(Sar(x, W - 1)), Bang(Sar(y, W - 1)))
        a == diff_sgn \cap Sar(x, W - 1)
        b == Bang(diff_sgn) \cap Bang(Sar(Plus(y, negate(x)), W - 1))
    IN  a \cup b

logicalNeg(x) ==
    LET signBit == Sar(x \cup negate(x), W - 1) IN Xor(signBit \cap One, One)

\* Not solved.
howManyBits(x) == Zero

----------------------------------------------------------------------------
(* The references (tests.c).                                               *)

test_bitXor(x, y) == Xor(x, y)
test_tmin == WordOf(2 ^ (W - 1))
test_isTmax(x) == Truth(Signed(x) = TMax)
test_allOddBits(x) == Truth(\A i \in {j \in Bit : j % 2 = 1} : x \cap Shl(One, i) # Zero)
test_negate(x) == WordOf(-Signed(x))
test_isAsciiDigit(x) == Truth(Signed(x) \in 48..57)
test_conditional(x, y, z) == IF x # Zero THEN y ELSE z
test_isLessOrEqual(x, y) == Truth(Signed(x) <= Signed(y))
test_logicalNeg(x) == Bang(x)

\* The loop shifts a right until it is 0.
test_howManyBits(x) ==
    LET a == IF Signed(x) < 0 THEN -Signed(x) - 1 ELSE Signed(x)
    IN  WordOf(1 + Min({n \in 0..W : a < 2 ^ n}))
=============================================================================
