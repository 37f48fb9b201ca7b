---------------------------- MODULE BTestProofs -----------------------------
(***************************************************************************)
(* Proofs about the data lab: arithmetic on words, that the solutions of   *)
(* bits.c agree with the references of tests.c on every word of every      *)
(* width, and the invariants of the test driver btest.c.                   *)
(***************************************************************************)
EXTENDS BTest, NumberLemmas, TLAPS

(* Words.                                                                  *)

\* What each position is worth, and the sum of the k lowest of a word.
Pow == [k \in Bit |-> 2^k]
Low(x, k) == x \cap (0..(k - 1))
LowSum(x, k) == SumOf(Pow, Low(x, k))

LEMMA BitsFinite ==
    ASSUME NEW x \in Word
    PROVE  IsFiniteSet(x) /\ \A k \in x : Pow[k] = 2^k /\ Pow[k] \in Int
<1>1. IsFiniteSet(Bit)
  BY FS_Interval, WordAssumption DEF Bit
<1>2. x \subseteq Bit
  BY DEF Word
<1>3. IsFiniteSet(x)
  BY <1>1, <1>2, FS_Subset
<1>4. ASSUME NEW k \in x PROVE Pow[k] = 2^k /\ 2^k \in Int
  <2>1. k \in Nat /\ k \in Bit
    BY <1>2, WordAssumption DEF Bit
  <2> QED BY <2>1, PowerType DEF Pow
<1> QED BY <1>3, <1>4

LEMMA UnsignedIs == ASSUME NEW x \in Word PROVE Unsigned(x) = SumOf(Pow, x)
<1>1. IsFiniteSet(x) /\ \A k \in x : Pow[k] = 2^k /\ Pow[k] \in Int
  BY BitsFinite
<1> DEFINE I(it) == it = [s \in SUBSET x |->
                             IF s = {} THEN 0
                             ELSE LET k == CHOOSE k \in s : TRUE IN 2^k + it[s \ {k}]]
<1>2. ASSUME NEW it PROVE SumsUp(it, Pow, x) <=> I(it)
  <2>1. \A s \in SUBSET x : s # {} => Pow[Chosen(s)] = 2^Chosen(s)
    BY <1>1 DEF Chosen
  <2>2. [s \in SUBSET x |-> IF s = {} THEN 0 ELSE Pow[Chosen(s)] + it[s \ {Chosen(s)}]] =
        [s \in SUBSET x |-> IF s = {} THEN 0 ELSE 2^Chosen(s) + it[s \ {Chosen(s)}]]
    BY <2>1
  <2> QED BY <2>2 DEF SumsUp, Chosen
<1>3. Unsigned(x) = (CHOOSE it : I(it))[x]
  BY DEF Unsigned, MapThenSumSet, MapThenFoldSet
<1> HIDE DEF I
<1>4. (CHOOSE it : I(it)) = (CHOOSE it : SumsUp(it, Pow, x))
  BY <1>2
<1> QED BY <1>3, <1>4 DEF SumOf

\* The sum grows by one position at a time,
LEMMA LowZero == ASSUME NEW x \in Word PROVE LowSum(x, 0) = 0
<1>1. Low(x, 0) = {}
  BY DEF Low
<1> QED BY <1>1, SumEmpty DEF LowSum

LEMMA LowNext ==
    ASSUME NEW x \in Word, NEW k \in Bit
    PROVE  /\ LowSum(x, k) \in Int
           /\ LowSum(x, k + 1) = LowSum(x, k) + (IF k \in x THEN 2^k ELSE 0)
<1>1. k \in Nat
  BY WordAssumption DEF Bit
<1>2. \A s \in SUBSET x : s \in Word
  BY DEF Word
<1>3. Low(x, k) \in Word /\ k \notin Low(x, k)
  BY <1>1, <1>2 DEF Low
<1>4. /\ IsFiniteSet(Low(x, k)) /\ \A j \in Low(x, k) : Pow[j] \in Int
      /\ Pow[k] = 2^k /\ Pow[k] \in Int
  BY <1>1, <1>3, BitsFinite, PowerType DEF Pow
<1>5. LowSum(x, k) \in Int
  BY <1>4, SumIs DEF LowSum
<1>6. CASE k \in x
  <2>1. Low(x, k + 1) = Low(x, k) \cup {k}
    BY <1>1, <1>6 DEF Low
  <2>2. SumOf(Pow, Low(x, k) \cup {k}) = Pow[k] + SumOf(Pow, Low(x, k))
    BY <1>3, <1>4, SumAdd
  <2>3. LowSum(x, k + 1) = 2^k + LowSum(x, k)
    BY <1>4, <2>1, <2>2 DEF LowSum
  <2> PICK p \in Int : p = 2^k
    BY <1>4
  <2> QED BY <1>5, <1>6, <2>3
<1>7. CASE k \notin x
  <2>1. Low(x, k + 1) = Low(x, k)
    BY <1>1, <1>7 DEF Low
  <2> QED BY <1>5, <1>7, <2>1 DEF LowSum
<1> QED BY <1>5, <1>6, <1>7

\* up to the whole word.
LEMMA LowAll == ASSUME NEW x \in Word PROVE LowSum(x, W) = Unsigned(x)
<1>1. Low(x, W) = x
  BY DEF Low, Word, Bit
<1> QED BY <1>1, UnsignedIs DEF LowSum

\* Induction on the positions.
LEMMA BitInduction ==
    ASSUME NEW T, 0 \in T, \A k \in Bit : k \in T => k + 1 \in T
    PROVE  \A k \in 0..W : k \in T
<1> DEFINE R == {n \in Nat : n <= W => n \in T}
<1>1. 0 \in R
  OBVIOUS
<1>2. ASSUME NEW n \in Nat, n \in R PROVE n + 1 \in R
  <2>1. n + 1 <= W => n \in Bit
    BY WordAssumption DEF Bit
  <2> QED BY <1>2, <2>1, WordAssumption
<1>3. \A n \in Nat : n \in R
  <2> HIDE DEF R
  <2> QED BY <1>1, <1>2, SetInduction
<1> QED BY <1>3, WordAssumption

LEMMA PowerBit ==
    ASSUME NEW k \in 0..W
    PROVE  k \in Nat /\ 2^k \in Nat \ {0} /\ 2^(k + 1) = 2^k + 2^k
<1>1. k \in Nat
  BY WordAssumption
<1> QED BY <1>1, PowerNext

\* It is less than the next power of two,
LEMMA LowBound == ASSUME NEW x \in Word PROVE \A k \in 0..W : LowSum(x, k) \in 0..(2^k - 1)
<1> DEFINE T == {k \in 0..W : LowSum(x, k) \in 0..(2^k - 1)}
<1>1. 0 \in T
  BY LowZero, PowerZero, WordAssumption
<1>2. ASSUME NEW k \in Bit, k \in T PROVE k + 1 \in T
  <2>1. k \in 0..W /\ k + 1 \in 0..W
    BY WordAssumption DEF Bit
  <2> PICK p : p = 2^k
    OBVIOUS
  <2> PICK u : u = LowSum(x, k)
    OBVIOUS
  <2>2. p \in Nat \ {0} /\ 2^(k + 1) = p + p
    BY <2>1, PowerBit
  <2>3. u \in 0..(p - 1)
    BY <1>2
  <2>4. LowSum(x, k + 1) = u + (IF k \in x THEN p ELSE 0)
    BY LowNext
  <2>5. LowSum(x, k + 1) \in 0..(2^(k + 1) - 1)
    BY <2>2, <2>3, <2>4
  <2> QED BY <2>1, <2>5
<1>3. \A k \in 0..W : k \in T
  <2> HIDE DEF T
  <2> QED BY <1>1, <1>2, BitInduction
<1> QED BY <1>3

\* it gives the bits away,
LEMMA LowUnique ==
    ASSUME NEW x \in Word, NEW y \in Word
    PROVE  \A k \in 0..W : LowSum(x, k) = LowSum(y, k) => Low(x, k) = Low(y, k)
<1> DEFINE T == {k \in 0..W : LowSum(x, k) = LowSum(y, k) => Low(x, k) = Low(y, k)}
<1>1. 0 \in T
  BY WordAssumption DEF Low
<1>2. ASSUME NEW k \in Bit, k \in T PROVE k + 1 \in T
  <2>1. k \in 0..W /\ k + 1 \in 0..W
    BY WordAssumption DEF Bit
  <2> SUFFICES ASSUME LowSum(x, k + 1) = LowSum(y, k + 1)
               PROVE  Low(x, k + 1) = Low(y, k + 1)
    BY <2>1
  <2> PICK p : p = 2^k
    OBVIOUS
  <2> PICK u, v : u = LowSum(x, k) /\ v = LowSum(y, k)
    OBVIOUS
  <2>2. p \in Nat \ {0}
    BY <2>1, PowerBit
  <2>3. u \in 0..(p - 1) /\ v \in 0..(p - 1)
    BY <2>1, LowBound
  <2>4. u + (IF k \in x THEN p ELSE 0) = v + (IF k \in y THEN p ELSE 0)
    BY LowNext
  <2>5. (k \in x <=> k \in y) /\ u = v
    BY <2>2, <2>3, <2>4
  <2>6. Low(x, k) = Low(y, k)
    BY <1>2, <2>5
  <2> QED BY <2>1, <2>5, <2>6 DEF Low
<1>3. \A k \in 0..W : k \in T
  <2> HIDE DEF T
  <2> QED BY <1>1, <1>2, BitInduction
<1> QED BY <1>3

\* and for the bits of a number it is the remainder.
LEMMA LowWordOf ==
    ASSUME NEW n \in Int
    PROVE  WordOf(n) \in Word /\ \A k \in 0..W : LowSum(WordOf(n), k) = n % 2^k
<1> DEFINE x == WordOf(n)
           T == {k \in 0..W : LowSum(x, k) = n % 2^k}
<1>0. x \in Word /\ \A k \in Bit : k \in x <=> (n \div 2^k) % 2 = 1
  BY DEF WordOf, Word
<1> HIDE DEF x
<1>1. 0 \in T
  BY <1>0, LowZero, PowerZero, WordAssumption
<1>2. ASSUME NEW k \in Bit, k \in T PROVE k + 1 \in T
  <2>1. k \in 0..W /\ k + 1 \in 0..W
    BY WordAssumption DEF Bit
  <2> PICK p : p = 2^k
    OBVIOUS
  <2>2. p \in Nat \ {0} /\ 2^(k + 1) = p + p
    BY <2>1, PowerBit
  <2>3. n % (p + p) = (n % p) + (IF (n \div p) % 2 = 1 THEN p ELSE 0)
    BY <2>2, RemainderTwice
  <2>4. LowSum(x, k + 1) = LowSum(x, k) + (IF k \in x THEN p ELSE 0)
    BY <1>0, LowNext
  <2>5. LowSum(x, k) = n % p /\ (k \in x <=> (n \div p) % 2 = 1)
    BY <1>0, <1>2
  <2>6. LowSum(x, k + 1) = n % 2^(k + 1)
    BY ONLY <2>2, <2>3, <2>4, <2>5
  <2> QED BY <2>1, <2>6
<1>3. \A k \in 0..W : k \in T
  <2> HIDE DEF T
  <2> QED BY <1>1, <1>2, BitInduction
<1> QED BY <1>0, <1>3 DEF x

----------------------------------------------------------------------------
(* Words as numbers.  M is the number of words, H half of it.              *)

M == 2^W
H == 2^(W - 1)

LEMMA Halves == H \in Nat /\ H >= 64 /\ M = H + H /\ M \in Nat \ {0}
<1>1. W - 1 \in 0..W /\ (W - 1) + 1 = W
  BY WordAssumption
<1>2. H \in Nat \ {0} /\ M = H + H
  BY <1>1, PowerBit DEF H, M
<1>3. 2^6 = 64
  <2>1. 2^0 = 1
    BY PowerZero
  <2>2. 2^1 = 2^0 + 2^0 /\ 2^2 = 2^1 + 2^1 /\ 2^3 = 2^2 + 2^2
    <3>1. \A n \in Nat : 2^(n + 1) = 2^n + 2^n
      BY PowerNext
    <3> QED BY <3>1
  <2>3. 2^4 = 2^3 + 2^3 /\ 2^5 = 2^4 + 2^4 /\ 2^6 = 2^5 + 2^5
    <3>1. \A n \in Nat : 2^(n + 1) = 2^n + 2^n
      BY PowerNext
    <3> QED BY <3>1
  <2> QED BY <2>1, <2>2, <2>3
<1>4. H >= 64
  <2> PICK d \in Nat : d = W - 7
    BY WordAssumption
  <2>1. 2^(d + 6) = 2^d * 2^6
    BY PowerSum
  <2>2. d + 6 = W - 1
    BY WordAssumption
  <2>3. 2^d \in Nat \ {0}
    BY PowerType
  <2>4. 64 <= 2^d * 64
    BY <2>3, ProductAbove
  <2> QED BY <1>3, <2>1, <2>2, <2>4 DEF H
<1> QED BY <1>2, <1>4

LEMMA SignIsBit == Sign \in Bit /\ 0 \in Bit /\ Sign # 0 /\ Zero \in Word /\ One \in Word /\ Bit \in Word
BY WordAssumption DEF Sign, Bit, Zero, One, Word

\* The number a word stands for determines the word; its top bit says
\* whether it is in the upper half.
LEMMA UnsignedType ==
    ASSUME NEW x \in Word
    PROVE  /\ Unsigned(x) \in 0..(M - 1)
           /\ Sign \in x <=> Unsigned(x) >= H
           /\ Signed(x) = Unsigned(x) - (IF Sign \in x THEN M ELSE 0)
<1>1. Unsigned(x) \in 0..(M - 1)
  <2>1. W \in 0..W
    BY WordAssumption
  <2> QED BY <2>1, LowBound, LowAll DEF M
<1> PICK u : u = LowSum(x, W - 1)
  OBVIOUS
<1>2. u \in 0..(H - 1)
  <2>1. W - 1 \in 0..W
    BY WordAssumption
  <2> QED BY <2>1, LowBound DEF H
<1>3. Unsigned(x) = u + (IF Sign \in x THEN H ELSE 0)
  <2>1. LowSum(x, Sign + 1) = LowSum(x, Sign) + (IF Sign \in x THEN 2^Sign ELSE 0)
    BY LowNext, SignIsBit
  <2>2. Sign + 1 = W /\ Sign = W - 1
    BY WordAssumption DEF Sign
  <2> QED BY <2>1, <2>2, LowAll DEF H
<1> QED BY <1>1, <1>2, <1>3, Halves DEF Signed, M

LEMMA SameWord ==
    ASSUME NEW x \in Word, NEW y \in Word, Unsigned(x) = Unsigned(y)
    PROVE  x = y
<1>1. W \in 0..W
  BY WordAssumption
<1>2. Low(x, W) = Low(y, W)
  BY <1>1, LowUnique, LowAll
<1> QED BY <1>2 DEF Low, Word, Bit

LEMMA UnsignedWordOf ==
    ASSUME NEW n \in Int
    PROVE  WordOf(n) \in Word /\ Unsigned(WordOf(n)) = n % M
<1>1. W \in 0..W
  BY WordAssumption
<1> QED BY <1>1, LowWordOf, LowAll DEF M

LEMMA SmallWordOf ==
    ASSUME NEW n \in Nat, n < M
    PROVE  WordOf(n) \in Word /\ Unsigned(WordOf(n)) = n
<1>1. n % M = n
  BY Halves, Wrapped
<1> QED BY <1>1, UnsignedWordOf

LEMMA UnsignedZero == Unsigned(Zero) = 0 /\ \A x \in Word : Unsigned(x) = 0 <=> x = Zero
<1>1. Unsigned(Zero) = 0
  BY SignIsBit, UnsignedIs, SumEmpty DEF Zero
<1> QED BY <1>1, SignIsBit, SameWord

LEMMA UnsignedBit == ASSUME NEW k \in Bit PROVE {k} \in Word /\ Unsigned({k}) = 2^k
<1>1. {k} \in Word /\ {} \in Word
  BY DEF Word
<1>2. Pow[k] = 2^k /\ Pow[k] \in Int
  BY <1>1, BitsFinite
<1>3. SumOf(Pow, {} \cup {k}) = Pow[k] + SumOf(Pow, {})
  <2>1. IsFiniteSet({}) /\ k \notin {} /\ \A j \in {} : Pow[j] \in Int
    BY FS_EmptySet
  <2> QED BY <1>2, <2>1, SumAdd
<1>4. {} \cup {k} = {k} /\ SumOf(Pow, {}) = 0
  BY SumEmpty
<1>5. Unsigned({k}) = SumOf(Pow, {k})
  BY <1>1, UnsignedIs
<1> QED BY <1>1, <1>2, <1>3, <1>4, <1>5

LEMMA UnsignedOne == Unsigned(One) = 1
BY UnsignedBit, SignIsBit, PowerZero DEF One

\* ~x
LEMMA UnsignedNot ==
    ASSUME NEW x \in Word
    PROVE  /\ Not(x) \in Word
           /\ \A k \in 0..W : LowSum(Not(x), k) = 2^k - 1 - LowSum(x, k)
           /\ Unsigned(Not(x)) = M - 1 - Unsigned(x)
<1> DEFINE y == Not(x)
           T == {k \in 0..W : LowSum(y, k) = 2^k - 1 - LowSum(x, k)}
<1>0. y \in Word /\ \A k \in Bit : k \in y <=> k \notin x
  BY DEF Not, Word
<1> HIDE DEF y
<1>1. 0 \in T
  BY <1>0, LowZero, PowerZero, WordAssumption
<1>2. ASSUME NEW k \in Bit, k \in T PROVE k + 1 \in T
  <2>1. k \in 0..W /\ k + 1 \in 0..W
    BY WordAssumption DEF Bit
  <2> PICK p : p = 2^k
    OBVIOUS
  <2> PICK u, v : u = LowSum(x, k) /\ v = LowSum(y, k)
    OBVIOUS
  <2>2. p \in Nat \ {0} /\ 2^(k + 1) = p + p
    BY <2>1, PowerBit
  <2>3. u \in Int /\ v \in Int /\ v = p - 1 - u
    BY <1>0, <1>2, LowNext
  <2>4. /\ LowSum(x, k + 1) = u + (IF k \in x THEN p ELSE 0)
        /\ LowSum(y, k + 1) = v + (IF k \in y THEN p ELSE 0)
    BY <1>0, LowNext
  <2>5. k \in y <=> k \notin x
    BY <1>0
  <2>6. LowSum(y, k + 1) = 2^(k + 1) - 1 - LowSum(x, k + 1)
    BY ONLY <2>2, <2>3, <2>4, <2>5
  <2> QED BY <2>1, <2>6
<1>3. \A k \in 0..W : k \in T
  <2> HIDE DEF T
  <2> QED BY <1>1, <1>2, BitInduction
<1>4. W \in 0..W
  BY WordAssumption
<1>5. LowSum(y, W) = M - 1 - LowSum(x, W)
  BY <1>3, <1>4 DEF M
<1>6. Unsigned(y) = M - 1 - Unsigned(x)
  BY <1>0, <1>5, LowAll
<1> QED BY <1>0, <1>3, <1>6 DEF y

\* A position carries when two of the three bits below it are 1.
LEMMA CarryNext ==
    ASSUME NEW x \in Word, NEW y \in Word, NEW k \in Bit
    PROVE  Carry(x, y, k + 1) <=> \/ k \in x /\ k \in y
                                  \/ (k \in x \/ k \in y) /\ Carry(x, y, k)
<1>1. k \in Nat /\ (k + 1) - 1 = k
  BY WordAssumption DEF Bit
<1>2. Carry(x, y, k + 1) <=>
        \E j \in 0..k : j \in x \cap y /\ \A l \in (j + 1)..k : l \in x \cup y
  BY <1>1 DEF Carry
<1>3. Carry(x, y, k) <=>
        \E j \in 0..(k - 1) : j \in x \cap y /\ \A l \in (j + 1)..(k - 1) : l \in x \cup y
  BY DEF Carry
<1>4. ASSUME k \in x, k \in y PROVE Carry(x, y, k + 1)
  <2>1. k \in 0..k /\ \A l \in (k + 1)..k : l \in x \cup y
    BY <1>1
  <2> QED BY <1>2, <1>4, <2>1
<1>5. ASSUME k \in x \/ k \in y, Carry(x, y, k) PROVE Carry(x, y, k + 1)
  <2>1. PICK j \in 0..(k - 1) : j \in x \cap y /\ \A l \in (j + 1)..(k - 1) : l \in x \cup y
    BY <1>3, <1>5
  <2>2. j \in 0..k /\ \A l \in (j + 1)..k : l \in (j + 1)..(k - 1) \/ l = k
    BY <1>1
  <2> QED BY <1>2, <1>5, <2>1, <2>2
<1>6. ASSUME Carry(x, y, k + 1), ~(k \in x /\ k \in y)
      PROVE  (k \in x \/ k \in y) /\ Carry(x, y, k)
  <2>1. PICK j \in 0..k : j \in x \cap y /\ \A l \in (j + 1)..k : l \in x \cup y
    BY <1>2, <1>6
  <2>2. j # k /\ j \in 0..(k - 1) /\ k \in (j + 1)..k
    BY <1>1, <1>6, <2>1
  <2>3. \A l \in (j + 1)..(k - 1) : l \in (j + 1)..k
    BY <1>1, <2>2
  <2> QED BY <1>3, <2>1, <2>2, <2>3
<1> QED BY <1>4, <1>5, <1>6

\* x + y, modulo the number of words.
LEMMA UnsignedPlus ==
    ASSUME NEW x \in Word, NEW y \in Word
    PROVE  Plus(x, y) \in Word /\ Unsigned(Plus(x, y)) = (Unsigned(x) + Unsigned(y)) % M
<1> DEFINE z == Plus(x, y)
           C(k) == Carry(x, y, k)
           T == {k \in 0..W : LowSum(x, k) + LowSum(y, k) =
                                LowSum(z, k) + (IF C(k) THEN 2^k ELSE 0)}
<1>0. z \in Word /\ \A k \in Bit : k \in z <=> ((k \in x) <=> ((k \in y) <=> C(k)))
  BY DEF Plus, Word
<1> HIDE DEF z
<1>1. 0 \in T
  <2>1. ~C(0)
    BY DEF Carry
  <2> HIDE DEF C
  <2> QED BY <1>0, <2>1, LowZero, WordAssumption
<1>2. ASSUME NEW k \in Bit, k \in T PROVE k + 1 \in T
  <2>1. k \in 0..W /\ k + 1 \in 0..W
    BY WordAssumption DEF Bit
  <2> PICK p : p = 2^k
    OBVIOUS
  <2> PICK u, v, w : u = LowSum(x, k) /\ v = LowSum(y, k) /\ w = LowSum(z, k)
    OBVIOUS
  <2>2. p \in Nat \ {0} /\ 2^(k + 1) = p + p
    BY <2>1, PowerBit
  <2>3. u \in Int /\ v \in Int /\ w \in Int
    BY <1>0, LowNext
  <2>4. u + v = w + (IF C(k) THEN p ELSE 0)
    BY <1>2
  <2>5. /\ LowSum(x, k + 1) = u + (IF k \in x THEN p ELSE 0)
        /\ LowSum(y, k + 1) = v + (IF k \in y THEN p ELSE 0)
        /\ LowSum(z, k + 1) = w + (IF k \in z THEN p ELSE 0)
    BY <1>0, LowNext
  <2>6. k \in z <=> ((k \in x) <=> ((k \in y) <=> C(k)))
    BY <1>0
  <2>7. C(k + 1) <=> (k \in x /\ k \in y) \/ ((k \in x \/ k \in y) /\ C(k))
    BY CarryNext
  <2> HIDE DEF C
  <2>8. LowSum(x, k + 1) + LowSum(y, k + 1) =
           LowSum(z, k + 1) + (IF C(k + 1) THEN 2^(k + 1) ELSE 0)
    <3>1. CASE k \in x /\ k \in y
      BY ONLY <2>2, <2>3, <2>4, <2>5, <2>6, <2>7, <3>1
    <3>2. CASE k \in x /\ k \notin y
      BY ONLY <2>2, <2>3, <2>4, <2>5, <2>6, <2>7, <3>2
    <3>3. CASE k \notin x /\ k \in y
      BY ONLY <2>2, <2>3, <2>4, <2>5, <2>6, <2>7, <3>3
    <3>4. CASE k \notin x /\ k \notin y
      BY ONLY <2>2, <2>3, <2>4, <2>5, <2>6, <2>7, <3>4
    <3> QED BY ONLY <3>1, <3>2, <3>3, <3>4
  <2> QED BY <2>1, <2>8
<1>3. \A k \in 0..W : k \in T
  <2> HIDE DEF T
  <2> QED BY <1>1, <1>2, BitInduction
<1> HIDE DEF C
<1>4. LowSum(x, W) + LowSum(y, W) = LowSum(z, W) + (IF C(W) THEN M ELSE 0)
  <2>1. W \in 0..W
    BY WordAssumption
  <2> QED BY <1>3, <2>1 DEF M
<1> PICK s, t : s = Unsigned(x) + Unsigned(y) /\ t = Unsigned(z)
  OBVIOUS
<1>5. t \in 0..(M - 1) /\ s = t + (IF C(W) THEN M ELSE 0) /\ M \in Nat \ {0}
  BY <1>0, <1>4, LowAll, UnsignedType, Halves
<1>6. s = M * (IF C(W) THEN 1 ELSE 0) + t
  BY <1>5
<1>7. s % M = t
  <2> PICK q \in Int : q = IF C(W) THEN 1 ELSE 0
    OBVIOUS
  <2>1. s = M * q + t
    BY <1>6
  <2>2. q \in Int
    OBVIOUS
  <2> QED BY ONLY <1>5, <2>1, <2>2, RemainderIs
<1>8. Unsigned(z) = (Unsigned(x) + Unsigned(y)) % M
  BY <1>7
<1> QED BY <1>0, <1>8 DEF z

\* -x, and y - x where x and y have the same sign.
LEMMA UnsignedNegate ==
    ASSUME NEW x \in Word
    PROVE  /\ negate(x) \in Word
           /\ Unsigned(negate(x)) = (-Unsigned(x)) % M
           /\ Unsigned(negate(x)) = IF Unsigned(x) = 0 THEN 0 ELSE M - Unsigned(x)
<1> PICK m, u : m = M /\ u = Unsigned(x)
  OBVIOUS
<1>1. m \in Nat \ {0} /\ u \in 0..(m - 1)
  BY Halves, UnsignedType
<1>2. negate(x) \in Word /\ Unsigned(negate(x)) = (Unsigned(Not(x)) + Unsigned(One)) % M
  BY UnsignedNot, UnsignedPlus, SignIsBit DEF negate
<1>3. Unsigned(Not(x)) = m - 1 - u /\ Unsigned(One) = 1
  BY UnsignedNot, UnsignedOne
<1>4. Unsigned(negate(x)) = (-u + m) % m
  <2>1. (m - 1 - u) + 1 = -u + m
    BY <1>1
  <2> QED BY <1>2, <1>3, <2>1
<1>5. -u \in Int
  BY <1>1
<1>6. (-u + m) % m = (-u) % m
  BY <1>1, <1>5, RemainderShift
<1>7. (-u) % m = IF -u >= 0 THEN -u ELSE -u + m
  <2>1. -m <= -u /\ -u < m
    BY <1>1
  <2> QED BY <1>1, <1>5, <2>1, Wrapped
<1>8. (-u) % m = IF u = 0 THEN 0 ELSE m - u
  BY <1>1, <1>7
<1> QED BY <1>2, <1>4, <1>6, <1>8

LEMMA UnsignedMinus ==
    ASSUME NEW x \in Word, NEW y \in Word
    PROVE  /\ Plus(y, negate(x)) \in Word
           /\ Unsigned(Plus(y, negate(x))) =
                  IF Unsigned(x) <= Unsigned(y) THEN Unsigned(y) - Unsigned(x)
                  ELSE Unsigned(y) - Unsigned(x) + M
<1> PICK m, u, v : m = M /\ u = Unsigned(x) /\ v = Unsigned(y)
  OBVIOUS
<1>1. m \in Nat \ {0} /\ u \in 0..(m - 1) /\ v \in 0..(m - 1) /\ -u \in Int
  BY Halves, UnsignedType
<1>2. /\ negate(x) \in Word /\ Plus(y, negate(x)) \in Word
      /\ Unsigned(Plus(y, negate(x))) = (v + ((-u) % m)) % m
  BY UnsignedNegate, UnsignedPlus
<1>3. (v + ((-u) % m)) % m = (v + (-u)) % m
  BY <1>1, RemainderSum
<1>4. v + (-u) = v - u /\ v - u \in Int /\ -m <= v - u /\ v - u < m
  BY <1>1
<1>5. (v - u) % m = IF v - u >= 0 THEN v - u ELSE v - u + m
  BY <1>1, <1>4, Wrapped
<1>6. (v - u) % m = IF u <= v THEN v - u ELSE v - u + m
  BY <1>1, <1>5
<1> QED BY <1>2, <1>3, <1>4, <1>6

\* The sign, shifted into every position.
LEMMA SarSign ==
    ASSUME NEW x \in Word
    PROVE  Sar(x, W - 1) = IF Sign \in x THEN Bit ELSE {}
<1>1. ASSUME NEW k \in Bit PROVE (IF k + (W - 1) < W THEN k + (W - 1) ELSE Sign) = Sign
  BY WordAssumption DEF Bit, Sign
<1>2. Sar(x, W - 1) = {k \in Bit : (IF k + (W - 1) < W THEN k + (W - 1) ELSE Sign) \in x}
  BY DEF Sar
<1>3. Sar(x, W - 1) = {k \in Bit : Sign \in x}
  BY <1>1, <1>2
<1> QED BY <1>3

\* ! of the sign, and its lowest bit.
LEMMA BangSign ==
    ASSUME NEW x \in Word
    PROVE  /\ Bang(Sar(x, W - 1)) = Truth(Sign \notin x)
           /\ Sar(x, W - 1) \cap One = Truth(Sign \in x)
BY SarSign, SignIsBit DEF Bang, Truth, Zero, One

----------------------------------------------------------------------------
(* The puzzles: each solution of bits.c gives what its reference in        *)
(* tests.c does, for words of every width.                                 *)

LEMMA bitXorRight ==
    ASSUME NEW x \in Word, NEW y \in Word PROVE bitXor(x, y) = test_bitXor(x, y)
BY DEF bitXor, test_bitXor, Xor, Not, Word

LEMMA tminRight == tmin = test_tmin
<1>1. tmin = {Sign}
  BY WordAssumption DEF tmin, Shl, One, Sign, Bit
<1>2. {Sign} \in Word /\ Unsigned({Sign}) = H
  BY SignIsBit, UnsignedBit DEF Sign, H
<1>3. WordOf(H) \in Word /\ Unsigned(WordOf(H)) = H
  <2>1. H \in Nat /\ H < M
    BY Halves
  <2> QED BY <2>1, SmallWordOf
<1> QED BY <1>1, <1>2, <1>3, SameWord DEF test_tmin, H

LEMMA isTmaxRight == ASSUME NEW x \in Word PROVE isTmax(x) = test_isTmax(x)
<1> DEFINE m == Bit \ {Sign}
<1>1. m \in Word /\ Sign \notin m
  BY DEF Word
<1>2. Unsigned(m) = H - 1
  <2>1. m = Not({Sign})
    BY DEF Not
  <2>2. {Sign} \in Word /\ Unsigned({Sign}) = H
    BY SignIsBit, UnsignedBit DEF Sign, H
  <2>3. Unsigned(m) = M - 1 - H
    BY <2>1, <2>2, UnsignedNot
  <2> QED BY <2>3, Halves
<1>3. isTmax(x) = Truth(x = m)
  <2>1. Xor(x, m) = Zero <=> x = m
    BY DEF Xor, Zero
  <2> QED BY <2>1 DEF isTmax, Bang
<1> HIDE DEF m
<1>4. x = m <=> Unsigned(x) = H - 1
  BY <1>1, <1>2, SameWord
<1>5. Signed(x) = TMax <=> Unsigned(x) = H - 1
  <2>1. TMax = H - 1
    BY DEF TMax, H
  <2> QED BY <2>1, Halves, UnsignedType
<1> QED BY <1>3, <1>4, <1>5 DEF test_isTmax

LEMMA allOddBitsRight == ASSUME NEW x \in Word PROVE allOddBits(x) = test_allOddBits(x)
<1> DEFINE f == {k \in Bit : k % 2 = 1}
<1>1. f \subseteq Bit
  OBVIOUS
<1>2. allOddBits(x) = Bang(Xor(x \cap f, f))
  BY DEF allOddBits
<1>3. test_allOddBits(x) = Truth(\A k \in f : x \cap Shl(One, k) # Zero)
  BY DEF test_allOddBits
<1> HIDE DEF f
<1>4. ASSUME NEW k \in f PROVE Shl(One, k) = {k}
  BY <1>1, WordAssumption DEF Shl, One, Bit
<1>5. (\A k \in f : x \cap Shl(One, k) # Zero) <=> f \subseteq x
  BY <1>4 DEF Zero
<1>6. Xor(x \cap f, f) = Zero <=> f \subseteq x
  BY DEF Xor, Zero
<1> QED BY <1>2, <1>3, <1>5, <1>6 DEF Bang

LEMMA negateRight == ASSUME NEW x \in Word PROVE negate(x) = test_negate(x)
<1> PICK m, u : m = M /\ u = Unsigned(x)
  OBVIOUS
<1>1. m \in Nat \ {0} /\ u \in 0..(m - 1) /\ -u \in Int
  BY Halves, UnsignedType
<1>2. -Signed(x) \in Int /\ -Signed(x) = IF Sign \in x THEN -u + m ELSE -u
  BY <1>1, UnsignedType
<1>3. (-u + m) % m = (-u) % m
  BY <1>1, RemainderShift
<1>4. (-Signed(x)) % m = (-u) % m
  BY <1>2, <1>3
<1>5. WordOf(-Signed(x)) \in Word /\ Unsigned(WordOf(-Signed(x))) = (-u) % m
  BY <1>2, <1>4, UnsignedWordOf
<1> QED BY <1>5, UnsignedNegate, SameWord DEF test_negate

LEMMA isAsciiDigitRight == ASSUME NEW x \in Word PROVE isAsciiDigit(x) = test_isAsciiDigit(x)
<1> PICK m, h, u : m = M /\ h = H /\ u = Unsigned(x)
  OBVIOUS
<1>1. h \in Nat /\ h >= 64 /\ m = h + h /\ u \in 0..(m - 1)
  BY Halves, UnsignedType
<1> PICK l, r : l = WordOf(48) /\ r = WordOf(57)
  OBVIOUS
<1>2. l \in Word /\ r \in Word /\ Unsigned(l) = 48 /\ Unsigned(r) = 57
  <2>1. 48 \in Nat /\ 48 < M /\ 57 \in Nat /\ 57 < M
    BY <1>1
  <2> QED BY <2>1, SmallWordOf
<1> PICK p, q : p = Plus(l, negate(x)) /\ q = Plus(r, negate(x))
  OBVIOUS
<1>3. /\ p \in Word /\ Unsigned(p) = IF u <= 48 THEN 48 - u ELSE 48 - u + m
      /\ q \in Word /\ Unsigned(q) = IF u <= 57 THEN 57 - u ELSE 57 - u + m
  BY <1>2, UnsignedMinus
<1>4. (Sign \in p <=> Unsigned(p) >= h) /\ (Sign \in q <=> Unsigned(q) >= h)
  BY <1>3, UnsignedType
<1>5. \A w \in Word : Xor(x, w) = Zero <=> x = w
  BY DEF Xor, Zero
<1>6. /\ Bang(Xor(x, l)) = Truth(u = 48) /\ Bang(Xor(x, r)) = Truth(u = 57)
  <2>1. (x = l <=> u = 48) /\ (x = r <=> u = 57)
    BY <1>2, SameWord
  <2> QED BY <1>2, <1>5, <2>1 DEF Bang
<1>7. /\ Sar(p, W - 1) \cap One = Truth(Sign \in p)
      /\ Bang(Sar(q, W - 1) \cap One) = Truth(Sign \notin q)
  BY <1>3, BangSign DEF Bang, Truth, Zero, One
<1>8. isAsciiDigit(x) = Truth(u = 48) \cup Truth(u = 57)
                           \cup (Truth(Sign \in p) \cap Truth(Sign \notin q))
  BY <1>6, <1>7 DEF isAsciiDigit
<1>9. isAsciiDigit(x) = Truth(u = 48 \/ u = 57 \/ (Sign \in p /\ Sign \notin q))
  BY <1>8 DEF Truth, Zero
<1>10. (u = 48 \/ u = 57 \/ (Sign \in p /\ Sign \notin q)) <=> u \in 48..57
  BY <1>1, <1>3, <1>4
<1>11. Signed(x) \in 48..57 <=> u \in 48..57
  <2>1. Signed(x) = (IF u >= h THEN u - m ELSE u)
    BY <1>1, UnsignedType
  <2> QED BY ONLY <1>1, <2>1
<1> QED BY <1>9, <1>10, <1>11 DEF test_isAsciiDigit

LEMMA conditionalRight ==
    ASSUME NEW x \in Word, NEW y \in Word, NEW z \in Word
    PROVE  conditional(x, y, z) = test_conditional(x, y, z)
<1> DEFINE ones == Plus(Not(One), One)
           f == Plus(Bang(x), ones)
<1>1. ones \in Word /\ Unsigned(ones) = M - 1
  BY UnsignedNegate, UnsignedOne, SignIsBit DEF negate
<1>2. Bang(x) \in Word /\ Unsigned(Bang(x)) = IF x = Zero THEN 1 ELSE 0
  BY SignIsBit, UnsignedOne, UnsignedZero DEF Bang, Truth
<1> HIDE DEF ones
<1>3. f \in Word /\ Unsigned(f) = (Unsigned(Bang(x)) + (M - 1)) % M
  BY <1>1, <1>2, UnsignedPlus
<1>4. f = IF x = Zero THEN Zero ELSE Bit
  <2>1. CASE x = Zero
    <3>1. 1 + (M - 1) = 0 + M
      BY Halves
    <3>2. (0 + M) % M = 0 % M
      BY Halves, RemainderShift
    <3>3. 0 % M = 0
      BY Halves, Wrapped
    <3>4. Unsigned(f) = 0
      BY <1>2, <1>3, <2>1, <3>1, <3>2, <3>3
    <3> QED BY <1>3, <2>1, <3>4, UnsignedZero
  <2>2. CASE x # Zero
    <3>1. 0 + (M - 1) = M - 1 /\ (M - 1) % M = M - 1
      <4> PICK k : k = M - 1
        OBVIOUS
      <4>1. k \in Int /\ -M <= k /\ k < M /\ k >= 0 /\ 0 + k = k
        BY Halves
      <4>2. k % M = k
        BY <4>1, Halves, Wrapped
      <4> QED BY <4>1, <4>2
    <3>2. Unsigned(f) = M - 1
      BY <1>2, <1>3, <2>2, <3>1
    <3>3. Unsigned(Bit) = M - 1
      <4>1. Bit = Not(Zero)
        BY DEF Not, Zero
      <4> QED BY <4>1, SignIsBit, UnsignedNot, UnsignedZero, Halves
    <3> QED BY <1>3, <2>2, <3>2, <3>3, SignIsBit, SameWord
  <2> QED BY <2>1, <2>2
<1>5. conditional(x, y, z) = (f \cap y) \cup (Not(f) \cap z)
  BY DEF conditional, ones
<1> HIDE DEF f
<1> QED BY <1>4, <1>5 DEF test_conditional, Not, Word, Zero

LEMMA isLessOrEqualRight ==
    ASSUME NEW x \in Word, NEW y \in Word
    PROVE  isLessOrEqual(x, y) = test_isLessOrEqual(x, y)
<1> PICK m, h, u, v : m = M /\ h = H /\ u = Unsigned(x) /\ v = Unsigned(y)
  OBVIOUS
<1> PICK d : d = Plus(y, negate(x))
  OBVIOUS
<1>1. h \in Nat /\ h >= 64 /\ m = h + h /\ u \in 0..(m - 1) /\ v \in 0..(m - 1)
  BY Halves, UnsignedType
<1>2. /\ (Sign \in x <=> u >= h) /\ (Sign \in y <=> v >= h)
      /\ Signed(x) = (IF u >= h THEN u - m ELSE u)
      /\ Signed(y) = (IF v >= h THEN v - m ELSE v)
  BY UnsignedType, <1>1
<1>3. d \in Word /\ Unsigned(d) = IF u <= v THEN v - u ELSE v - u + m
  BY UnsignedMinus
<1>4. Sign \in d <=> Unsigned(d) >= h
  BY <1>3, UnsignedType
<1>5. isLessOrEqual(x, y) =
        LET diff == Xor(Truth(Sign \notin x), Truth(Sign \notin y))
        IN  (diff \cap (IF Sign \in x THEN Bit ELSE {}))
               \cup (Bang(diff) \cap Truth(Sign \notin d))
  BY <1>3, SarSign, BangSign DEF isLessOrEqual
<1>6. isLessOrEqual(x, y) =
        Truth((Sign \in x /\ Sign \notin y) \/ ((Sign \in x <=> Sign \in y) /\ Sign \notin d))
  <2>1. CASE Sign \in x /\ Sign \in y
    BY <1>5, <2>1, SignIsBit DEF Xor, Bang, Truth, Zero, One
  <2>2. CASE Sign \in x /\ Sign \notin y
    BY <1>5, <2>2, SignIsBit DEF Xor, Bang, Truth, Zero, One
  <2>3. CASE Sign \notin x /\ Sign \in y
    BY <1>5, <2>3, SignIsBit DEF Xor, Bang, Truth, Zero, One
  <2>4. CASE Sign \notin x /\ Sign \notin y
    BY <1>5, <2>4, SignIsBit DEF Xor, Bang, Truth, Zero, One
  <2> QED BY <2>1, <2>2, <2>3, <2>4
<1>7. Signed(x) <= Signed(y) <=>
        ((Sign \in x /\ Sign \notin y) \/ ((Sign \in x <=> Sign \in y) /\ Sign \notin d))
  BY ONLY <1>1, <1>2, <1>3, <1>4
<1> QED BY <1>6, <1>7 DEF test_isLessOrEqual

LEMMA logicalNegRight == ASSUME NEW x \in Word PROVE logicalNeg(x) = test_logicalNeg(x)
<1> PICK m, h, u : m = M /\ h = H /\ u = Unsigned(x)
  OBVIOUS
<1>1. h \in Nat /\ h >= 64 /\ m = h + h /\ u \in 0..(m - 1)
  BY Halves, UnsignedType
<1> DEFINE s == x \cup negate(x)
<1>2. negate(x) \in Word /\ Unsigned(negate(x)) = IF u = 0 THEN 0 ELSE m - u
  BY UnsignedNegate
<1>3. s \in Word /\ (Sign \in s <=> Sign \in x \/ Sign \in negate(x))
  BY <1>2 DEF Word
<1>4. Sign \in s <=> u >= h \/ Unsigned(negate(x)) >= h
  BY <1>2, <1>3, UnsignedType
<1>5. Sign \in s <=> u # 0
  BY <1>1, <1>2, <1>4
<1>6. Sign \in s <=> x # Zero
  BY <1>5, UnsignedZero
<1>7. logicalNeg(x) = Xor(Sar(s, W - 1) \cap One, One)
  BY DEF logicalNeg
<1> HIDE DEF s
<1>8. logicalNeg(x) = Xor(Truth(Sign \in s), One)
  BY <1>3, <1>7, BangSign
<1> QED BY <1>6, <1>8 DEF test_logicalNeg, Bang, Truth, Xor, Zero, One

\* howManyBits is not solved: a count of bits is never 0.
LEMMA howManyBitsWrong == ASSUME NEW x \in Word PROVE howManyBits(x) # test_howManyBits(x)
<1> DEFINE a == IF Signed(x) < 0 THEN -Signed(x) - 1 ELSE Signed(x)
           S == {n \in 0..W : a < 2 ^ n}
           n0 == 1 + Min(S)
<1>1. a \in 0..(H - 1)
  <2> PICK m, h, u, g : m = M /\ h = H /\ u = Unsigned(x) /\ g = Signed(x)
    OBVIOUS
  <2>1. h \in Nat /\ m = h + h /\ u \in 0..(m - 1) /\ g = (IF u >= h THEN u - m ELSE u)
    BY Halves, UnsignedType
  <2>2. (IF g < 0 THEN -g - 1 ELSE g) \in 0..(h - 1)
    BY ONLY <2>1
  <2> QED BY <2>2
<1> HIDE DEF a
<1>2. W - 1 \in S
  BY <1>1, Halves, WordAssumption DEF H
<1>3. \E k \in S : \A l \in S : k <= l
  <2>1. S \in SUBSET Nat
    BY WordAssumption
  <2> HIDE DEF S
  <2> QED BY <1>2, <2>1, LeastExists
<1>4. Min(S) \in S /\ Min(S) <= W - 1
  <2> HIDE DEF S
  <2> QED BY <1>2, <1>3 DEF Min
<1>5. n0 \in 1..W
  BY <1>4, WordAssumption
<1>6. \A n \in Nat : n < 2^n
  <2> DEFINE T == {n \in Nat : n < 2^n}
  <2>1. 0 \in T
    BY PowerZero
  <2>2. ASSUME NEW n \in Nat, n \in T PROVE n + 1 \in T
    <3>1. 2^(n + 1) = 2^n + 2^n /\ 2^n \in Nat \ {0}
      BY PowerNext
    <3> QED BY <2>2, <3>1
  <2>3. \A n \in Nat : n \in T
    <3> HIDE DEF T
    <3> QED BY <2>1, <2>2, SetInduction
  <2> QED BY <2>3
<1>7. n0 \in Nat /\ n0 < M /\ n0 # 0
  BY <1>5, <1>6, Halves, WordAssumption DEF M
<1>8. test_howManyBits(x) = WordOf(n0)
  BY DEF test_howManyBits, a
<1> HIDE DEF n0
<1> QED BY <1>7, <1>8, SmallWordOf, UnsignedZero DEF howManyBits

\* The nine solutions of bits.c are right on all words of all widths from 7
\* on (bits.c:145-313, against tests.c), and howManyBits is wrong on all.
THEOREM PuzzlesAreRight ==
    /\ tmin = test_tmin
    /\ \A x \in Word :
          /\ isTmax(x) = test_isTmax(x) /\ allOddBits(x) = test_allOddBits(x)
          /\ negate(x) = test_negate(x) /\ isAsciiDigit(x) = test_isAsciiDigit(x)
          /\ logicalNeg(x) = test_logicalNeg(x) /\ howManyBits(x) # test_howManyBits(x)
    /\ \A x \in Word : \A y \in Word :
          /\ bitXor(x, y) = test_bitXor(x, y) /\ isLessOrEqual(x, y) = test_isLessOrEqual(x, y)
    /\ \A x \in Word : \A y \in Word : \A z \in Word :
          conditional(x, y, z) = test_conditional(x, y, z)
BY bitXorRight, tminRight, isTmaxRight, allOddBitsRight, negateRight, isAsciiDigitRight,
   conditionalRight, isLessOrEqualRight, logicalNegRight, howManyBitsWrong

----------------------------------------------------------------------------
(* The table of tests.                                                     *)

Floats == {"floatScale2", "floatFloat2Int", "floatPower2"}

LEMMA Table ==
    /\ Tests = 1..13
    /\ test_set[1] = Entry("bitXor", 2) /\ test_set[2] = Entry("tmin", 0)
    /\ test_set[3] = Entry("isTmax", 1) /\ test_set[4] = Entry("allOddBits", 1)
    /\ test_set[5] = Entry("negate", 1) /\ test_set[6] = Entry("isAsciiDigit", 1)
    /\ test_set[7] = Entry("conditional", 3) /\ test_set[8] = Entry("isLessOrEqual", 2)
    /\ test_set[9] = Entry("logicalNeg", 1) /\ test_set[10] = Entry("howManyBits", 1)
    /\ test_set[11] = FloatEntry("floatScale2")
    /\ test_set[12] = FloatEntry("floatFloat2Int")
    /\ test_set[13] = FloatEntry("floatPower2")
<1> PICK a1, a2, a3, a4, a5, a6, a7 :
      /\ a1 = Entry("bitXor", 2) /\ a2 = Entry("tmin", 0)
      /\ a3 = Entry("isTmax", 1) /\ a4 = Entry("allOddBits", 1)
      /\ a5 = Entry("negate", 1) /\ a6 = Entry("isAsciiDigit", 1)
      /\ a7 = Entry("conditional", 3)
  OBVIOUS
<1> PICK a8, a9, a10, a11, a12, a13 :
      /\ a8 = Entry("isLessOrEqual", 2) /\ a9 = Entry("logicalNeg", 1)
      /\ a10 = Entry("howManyBits", 1)
      /\ a11 = FloatEntry("floatScale2") /\ a12 = FloatEntry("floatFloat2Int")
      /\ a13 = FloatEntry("floatPower2")
  OBVIOUS
<1>1. test_set = <<a1, a2, a3, a4, a5, a6, a7, a8, a9, a10, a11, a12, a13>>
  BY DEF test_set
<1> QED BY <1>1 DEF Tests

LEMMA TestsAre ==
    /\ Solved = 1..9
    /\ \A t \in 1..10 : test_set[t].args \in 0..3 /\ test_set[t].min # 1
                        /\ test_set[t].min = TMin /\ test_set[t].max = TMax
    /\ \A t \in 1..13 : test_set[t].name \in Floats <=> t \in 11..13
    /\ \A t \in 11..13 : test_set[t].args = 1 /\ test_set[t].min = 1 /\ test_set[t].max = 1
<1>1. TMin # 1
  <2>1. TMin = -H
    BY DEF TMin, H
  <2> QED BY <2>1, Halves
<1>2. \A t \in 1..13 : t \in {1, 2, 3, 4, 5, 6, 7, 8, 9, 10, 11, 12, 13}
  OBVIOUS
<1>3. \A t \in 1..13 : test_set[t].name \in Floats <=> t \in 11..13
  BY <1>2, Table DEF Entry, FloatEntry, Floats
<1>4. \A t \in 11..13 : test_set[t].args = 1 /\ test_set[t].min = 1 /\ test_set[t].max = 1
  BY Table DEF Entry, FloatEntry
<1>5. \A t \in 1..10 : test_set[t].args \in 0..3 /\ test_set[t].min # 1
                       /\ test_set[t].min = TMin /\ test_set[t].max = TMax
  BY <1>1, Table DEF Entry
<1>6. Solved = 1..9
  <2>1. \A t \in 1..13 : test_set[t].name \notin
            {"howManyBits", "floatScale2", "floatFloat2Int", "floatPower2"} <=> t \in 1..9
    BY <1>2, Table DEF Entry, FloatEntry
  <2>2. \A t : t \in Solved <=> t \in 1..13 /\ test_set[t].name \notin
            {"howManyBits", "floatScale2", "floatFloat2Int", "floatPower2"}
    BY Table DEF Solved
  <2>3. \A t \in 1..9 : t \in 1..13
    OBVIOUS
  <2> QED BY <2>1, <2>2, <2>3
<1> QED BY <1>3, <1>4, <1>5, <1>6

\* A solution of bits.c never gives an error, whatever the values; the other
\* puzzles give one, the float puzzles at least for 0.
LEMMA Judged ==
    ASSUME NEW v
    PROVE  /\ \A t \in 1..9 : DOMAIN v = 1..test_set[t].args => ~Wrong(test_set[t], v)
           /\ DOMAIN v = 1..1 => Wrong(test_set[10], v)
           /\ \A t \in 11..13 : v[1] = 0 => Wrong(test_set[t], v)
<1> DEFINE a == [k \in DOMAIN v |-> WordOf(v[k])]
<1>1. \A n : WordOf(n) \in Word
  BY DEF WordOf, Word
<1>2. \A k \in DOMAIN v : a[k] \in Word
  BY <1>1
<1>3. ASSUME NEW t \in 1..10
      PROVE  Wrong(test_set[t], v) <=> Gives(test_set[t].name, a) # ShouldBe(test_set[t].name, a)
  BY TestsAre DEF Wrong
<1> HIDE DEF a
<1>4. ASSUME NEW t \in 1..9, DOMAIN v = 1..test_set[t].args
      PROVE  Gives(test_set[t].name, a) = ShouldBe(test_set[t].name, a)
  <2>0. \A n \in 0..3 : test_set[t].args = n => \A k \in 1..n : a[k] \in Word
    BY <1>2, <1>4
  <2>1. CASE t = 1
    <3>1. test_set[t].name = "bitXor" /\ a[1] \in Word /\ a[2] \in Word
      BY <2>0, <2>1, Table DEF Entry
    <3> QED BY <3>1, bitXorRight DEF Gives, ShouldBe
  <2>2. CASE t = 2
    <3>1. test_set[t].name = "tmin"
      BY <2>2, Table DEF Entry
    <3> QED BY <3>1, tminRight DEF Gives, ShouldBe
  <2>3. CASE t = 3
    <3>1. test_set[t].name = "isTmax" /\ a[1] \in Word
      BY <2>0, <2>3, Table DEF Entry
    <3> QED BY <3>1, isTmaxRight DEF Gives, ShouldBe
  <2>4. CASE t = 4
    <3>1. test_set[t].name = "allOddBits" /\ a[1] \in Word
      BY <2>0, <2>4, Table DEF Entry
    <3> QED BY <3>1, allOddBitsRight DEF Gives, ShouldBe
  <2>5. CASE t = 5
    <3>1. test_set[t].name = "negate" /\ a[1] \in Word
      BY <2>0, <2>5, Table DEF Entry
    <3> QED BY <3>1, negateRight DEF Gives, ShouldBe
  <2>6. CASE t = 6
    <3>1. test_set[t].name = "isAsciiDigit" /\ a[1] \in Word
      BY <2>0, <2>6, Table DEF Entry
    <3> QED BY <3>1, isAsciiDigitRight DEF Gives, ShouldBe
  <2>7. CASE t = 7
    <3>1. test_set[t].name = "conditional" /\ a[1] \in Word /\ a[2] \in Word /\ a[3] \in Word
      BY <2>0, <2>7, Table DEF Entry
    <3> QED BY <3>1, conditionalRight DEF Gives, ShouldBe
  <2>8. CASE t = 8
    <3>1. test_set[t].name = "isLessOrEqual" /\ a[1] \in Word /\ a[2] \in Word
      BY <2>0, <2>8, Table DEF Entry
    <3> QED BY <3>1, isLessOrEqualRight DEF Gives, ShouldBe
  <2>9. CASE t = 9
    <3>1. test_set[t].name = "logicalNeg" /\ a[1] \in Word
      BY <2>0, <2>9, Table DEF Entry
    <3> QED BY <3>1, logicalNegRight DEF Gives, ShouldBe
  <2> QED BY <2>1, <2>2, <2>3, <2>4, <2>5, <2>6, <2>7, <2>8, <2>9
<1>5. DOMAIN v = 1..1 => Gives(test_set[10].name, a) # ShouldBe(test_set[10].name, a)
  <2> SUFFICES ASSUME DOMAIN v = 1..1
               PROVE  Gives(test_set[10].name, a) # ShouldBe(test_set[10].name, a)
    OBVIOUS
  <2>1. test_set[10].name = "howManyBits" /\ a[1] \in Word
    BY <1>2, Table DEF Entry
  <2> QED BY <2>1, howManyBitsWrong DEF Gives, ShouldBe
<1>6. \A t \in 11..13 : v[1] = 0 => Wrong(test_set[t], v)
  BY TestsAre DEF Wrong
<1>7. 10 \in 1..10 /\ \A t \in 1..9 : t \in 1..10
  OBVIOUS
<1> QED BY <1>3, <1>4, <1>5, <1>6, <1>7

----------------------------------------------------------------------------
(* gen_vals.                                                               *)

\* The number of values for one argument.
LEMMA RootBound == ASSUME NEW n \in 0..3 PROVE arg_test_range(n) \in 1..TestRange
<1>1. TestRange \in Nat \ {0}
  BY BTestAssumption
<1> DEFINE S == {1} \cup {r \in 1..TestRange : r ^ n <= TestRange}
<1>2. S \in SUBSET (0..TestRange) /\ S # {} /\ S \in SUBSET (1..TestRange)
  BY <1>1
<1>3. Root(n) = Max(S)
  BY DEF Root
<1> HIDE DEF S
<1>4. \E k \in S : \A l \in S : k >= l
  BY <1>1, <1>2, GreatestExists
<1>5. Max(S) \in S
  BY <1>4 DEF Max
<1>6. Root(n) \in 1..TestRange
  BY <1>2, <1>3, <1>5
<1>7. arg_test_range(n) = IF n = 0 THEN 1 ELSE Root(n)
  BY DEF arg_test_range
<1>8. 1 \in 1..TestRange
  BY <1>1
<1> QED BY ONLY <1>6, <1>7, <1>8

\* Lists of at most c values, put together.
Flat(f, seqs, n) == f = [k \in 1..n |-> IF k = 1 THEN seqs[k] ELSE f[k - 1] \o seqs[k]]

LEMMA FlattenLength ==
    ASSUME NEW n \in Nat, NEW c \in Nat, NEW seqs \in [1..n -> Seq(Int)],
           \A k \in 1..n : Len(seqs[k]) <= c
    PROVE  Len(FlattenSeq(seqs)) <= c * n
<1>1. Len(seqs) = n /\ DOMAIN seqs = 1..n
  OBVIOUS
<1>2. CASE n = 0
  BY <1>1, <1>2 DEF FlattenSeq
<1>3. CASE n # 0
  <2> DEFINE Step(f, k) == IF k = 1 THEN seqs[k] ELSE f[k - 1] \o seqs[k]
             Good(f, m) == \A k \in 1..n : k <= m => f[k] = Step(f, k)
             T == {m \in Nat : \E f \in [1..n -> Seq(Int)] : Good(f, m)}
  <2>1. 0 \in T
    <3>1. seqs \in [1..n -> Seq(Int)] /\ Good(seqs, 0)
      OBVIOUS
    <3> HIDE DEF Good
    <3> QED BY <3>1
  <2>2. ASSUME NEW m \in Nat, m \in T PROVE m + 1 \in T
    <3>1. PICK f \in [1..n -> Seq(Int)] : Good(f, m)
      BY <2>2
    <3> DEFINE g == [k \in 1..n |-> IF k <= m THEN f[k] ELSE Step(f, k)]
    <3>2. ASSUME NEW k \in 1..n PROVE Step(f, k) \in Seq(Int)
      <4>1. k # 1 => k - 1 \in 1..n
        OBVIOUS
      <4> QED BY <4>1
    <3>3. g \in [1..n -> Seq(Int)]
      <4> HIDE DEF Step
      <4> QED BY <3>2
    <3>4. ASSUME NEW k \in 1..n, k <= m + 1 PROVE g[k] = Step(g, k)
      <4>1. g[k] = Step(f, k)
        BY <3>1
      <4>2. k # 1 => g[k - 1] = f[k - 1]
        BY <3>4
      <4> HIDE DEF g
      <4> QED BY <4>1, <4>2
    <3>5. Good(g, m + 1)
      BY <3>4
    <3> HIDE DEF Good, g
    <3> QED BY <3>3, <3>5
  <2>3. n \in T
    <3> HIDE DEF T
    <3> QED BY <2>1, <2>2, SetInduction
  <2>4. PICK f \in [1..n -> Seq(Int)] : Good(f, n)
    BY <2>3
  <2>5. Flat(f, seqs, n)
    <3>1. \A k \in 1..n : f[k] = IF k = 1 THEN seqs[k] ELSE f[k - 1] \o seqs[k]
      BY <2>4, SMTT(30)
    <3>2. f = [k \in 1..n |-> f[k]]
      OBVIOUS
    <3>3. [k \in 1..n |-> f[k]] = [k \in 1..n |-> IF k = 1 THEN seqs[k] ELSE f[k - 1] \o seqs[k]]
      BY ONLY <3>1
    <3> QED BY ONLY <3>2, <3>3 DEF Flat
  <2> DEFINE g == CHOOSE h : Flat(h, seqs, n)
  <2>6. Flat(g, seqs, n)
    BY <2>5
  <2>7. FlattenSeq(seqs) = g[n]
    BY <1>1, <1>3 DEF FlattenSeq, Flat
  <2> HIDE DEF g
  <2> DEFINE R == {m \in Nat : \A k \in 1..n : k <= m => g[k] \in Seq(Int) /\ Len(g[k]) <= c * k}
  <2>8. 0 \in R
    OBVIOUS
  <2>9. ASSUME NEW m \in Nat, m \in R PROVE m + 1 \in R
    <3>0. \A k \in 1..n : k <= m + 1 => k <= m \/ k = m + 1
      OBVIOUS
    <3>1. ASSUME NEW k \in 1..n, k = m + 1
          PROVE  g[k] \in Seq(Int) /\ Len(g[k]) <= c * k
      <4>0. k = m + 1
        BY <3>1
      <4>1. seqs[k] \in Seq(Int) /\ Len(seqs[k]) <= c
        OBVIOUS
      <4>2. g[k] = IF k = 1 THEN seqs[k] ELSE g[k - 1] \o seqs[k]
        BY <2>6 DEF Flat
      <4>3. CASE k = 1
        <5>1. c * k = c /\ g[k] = seqs[k]
          BY <4>2, <4>3
        <5> QED BY <4>1, <5>1
      <4>4. CASE k # 1
        <5> PICK a, b : a = g[k - 1] /\ b = seqs[k]
          OBVIOUS
        <5>1. k - 1 = m /\ k - 1 \in 1..n
          BY <4>0, <4>4
        <5>2. a \in Seq(Int) /\ Len(a) <= c * m
          BY <2>9, <5>1
        <5>3. g[k] = a \o b /\ b \in Seq(Int) /\ Len(b) <= c
          BY <4>1, <4>2, <4>4
        <5>4. g[k] \in Seq(Int) /\ Len(g[k]) = Len(a) + Len(b)
          BY <5>2, <5>3
        <5>5. c * k = c * m + c /\ c * m \in Int
          <6>1. c * (m + 1) = c * m + c /\ c * m \in Int
            BY ONLY c \in Nat, m \in Nat
          <6> QED BY <4>0, <6>1
        <5>6. Len(a) \in Nat /\ Len(b) \in Nat
          BY <5>2, <5>3
        <5> PICK l, la, lb, p : l = Len(g[k]) /\ la = Len(a) /\ lb = Len(b) /\ p = c * m
          OBVIOUS
        <5>7. p \in Int /\ la \in Nat /\ lb \in Nat /\ la <= p /\ lb <= c /\ l = la + lb
          BY <5>2, <5>3, <5>4, <5>5, <5>6
        <5>8. l <= p + c
          BY ONLY <5>7, c \in Nat
        <5> QED BY <5>4, <5>5, <5>8
      <4> QED BY <4>3, <4>4
    <3>2. \A k \in 1..n : k <= m + 1 => g[k] \in Seq(Int) /\ Len(g[k]) <= c * k
      BY <2>9, <3>0, <3>1
    <3> QED BY <3>2
  <2>10. n \in R
    <3> HIDE DEF R
    <3> QED BY <2>8, <2>9, SetInduction
  <2> QED BY <1>3, <2>7, <2>10
<1> QED BY <1>2, <1>3

\* TEST_RANGE leaves room for the special floats, and MAX_TEST_VALS is not the
\* number of words less one: 500000, 13 times that, and 2^32 in the code.
RoomForValues == TestRange >= 4 /\ MAX_TEST_VALS # M - 1

LEMMA SampleLength ==
    ASSUME NEW min \in Int, NEW max \in Int, NEW n \in Int, NEW r \in Int
    PROVE  Sample(min, max, n, r) \in Seq(Int) /\ Len(Sample(min, max, n, r)) <= 5
<1> PICK a, b, c, d : /\ a = <<min + n, max - n>> /\ b = OneIf(n, min, max)
                      /\ c = OneIf(-n, min, max) /\ d = <<r>>
  OBVIOUS
<1>1. a \in Seq(Int) /\ Len(a) = 2 /\ d \in Seq(Int) /\ Len(d) = 1
  OBVIOUS
<1>2. \A v \in Int : OneIf(v, min, max) \in Seq(Int) /\ Len(OneIf(v, min, max)) \in 0..1
  BY DEF OneIf
<1>3. b \in Seq(Int) /\ Len(b) \in 0..1 /\ c \in Seq(Int) /\ Len(c) \in 0..1
  <2> PICK e \in Int : e = -n
    OBVIOUS
  <2>1. b = OneIf(n, min, max) /\ c = OneIf(e, min, max)
    OBVIOUS
  <2> QED BY <1>2, <2>1
<1>4. a \o b \in Seq(Int) /\ Len(a \o b) = 2 + Len(b)
  BY <1>1, <1>3
<1>5. (a \o b) \o c \in Seq(Int) /\ Len((a \o b) \o c) = 2 + Len(b) + Len(c)
  BY <1>3, <1>4
<1>6. ((a \o b) \o c) \o d \in Seq(Int) /\ Len(((a \o b) \o c) \o d) = 3 + Len(b) + Len(c)
  BY <1>1, <1>3, <1>5
<1>7. Sample(min, max, n, r) = ((a \o b) \o c) \o d
  BY DEF Sample
<1> PICK z, l, m : z = ((a \o b) \o c) \o d /\ l = Len(b) /\ m = Len(c)
  OBVIOUS
<1>8. z \in Seq(Int) /\ Len(z) = 3 + l + m /\ l \in 0..1 /\ m \in 0..1
  BY <1>3, <1>6
<1>9. Len(z) <= 5
  <2> PICK w : w = Len(z)
    OBVIOUS
  <2>1. w = 3 + l + m /\ l \in 0..1 /\ m \in 0..1
    BY <1>8
  <2>2. w <= 5
    BY ONLY <2>1
  <2> QED BY <2>2
<1> QED BY <1>7, <1>8, <1>9

\* Values of one argument: the first float is 0, and there are never too many.
LEMMA FloatValues ==
    ASSUME NEW range \in 1..TestRange
    PROVE  /\ float_vals(range)[1] = 0
           /\ Len(float_vals(range)) \in 1..(12 * range + 4)
<1>1. TestRange \in Nat /\ range \in Nat
  BY BTestAssumption
<1> PICK p : p = 2 ^ 23
  OBVIOUS
<1>2. p \in Nat
  BY PowerType
<1> PICK m : m = Min({range, p})
  OBVIOUS
<1>3. m \in {range, p} /\ m <= range
  <2>1. \E k \in {range, p} : \A l \in {range, p} : k <= l
    BY <1>1, <1>2
  <2> QED BY <2>1 DEF Min
<1>4. m \in 0..range
  BY <1>1, <1>2, <1>3
<1>5. float_vals(range) = [k \in 1..(12 * m + 4) |-> k - 1]
  BY DEF float_vals
<1>6. Len(float_vals(range)) = 12 * m + 4
  BY <1>4, <1>5
<1>7. float_vals(range)[1] = 0
  BY <1>4, <1>5
<1> QED BY <1>1, <1>4, <1>6, <1>7

LEMMA GenFits ==
    ASSUME RoomForValues, NEW t \in Tests, NEW k,
           NEW v \in gen_vals(test_set[t].min, test_set[t].max,
                              arg_test_range(test_set[t].args), k)
    PROVE  Len(v) <= MAX_TEST_VALS
<1> PICK min, max, range : /\ min = test_set[t].min /\ max = test_set[t].max
                           /\ range = arg_test_range(test_set[t].args)
  OBVIOUS
<1>1. t \in 1..10 \/ t \in 11..13
  BY Table
<1>2. \/ min = TMin /\ max = TMax /\ min # 1
      \/ min = 1 /\ max = 1
  BY <1>1, TestsAre
<1>3. range \in 1..TestRange /\ TestRange \in Nat /\ TestRange >= 4
  <2>1. test_set[t].args \in 0..3
    BY <1>1, TestsAre
  <2> QED BY <2>1, RootBound, BTestAssumption DEF RoomForValues
<1>4. TMin \in Int /\ TMax \in Int /\ TMax - TMin = M - 1 /\ M \in Nat
  <2>1. TMin = -H /\ TMax = H - 1
    BY DEF TMin, TMax, H
  <2> QED BY <2>1, Halves
<1> PICK z : z = MAX_TEST_VALS
  OBVIOUS
<1>5. z = 13 * TestRange /\ z \in Nat /\ z # M - 1
  BY <1>3 DEF MAX_TEST_VALS, RoomForValues
<1>6. v \in gen_vals(min, max, range, k)
  OBVIOUS
<1>7. CASE has_arg[k]
  <2>1. v = <<argval[k]>>
    BY <1>6, <1>7 DEF gen_vals
  <2> QED BY <1>3, <1>5, <2>1
<1>8. CASE ~has_arg[k] /\ min = 1 /\ max = 1
  <2>1. v = float_vals(range)
    BY <1>6, <1>8 DEF gen_vals
  <2>2. Len(v) \in 1..(12 * range + 4)
    BY <1>3, <2>1, FloatValues
  <2> QED BY <1>3, <1>5, <2>2
<1>9. CASE ~has_arg[k] /\ min = TMin /\ max = TMax /\ min # 1 /\ max - z <= min
  <2>1. v = [n \in 1..(max - min + 1) |-> min + n - 1]
    BY <1>6, <1>9 DEF gen_vals
  <2> PICK d : d = max - min + 1
    OBVIOUS
  <2>2. d \in Nat /\ d <= z
    BY <1>4, <1>5, <1>9
  <2>3. Len(v) = d
    BY <2>1, <2>2
  <2> QED BY <2>2, <2>3
<1>10. CASE ~has_arg[k] /\ min = TMin /\ max = TMax /\ min # 1 /\ ~(max - z <= min)
  <2>1. PICK r \in [1..range -> Randoms] :
           v = FlattenSeq([n \in 1..range |-> Sample(min, max, n - 1, r[n])])
    BY <1>6, <1>10 DEF gen_vals
  <2> DEFINE seqs == [n \in 1..range |-> Sample(min, max, n - 1, r[n])]
  <2>2. \A x \in Randoms : x \in Int
    BY <1>4, BTestAssumption
  <2>3. ASSUME NEW n \in 1..range
        PROVE  /\ Sample(min, max, n - 1, r[n]) \in Seq(Int)
               /\ Len(Sample(min, max, n - 1, r[n])) <= 5
    <3>1. n - 1 \in Int /\ r[n] \in Int /\ min \in Int /\ max \in Int
      BY <1>4, <1>10, <2>2
    <3> QED BY <3>1, SampleLength
  <2>4. seqs \in [1..range -> Seq(Int)] /\ \A n \in 1..range : Len(seqs[n]) <= 5
    BY <2>3
  <2> HIDE DEF seqs
  <2>5. range \in Nat /\ 5 \in Nat
    BY <1>3
  <2>6. Len(FlattenSeq(seqs)) <= 5 * range
    BY <2>4, <2>5, FlattenLength
  <2> PICK l : l = Len(v)
    OBVIOUS
  <2>7. l <= 5 * range
    BY <2>1, <2>6 DEF seqs
  <2> QED BY <1>3, <1>5, <2>7
<1> QED BY <1>2, <1>7, <1>8, <1>9, <1>10

----------------------------------------------------------------------------
(* The timer.                                                              *)

Testing == {"setjmp", "arm", "calls", "score"}

\* A test that runs is one asked for; the signal is blocked for no longer than
\* its handler takes.
PhaseOK ==
    /\ i \in Nat \ {0} /\ blocked = FALSE /\ saved = FALSE
    /\ pc = "parse" => i = 1 /\ alarm = 0 /\ charged = {}
    /\ pc \in Testing => i \in Tests /\ Selected(i)

\* An alarm that is due was set by the test that runs, or by the last one.
AlarmOK ==
    /\ alarm \in 0..i
    /\ pc \notin {"calls", "score"} => alarm < i
    /\ pc \in {"calls", "score"} => alarm \in {0, i}
    /\ pc = "calls" /\ timeout_limit > 0 => alarm = i
    /\ pc = "arm" => timeout_limit > 0
    /\ alarm # 0 =>
          /\ alarm \in Tests /\ timeout_limit > 0
          /\ \A t \in Tests : Selected(t) => ~(alarm < t /\ t < i)
          /\ \A c \in charged : c[2] < alarm

\* The tests that were ended are in the past.
ChargesOK ==
    \A c \in charged : /\ c \in Tests \X Tests
                       /\ c[2] <= c[1] /\ c[1] <= i
                       /\ c[1] = i => pc = "score"

TimerInv == PhaseOK /\ AlarmOK /\ ChargesOK /\ AlarmsStrikeNear

LEMMA TestsInts == Tests \subseteq Nat \ {0}
BY Table

LEMMA TimerInit == Init => TimerInv
<1> SUFFICES ASSUME Init PROVE TimerInv
  OBVIOUS
<1>1. /\ pc = "parse" /\ i = 1 /\ alarm = 0 /\ charged = {}
      /\ blocked = FALSE /\ saved = FALSE
  BY DEF Init
<1>2. PhaseOK
  BY <1>1 DEF PhaseOK, Testing
<1>3. AlarmOK
  BY <1>1 DEF AlarmOK
<1>4. ChargesOK /\ AlarmsStrikeNear
  BY <1>1 DEF ChargesOK, AlarmsStrikeNear
<1> QED BY <1>2, <1>3, <1>4 DEF TimerInv

LEMMA TimerStep == TimerInv /\ [Next]_vars => TimerInv'
<1> SUFFICES ASSUME TimerInv, [Next]_vars PROVE TimerInv'
  OBVIOUS
<1> USE TestsInts DEF TimerInv
<1>1. CASE Parse
  <2>1. /\ pc = "parse" /\ i = 1 /\ alarm = 0 /\ charged = {}
        /\ UNCHANGED <<i, alarm, blocked, saved, pc, charged>>
    BY <1>1 DEF Parse, PhaseOK, ghosts
  <2> QED BY <2>1 DEF PhaseOK, AlarmOK, ChargesOK, AlarmsStrikeNear, Testing
<1>2. CASE RunTests
  <2>1. /\ pc = "parse" /\ pc' = "gen" /\ i = 1 /\ alarm = 0 /\ charged = {}
        /\ UNCHANGED <<i, alarm, blocked, saved, charged>>
    BY <1>2 DEF RunTests, PhaseOK, ghosts
  <2> QED BY <2>1 DEF PhaseOK, AlarmOK, ChargesOK, AlarmsStrikeNear, Testing
<1>3. CASE Gen
  <2>1. pc = "gen" /\ UNCHANGED <<test_fname, timeout_limit, alarm, blocked, saved, charged>>
    BY <1>3 DEF Gen, opts, ghosts
  <2>2. \/ i \in Tests /\ ~Selected(i) /\ i' = i + 1 /\ pc' = "gen"
        \/ i \in Tests /\ Selected(i) /\ i' = i /\ pc' = "setjmp"
        \/ i' = i /\ pc' = "total"
    BY <1>3 DEF Gen
  <2> PICK n \in Nat \ {0} : n = i
    BY DEF PhaseOK
  <2>3. PhaseOK'
    <3>1. i' \in Nat \ {0} /\ blocked' = FALSE /\ saved' = FALSE
      BY <2>1, <2>2 DEF PhaseOK
    <3>2. pc' # "parse" /\ (pc' \in Testing => i' \in Tests /\ Selected(i'))
      BY <2>2 DEF Testing
    <3>3. pc' \in Testing => Selected(i)'
      BY <2>1, <3>2 DEF Selected
    <3> QED BY <3>1, <3>2, <3>3 DEF PhaseOK
  <2>4. AlarmOK'
    <3>1. alarm \in Nat /\ alarm < n /\ i' \in {n, n + 1} /\ (i' = n + 1 => ~Selected(n))
      BY <2>1, <2>2 DEF AlarmOK
    <3>2. alarm \in 0..i' /\ alarm < i'
      BY <3>1
    <3>3. ASSUME alarm # 0, NEW t \in Tests, Selected(t) PROVE ~(alarm < t /\ t < i')
      <4>1. ~(alarm < t /\ t < n) /\ t \in Nat
        BY <3>3 DEF AlarmOK
      <4>2. t = n => i' = n
        BY <3>1, <3>3
      <4> QED BY <3>1, <4>1, <4>2
    <3>4. pc' \notin {"calls", "score", "arm"}
      BY <2>2
    <3> QED BY <2>1, <3>2, <3>3, <3>4 DEF AlarmOK, Selected
  <2>5. ChargesOK'
    <3>1. ASSUME NEW c \in charged PROVE c[1] \in Nat /\ c[1] < n
      <4>1. c[1] \in Nat /\ c[1] <= n /\ c[1] # n
        BY <2>1 DEF ChargesOK
      <4> QED BY <4>1
    <3>2. i' \in {n, n + 1}
      BY <2>2
    <3>3. \A c \in charged : c[1] <= i' /\ c[1] # i'
      BY <3>1, <3>2
    <3> QED BY <2>1, <3>3 DEF ChargesOK
  <2>6. AlarmsStrikeNear'
    BY <2>1 DEF AlarmsStrikeNear, Selected
  <2> QED BY <2>3, <2>4, <2>5, <2>6
<1>4. CASE SetJmp
  <2>1. /\ pc = "setjmp" /\ pc' = (IF timeout_limit > 0 THEN "arm" ELSE "calls")
        /\ saved' \in {blocked, saved}
        /\ UNCHANGED <<test_fname, timeout_limit, i, alarm, blocked, charged>>
    BY <1>4 DEF SetJmp, opts, ghosts
  <2>2. PhaseOK'
    BY <2>1 DEF PhaseOK, Selected, Testing
  <2>3. pc' = "calls" => alarm = 0
    BY <2>1 DEF AlarmOK
  <2>4. AlarmOK'
    BY <2>1, <2>3 DEF AlarmOK, Selected
  <2>5. ChargesOK' /\ AlarmsStrikeNear'
    BY <2>1 DEF ChargesOK, AlarmsStrikeNear, Selected
  <2> QED BY <2>2, <2>4, <2>5
<1>5. CASE Arm
  <2>1. /\ pc = "arm" /\ pc' = "calls" /\ alarm' = i
        /\ UNCHANGED <<test_fname, timeout_limit, i, blocked, saved, charged>>
    BY <1>5 DEF Arm, opts, ghosts
  <2>2. \A c \in charged : c[2] < i
    <3>1. ASSUME NEW c \in charged PROVE c[2] < i
      <4>1. c[1] \in Nat /\ c[2] \in Nat /\ c[2] <= c[1] /\ c[1] <= i /\ c[1] # i
        BY <2>1 DEF ChargesOK
      <4> QED BY <4>1 DEF PhaseOK
    <3> QED BY <3>1
  <2>3. PhaseOK'
    BY <2>1 DEF PhaseOK, Selected, Testing
  <2>4. AlarmOK'
    <3>1. i \in Nat \ {0} /\ i \in Tests /\ timeout_limit > 0
      BY <2>1 DEF PhaseOK, AlarmOK, Testing
    <3> PICK n \in Nat \ {0} : n = i
      BY <3>1
    <3>2. alarm' = n /\ i' = n /\ pc' = "calls" /\ n \in 0..n /\ timeout_limit' > 0
      BY <2>1, <3>1
    <3>3. \A t \in Tests : ~(n < t /\ t < n)
      OBVIOUS
    <3> QED BY <2>1, <2>2, <3>1, <3>2, <3>3 DEF AlarmOK
  <2>5. ChargesOK' /\ AlarmsStrikeNear'
    BY <2>1 DEF ChargesOK, AlarmsStrikeNear, Selected
  <2> QED BY <2>3, <2>4, <2>5
<1>6. CASE Call
  <2>1. /\ pc = "calls" /\ pc' \in {"calls", "score"}
        /\ UNCHANGED <<test_fname, timeout_limit, i, alarm, blocked, saved, charged>>
    BY <1>6 DEF Call, opts, ghosts
  <2> QED BY <2>1 DEF PhaseOK, AlarmOK, ChargesOK, AlarmsStrikeNear, Selected, Testing
<1>7. CASE Score
  <2>1. /\ pc = "score" /\ pc' = "gen" /\ i' = i + 1
        /\ UNCHANGED <<test_fname, timeout_limit, alarm, blocked, saved, charged>>
    BY <1>7 DEF Score, opts, ghosts
  <2>2. PhaseOK'
    BY <2>1 DEF PhaseOK, Testing
  <2>3. AlarmOK'
    <3> PICK n \in Nat \ {0} : n = i
      BY DEF PhaseOK
    <3>1. alarm \in {0, n} /\ alarm \in 0..n
      BY <2>1 DEF AlarmOK
    <3>2. alarm \in 0..i' /\ alarm < i' /\ (alarm # 0 => alarm = n /\ i' = n + 1)
      BY <2>1, <3>1
    <3>3. alarm # 0 => \A t \in Tests : ~(alarm < t /\ t < i')
      BY <3>2
    <3> QED BY <2>1, <3>2, <3>3 DEF AlarmOK
  <2>4. ChargesOK'
    <3>1. ASSUME NEW c \in charged PROVE c[1] <= i + 1 /\ c[1] # i + 1
      <4>1. c[1] \in Nat /\ c[1] <= i
        BY DEF ChargesOK
      <4> QED BY <4>1 DEF PhaseOK
    <3> QED BY <2>1, <3>1 DEF ChargesOK
  <2>5. AlarmsStrikeNear'
    BY <2>1 DEF AlarmsStrikeNear, Selected
  <2> QED BY <2>2, <2>3, <2>4, <2>5
<1>8. CASE Total
  <2>1. UNCHANGED <<pc, test_fname, timeout_limit, i, alarm, blocked, saved, charged>>
    BY <1>8 DEF Total, opts, ghosts
  <2> QED BY <2>1 DEF PhaseOK, AlarmOK, ChargesOK, AlarmsStrikeNear, Selected
<1>9. CASE timeout_handler
  <2>1. /\ alarm # 0 /\ alarm' = 0 /\ blocked' = saved
        /\ UNCHANGED <<test_fname, timeout_limit, i, saved>>
    BY <1>9 DEF timeout_handler, opts
  <2>2. CASE /\ i \in Tests /\ Selected(i) /\ pc' = "score" /\ charged' = charged \cup {<<i, alarm>>}
    <3>1. PhaseOK'
      BY <2>1, <2>2 DEF PhaseOK, Selected, Testing
    <3>2. AlarmOK'
      <4>1. alarm' = 0 /\ pc' = "score" /\ i' \in Nat \ {0}
        BY <2>1, <2>2 DEF PhaseOK
      <4> QED BY <4>1 DEF AlarmOK
    <3>3. ChargesOK'
      BY <2>1, <2>2 DEF PhaseOK, AlarmOK, ChargesOK
    <3>4. AlarmsStrikeNear'
      <4> PICK e : e = <<i, alarm>>
        OBVIOUS
      <4>1. e[1] = i /\ e[2] = alarm /\ charged' = charged \cup {e}
        BY <2>2
      <4>2. /\ e[2] <= e[1]
            /\ \A t \in Tests : Selected(t) => ~(e[2] < t /\ t < e[1])
            /\ \A c \in charged : c[2] # e[2]
        <5>1. \A c \in charged : c[2] \in Nat /\ c[2] < alarm
          BY <2>1 DEF ChargesOK, AlarmOK
        <5> QED BY <2>1, <4>1, <5>1 DEF AlarmOK, PhaseOK
      <4> QED BY <2>1, <4>1, <4>2 DEF AlarmsStrikeNear, Selected
    <3> QED BY <3>1, <3>2, <3>3, <3>4
  <2>3. CASE pc \notin {"arm", "calls"} /\ UNCHANGED <<pc, charged>>
    <3>1. PhaseOK'
      BY <2>1, <2>3 DEF PhaseOK, Selected
    <3>2. AlarmOK'
      <4>1. alarm' = 0 /\ pc' \notin {"arm", "calls"} /\ i' \in Nat \ {0}
        BY <2>1, <2>3 DEF PhaseOK
      <4> QED BY <4>1 DEF AlarmOK
    <3>3. ChargesOK' /\ AlarmsStrikeNear'
      BY <2>1, <2>3 DEF ChargesOK, AlarmsStrikeNear, Selected
    <3> QED BY <3>1, <3>2, <3>3
  <2>4. \/ /\ i \in Tests /\ Selected(i) /\ pc' = "score" /\ charged' = charged \cup {<<i, alarm>>}
        \/ pc \notin {"arm", "calls"} /\ UNCHANGED <<pc, charged>>
    BY <1>9 DEF timeout_handler
  <2> QED BY <2>2, <2>3, <2>4
<1>10. CASE UNCHANGED vars
  <2>1. UNCHANGED <<pc, test_fname, timeout_limit, i, alarm, blocked, saved, charged>>
    BY <1>10 DEF vars, opts, ghosts
  <2> QED BY <2>1 DEF PhaseOK, AlarmOK, ChargesOK, AlarmsStrikeNear, Selected
<1> QED BY <1>1, <1>2, <1>3, <1>4, <1>5, <1>6, <1>7, <1>8, <1>9, <1>10 DEF Next, Main

\* An alarm is charged to the test that set it or to the next one tested, and
\* to no more than one, wherever it strikes (timeout_handler, btest.c:103-105,
\* and sigsetjmp and alarm in test_function, 348-358).
THEOREM AlarmsStayNear == Spec => []AlarmsStrikeNear
<1>1. TimerInv => AlarmsStrikeNear
  BY DEF TimerInv
<1> QED BY <1>1, TimerInit, TimerStep, PTL DEF Spec

\* A puzzle that loops has the alarm due that will end it: the signal is never
\* left blocked by the jump out of the handler (btest.c:103-105, 348-358).
THEOREM LoopsStayTimed == Spec => []LoopsAreTimed
<1>1. TimerInv => LoopsAreTimed
  BY DEF TimerInv, PhaseOK, AlarmOK, LoopsAreTimed, Looping
<1> QED BY <1>1, TimerInit, TimerStep, PTL DEF Spec

----------------------------------------------------------------------------
(* The values.                                                             *)

\* Making the values of the test that is to run.
Made(v) ==
    /\ i \in Tests /\ Selected(i)
    /\ DOMAIN v = 1..test_set[i].args
    /\ \A k \in DOMAIN v : v[k] \in gen_vals(test_set[i].min, test_set[i].max,
                                             arg_test_range(test_set[i].args), k)

LEMMA GenMakes ==
    ASSUME Gen, pc' = "setjmp"
    PROVE  Made(arg_test_vals')
<1> PICK t : t = test_set[i]
  OBVIOUS
<1> DEFINE Vals(k) == gen_vals(t.min, t.max, arg_test_range(t.args), k)
<1>1. /\ i \in Tests /\ Selected(i)
      /\ arg_test_vals' \in {v \in [1..t.args -> UNION {Vals(k) : k \in 1..t.args}] :
                                \A k \in 1..t.args : v[k] \in Vals(k)}
  BY DEF Gen
<1> HIDE DEF Vals
<1>2. DOMAIN arg_test_vals' = 1..t.args /\ \A k \in 1..t.args : arg_test_vals'[k] \in Vals(k)
  BY <1>1
<1> QED BY <1>1, <1>2 DEF Made, Vals

\* The values of an argument fit its row of arg_test_vals (gen_vals and
\* test_function, btest.c:120-223, 306, 338-345).
THEOREM ValuesStayWithin == ASSUME RoomForValues PROVE Spec => []ValuesFit
<1>1. Init => ValuesFit
  <2>1. Init => arg_test_vals = <<>>
    BY DEF Init
  <2> QED BY <2>1 DEF ValuesFit
<1>2. ValuesFit /\ [Next]_vars => ValuesFit'
  <2> SUFFICES ASSUME ValuesFit, [Next]_vars PROVE ValuesFit'
    OBVIOUS
  <2>1. CASE UNCHANGED arg_test_vals
    BY <2>1 DEF ValuesFit, Count
  <2>2. CASE arg_test_vals' = <<>>
    BY <2>2 DEF ValuesFit
  <2>3. CASE Gen /\ pc' = "setjmp"
    <3> PICK v : v = arg_test_vals'
      OBVIOUS
    <3>1. Made(v)
      BY <2>3, GenMakes
    <3>2. \A k \in DOMAIN v : Len(v[k]) <= MAX_TEST_VALS
      BY <3>1, GenFits DEF Made
    <3> QED BY <3>2 DEF ValuesFit, Count
  <2>4. UNCHANGED arg_test_vals \/ arg_test_vals' = <<>> \/ (Gen /\ pc' = "setjmp")
    <3>1. Gen => UNCHANGED arg_test_vals \/ pc' = "setjmp"
      BY DEF Gen
    <3>2. Parse \/ RunTests \/ SetJmp \/ Arm \/ Call \/ Total => UNCHANGED arg_test_vals
      BY DEF Parse, RunTests, SetJmp, Arm, Call, Total
    <3>3. timeout_handler \/ UNCHANGED vars => UNCHANGED arg_test_vals
      BY DEF timeout_handler, vars
    <3>4. Score => arg_test_vals' = <<>>
      BY DEF Score
    <3> QED BY <3>1, <3>2, <3>3, <3>4 DEF Next, Main
  <2> QED BY <2>1, <2>2, <2>3, <2>4
<1> QED BY <1>1, <1>2, PTL DEF Spec

----------------------------------------------------------------------------
(* The verdicts.                                                           *)

\* Command lines: options, where a value for an argument comes with the name
\* of an integer puzzle, as the verdict on a float puzzle is modelled for 0.
Options == UNION {{inv[k] : k \in DOMAIN inv} : inv \in Invocations}
IntegerNames(inv) == \A k \in DOMAIN inv : inv[k].opt = "f" => inv[k].val \notin Floats \cup {""}
GivesName(inv) == \E k \in DOMAIN inv : inv[k].opt = "f"
GivesValue(inv) == \E k \in DOMAIN inv : inv[k].opt = "arg"
IntegerValues ==
    /\ Invocations \subseteq Seq(Options)
    /\ \A inv \in Invocations : GivesValue(inv) => GivesName(inv) /\ IntegerNames(inv)

\* So the float puzzles are tried with the values of float_vals only.
ValuesOfIntegers ==
    /\ argv \in Seq(Options)
    /\ pc # "parse" => argv = <<>>
    /\ has_arg[1] \/ GivesValue(argv) =>
          /\ IntegerNames(argv)
          /\ GivesName(argv) \/ test_fname \notin Floats \cup {""}

\* What is known of the test that runs,
RunOK ==
    /\ pc \in {"setjmp", "arm", "calls"} =>
          /\ DOMAIN arg_test_vals = 1..test_set[i].args
          /\ i \notin Solved => call = 0
          /\ i \in 11..13 => Count(1) \in Nat \ {0} /\ arg_test_vals[1][1] = 0
    /\ pc = "score" => /\ errors = 0 => i \in Solved
                       /\ errors # 0 /\ i \in Solved => \E a \in Tests : <<i, a>> \in charged

\* and of those that ran.
ResultsOK ==
    /\ scored \subseteq Solved
    /\ \A t \in Solved : t < i /\ Selected(t) =>
          t \in scored \/ \E a \in Tests : <<t, a>> \in charged

VerdictInv == ValuesOfIntegers /\ RunOK /\ ResultsOK

LEMMA VerdictInit == ASSUME IntegerValues PROVE Init => VerdictInv
<1> SUFFICES ASSUME Init PROVE VerdictInv
  OBVIOUS
<1>0. argv \in Invocations /\ pc = "parse" /\ scored = {} /\ i = 1
  BY DEF Init
<1>1. has_arg[1] = FALSE
  <2>1. has_arg = [k \in 1..3 |-> FALSE]
    BY DEF Init
  <2> QED BY <2>1
<1>2. ValuesOfIntegers
  BY <1>0, <1>1 DEF ValuesOfIntegers, IntegerValues
<1>3. RunOK
  BY <1>0 DEF RunOK
<1>4. ResultsOK
  <2>1. \A t \in Solved : ~(t < 1)
    BY TestsAre
  <2> QED BY <1>0, <2>1 DEF ResultsOK
<1> QED BY <1>2, <1>3, <1>4 DEF VerdictInv

\* Parsing: the names are read before the tests run.
LEMMA ParseStep == ASSUME VerdictInv, Parse PROVE ValuesOfIntegers'
<1> PICK o, r : o = Head(argv) /\ r = Tail(argv)
  OBVIOUS
<1>1. /\ pc = "parse" /\ pc' = "parse" /\ argv # <<>> /\ argv' = r /\ argv \in Seq(Options)
  BY DEF Parse, VerdictInv, ValuesOfIntegers
<1>2. /\ r \in Seq(Options) /\ 1 \in DOMAIN argv /\ o = argv[1]
      /\ \A k \in DOMAIN r : k + 1 \in DOMAIN argv /\ r[k] = argv[k + 1]
      /\ \A k \in DOMAIN argv : k = 1 \/ (k - 1 \in DOMAIN r /\ r[k - 1] = argv[k])
  BY <1>1
<1>3. /\ GivesValue(r) \/ o.opt = "arg" => GivesValue(argv)
      /\ IntegerNames(argv) => IntegerNames(r)
      /\ IntegerNames(argv) /\ o.opt = "f" => o.val \notin Floats \cup {""}
      /\ GivesName(argv) => o.opt = "f" \/ GivesName(r)
  <2>1. GivesValue(r) \/ o.opt = "arg" => GivesValue(argv)
    BY <1>2 DEF GivesValue
  <2>2. IntegerNames(argv) => IntegerNames(r)
    BY <1>2, ZenonT(30) DEF IntegerNames
  <2>3. IntegerNames(argv) /\ o.opt = "f" => o.val \notin Floats \cup {""}
    BY <1>2 DEF IntegerNames
  <2>4. GivesName(argv) => o.opt = "f" \/ GivesName(r)
    BY <1>2, ZenonT(30) DEF GivesName
  <2> QED BY <2>1, <2>2, <2>3, <2>4
<1>4. \/ o.opt = "arg" /\ UNCHANGED test_fname
      \/ o.opt = "f" /\ test_fname' = o.val /\ UNCHANGED has_arg
      \/ o.opt \in {"T", "usage"} /\ UNCHANGED <<test_fname, has_arg>>
  BY DEF Parse, ParseArg
<1>5. has_arg[1] \/ GivesValue(argv) =>
          /\ IntegerNames(argv)
          /\ GivesName(argv) \/ test_fname \notin Floats \cup {""}
  BY DEF VerdictInv, ValuesOfIntegers
<1>6. has_arg'[1] \/ GivesValue(r) => has_arg[1] \/ GivesValue(argv)
  BY <1>3, <1>4
<1>7. has_arg'[1] \/ GivesValue(r) =>
          IntegerNames(r) /\ (GivesName(r) \/ test_fname' \notin Floats \cup {""})
  BY <1>3, <1>4, <1>5, <1>6
<1> QED BY <1>1, <1>2, <1>7 DEF ValuesOfIntegers

\* A call of a solution gives no error, and the first call of another puzzle does.
LEMMA CallJudges ==
    ASSUME TimerInv, VerdictInv, pc = "calls"
    PROVE  Wrong(test_set[i], Arguments(test_set[i])) <=> i \notin Solved
<1> PICK t, v : t = test_set[i] /\ v = Arguments(t)
  OBVIOUS
<1>1. /\ i \in 1..13
      /\ i \notin Solved => call = 0
      /\ i \in 11..13 => Count(1) \in Nat \ {0} /\ arg_test_vals[1][1] = 0
  BY Table DEF TimerInv, PhaseOK, Testing, VerdictInv, RunOK
<1>2. DOMAIN v = 1..t.args
  BY DEF Arguments
<1>3. ASSUME i \in 1..9 PROVE ~Wrong(t, v)
  BY <1>2, <1>3, Judged
<1>4. ASSUME i = 10 PROVE Wrong(t, v)
  <2>1. t.args = 1
    BY <1>4, Table DEF Entry
  <2> QED BY <1>2, <1>4, <2>1, Judged
<1>5. ASSUME i \in 11..13 PROVE Wrong(t, v)
  <2>1. t.args = 1 /\ i \notin Solved
    BY <1>5, TestsAre
  <2>2. call = 0 /\ Count(1) \in Nat \ {0} /\ arg_test_vals[1][1] = 0
    BY <1>1, <1>5, <2>1
  <2>3. v[1] = arg_test_vals[1][1 + ((call \div 1) % Count(1))]
    BY <2>1 DEF Arguments
  <2>4. 1 + ((0 \div 1) % Count(1)) = 1
    <3> PICK c \in Nat \ {0} : c = Count(1)
      BY <2>2
    <3>1. 0 % c = 0
      BY Wrapped
    <3>2. 0 \div 1 = 0
      OBVIOUS
    <3> QED BY <3>1, <3>2
  <2>5. v[1] = 0
    BY <2>2, <2>3, <2>4
  <2> QED BY <1>5, <2>5, Judged
<1> QED BY <1>1, <1>3, <1>4, <1>5, TestsAre

\* gen_vals gives a float puzzle 0 first.
LEMMA GenFloats ==
    ASSUME TimerInv, VerdictInv, Gen, pc' = "setjmp", i \in 11..13
    PROVE  Count(1)' \in Nat \ {0} /\ arg_test_vals'[1][1] = 0
<1> PICK v : v = arg_test_vals'
  OBVIOUS
<1>1. Made(v)
  BY GenMakes
<1>2. test_set[i].args = 1 /\ test_set[i].min = 1 /\ test_set[i].max = 1 /\ i \in 1..13
  BY TestsAre
<1> PICK range : range = arg_test_range(1)
  OBVIOUS
<1>3. range \in 1..TestRange
  BY RootBound
<1>4. v[1] \in gen_vals(1, 1, range, 1)
  BY <1>1, <1>2 DEF Made
<1>5. ~has_arg[1]
  <2>1. test_set[i].name \in Floats /\ test_fname \in {"", test_set[i].name}
    BY <1>1, <1>2, TestsAre DEF Made, Selected
  <2>2. argv = <<>>
    BY DEF Gen, VerdictInv, ValuesOfIntegers
  <2>3. ~GivesName(argv)
    BY <2>2 DEF GivesName
  <2> QED BY <2>1, <2>3 DEF VerdictInv, ValuesOfIntegers
<1>6. v[1] = float_vals(range)
  BY <1>4, <1>5 DEF gen_vals
<1>7. Len(v[1]) \in 1..(12 * range + 4) /\ v[1][1] = 0
  BY <1>3, <1>6, FloatValues
<1>8. Count(1)' = Len(v[1])
  BY DEF Count
<1>9. Len(v[1]) \in Nat \ {0}
  BY <1>3, <1>7, BTestAssumption
<1> QED BY <1>7, <1>8, <1>9

LEMMA VerdictStep == TimerInv /\ VerdictInv /\ [Next]_vars => VerdictInv'
<1> SUFFICES ASSUME TimerInv, VerdictInv, [Next]_vars PROVE VerdictInv'
  OBVIOUS
<1>0. Solved \subseteq Nat /\ Solved \subseteq Tests /\ i \in Nat \ {0}
  BY TestsAre, Table DEF TimerInv, PhaseOK
<1> USE DEF VerdictInv
\* What does not parse leaves the options alone.
<1>1. ASSUME UNCHANGED opts, pc # "parse" \/ pc' = "parse" \/ argv = <<>> PROVE ValuesOfIntegers'
  BY <1>1 DEF opts, ValuesOfIntegers
\* What ends no test keeps the results.
<1>2. ASSUME UNCHANGED <<scored, test_fname>>, charged \subseteq charged', i' = i PROVE ResultsOK'
  BY <1>2 DEF ResultsOK, Selected
<1>3. CASE Parse
  <2>1. pc' = "parse" /\ i = 1 /\ UNCHANGED <<i, scored>>
    BY <1>3 DEF Parse, TimerInv, PhaseOK
  <2>2. \A t \in Solved : ~(t < 1)
    BY TestsAre
  <2>3. RunOK' /\ ResultsOK'
    BY <2>1, <2>2 DEF RunOK, ResultsOK
  <2> QED BY <1>3, <2>3, ParseStep
<1>4. CASE RunTests
  <2>1. /\ argv = <<>> /\ pc' = "gen"
        /\ UNCHANGED <<opts, i, scored, test_fname, charged>>
    BY <1>4 DEF RunTests, opts, ghosts
  <2>2. RunOK'
    BY <2>1 DEF RunOK
  <2> QED BY <1>1, <1>2, <2>1, <2>2
<1>5. CASE Gen
  <2>1. pc = "gen" /\ UNCHANGED <<opts, scored, test_fname, charged>>
    BY <1>5 DEF Gen, opts, ghosts
  <2>2. \/ ~Selected(i) /\ i' = i + 1 /\ pc' = "gen"
        \/ i' = i /\ pc' = "setjmp" /\ call' = 0
        \/ i' = i /\ pc' = "total"
    BY <1>5, <2>1 DEF Gen
  <2>3. ResultsOK'
    <3>1. CASE i' = i
      BY <1>2, <2>1, <3>1
    <3>2. CASE ~Selected(i) /\ i' = i + 1
      <4>1. \A t \in Solved : t < i + 1 /\ Selected(t) => t < i
        BY <1>0, <3>2
      <4> QED BY <2>1, <3>2, <4>1 DEF ResultsOK, Selected
    <3> QED BY <2>2, <3>1, <3>2
  <2>4. RunOK'
    <3>1. CASE pc' = "setjmp"
      <4>1. i' = i /\ call' = 0
        BY <2>2, <3>1
      <4>2. DOMAIN arg_test_vals' = 1..test_set[i].args
        BY <1>5, <3>1, GenMakes DEF Made
      <4>3. i \in 11..13 => Count(1)' \in Nat \ {0} /\ arg_test_vals'[1][1] = 0
        BY <1>5, <3>1, GenFloats
      <4> QED BY <3>1, <4>1, <4>2, <4>3 DEF RunOK
    <3>2. CASE pc' \in {"gen", "total"}
      BY <3>2 DEF RunOK
    <3> QED BY <2>2, <3>1, <3>2
  <2> QED BY <1>1, <2>1, <2>3, <2>4
<1>6. CASE SetJmp \/ Arm
  <2>1. /\ pc \in {"setjmp", "arm"} /\ pc' \in {"arm", "calls"}
        /\ UNCHANGED <<opts, i, arg_test_vals, call, scored, test_fname, charged>>
    BY <1>6 DEF SetJmp, Arm, opts, ghosts
  <2>2. RunOK'
    BY <2>1 DEF RunOK, Count
  <2> QED BY <1>1, <1>2, <2>1, <2>2
<1>7. CASE Call
  <2>1. /\ pc = "calls" /\ UNCHANGED <<opts, i, arg_test_vals, scored, test_fname, charged>>
        /\ errors' = IF Wrong(test_set[i], Arguments(test_set[i])) THEN 1 ELSE 0
        /\ pc' \in {"calls", "score"} /\ (errors' = 1 => pc' = "score")
    BY <1>7 DEF Call, opts, ghosts
  <2>2. errors' = IF i \in Solved THEN 0 ELSE 1
    BY <2>1, CallJudges
  <2>3. CASE pc' = "score"
    <3>1. RunOK'
      BY <2>1, <2>2, <2>3 DEF RunOK
    <3> QED BY <1>1, <1>2, <2>1, <3>1
  <2>4. CASE pc' = "calls"
    <3>1. i \in Solved
      BY <2>1, <2>2, <2>4
    <3>2. i \notin 11..13
      BY <3>1, TestsAre
    <3>3. RunOK'
      BY <2>1, <2>4, <3>1, <3>2 DEF RunOK
    <3> QED BY <1>1, <1>2, <2>1, <3>3
  <2> QED BY <2>1, <2>3, <2>4
<1>8. CASE Score
  <2>1. /\ pc = "score" /\ pc' = "gen" /\ i' = i + 1
        /\ scored' = (IF errors = 0 THEN scored \cup {i} ELSE scored)
        /\ UNCHANGED <<opts, test_fname, charged>>
    BY <1>8 DEF Score, opts, ghosts
  <2>2. RunOK'
    BY <2>1 DEF RunOK
  <2>3. \A t \in Solved : t < i + 1 => t < i \/ t = i
    BY <1>0
  <2>4. ResultsOK'
    BY <2>1, <2>3 DEF RunOK, ResultsOK, Selected
  <2> QED BY <1>1, <2>1, <2>2, <2>4
<1>9. CASE Total
  <2>1. /\ pc = "total" /\ UNCHANGED <<opts, pc, i, scored, test_fname, charged>>
    BY <1>9 DEF Total, opts, ghosts
  <2>2. RunOK'
    BY <2>1 DEF RunOK
  <2> QED BY <1>1, <1>2, <2>1, <2>2
<1>10. CASE timeout_handler
  <2>1. alarm # 0 /\ UNCHANGED <<opts, i, arg_test_vals, call, scored, test_fname>>
    BY <1>10 DEF timeout_handler, opts
  <2>2. \/ /\ i \in Tests /\ errors' = 1 /\ pc' = "score" /\ pc # "parse"
           /\ charged' = charged \cup {<<i, alarm>>}
        \/ UNCHANGED <<errors, pc, charged>>
    BY <1>10 DEF timeout_handler
  <2>3. RunOK'
    <3>1. CASE errors' = 1 /\ pc' = "score" /\ charged' = charged \cup {<<i, alarm>>}
      <4>1. alarm \in Tests
        BY <2>1 DEF TimerInv, AlarmOK
      <4> QED BY <2>1, <3>1, <4>1 DEF RunOK
    <3>2. CASE UNCHANGED <<errors, pc, charged>>
      BY <2>1, <3>2 DEF RunOK, Count
    <3> QED BY <2>2, <3>1, <3>2
  <2>4. charged \subseteq charged' /\ (pc # "parse" \/ pc' = "parse")
    BY <2>2
  <2> QED BY <1>1, <1>2, <2>1, <2>3, <2>4
<1>11. CASE UNCHANGED vars
  <2>1. UNCHANGED <<opts, pc, i, arg_test_vals, call, errors, scored, test_fname, charged>>
    BY <1>11 DEF vars, opts, ghosts
  <2>2. RunOK'
    BY <2>1 DEF RunOK, Count
  <2> QED BY <1>1, <1>2, <2>1, <2>2
<1> QED BY <1>3, <1>4, <1>5, <1>6, <1>7, <1>8, <1>9, <1>10, <1>11 DEF Next, Main

\* Each solution of bits.c scores, with any values of the arguments, words of
\* any width and any order of alarms, unless an alarm ended its test; the
\* puzzles that are not solved never score (run_tests and test_function,
\* btest.c:296-455; bits.c and tests.c).
THEOREM VerdictsStayRight == ASSUME IntegerValues PROVE Spec => []Verdicts
<1>1. VerdictInv => Verdicts
  BY DEF VerdictInv, ResultsOK, Verdicts
<1> QED BY <1>1, TimerInit, TimerStep, VerdictInit, VerdictStep, PTL DEF Spec
=============================================================================
