---------------------------- MODULE NumberLemmas ----------------------------
(***************************************************************************)
(* Facts about numbers that the proofs share: quotients and remainders,    *)
(* powers of two, sets of numbers, induction and sums.                     *)
(***************************************************************************)
EXTENDS Integers, FiniteSetTheorems, TLAPS

\* A quotient and its remainder,
LEMMA DivMod ==
    ASSUME NEW b \in Nat \ {0}, NEW x \in Int
    PROVE  /\ x \div b \in Int /\ x % b \in 0..(b - 1)
           /\ x = b * (x \div b) + (x % b)
OBVIOUS

\* and they grow together.
LEMMA Grows ==
    ASSUME NEW b \in Nat, NEW q \in Int, NEW s \in Int, q <= s
    PROVE  b * q \in Int /\ b * s \in Int /\ b * q <= b * s
<1>1. b * q \in Int /\ b * s \in Int /\ b * s = b * q + b * (s - q)
  OBVIOUS
<1>2. b * (s - q) >= 0
  OBVIOUS
<1> QED BY <1>1, <1>2

\* Between two multiples of the divisor there is one quotient.
LEMMA Remainder ==
    ASSUME NEW b \in Nat \ {0}, NEW x \in Int, NEW q \in Int, b * q <= x, x < b * q + b
    PROVE  x % b = x - b * q
<1> DEFINE s == x \div b
<1>1. s \in Int /\ x % b \in 0..(b - 1) /\ x = b * s + (x % b)
  BY DivMod
<1> HIDE DEF s
<1>2. CASE q >= s + 1
  <2>1. b * (s + 1) <= b * q
    BY <1>1, <1>2, Grows
  <2>2. b * (s + 1) = b * s + b
    BY <1>1
  <2> QED BY <1>1, <2>1, <2>2
<1>3. CASE s >= q + 1
  <2>1. b * (q + 1) <= b * s
    BY <1>1, <1>3, Grows
  <2>2. b * (q + 1) = b * q + b
    OBVIOUS
  <2> QED BY <1>1, <2>1, <2>2
<1>4. CASE s = q
  BY <1>1, <1>4
<1> QED BY <1>1, <1>2, <1>3, <1>4

\* The remainder of a difference of two remainders.
LEMMA Wrapped ==
    ASSUME NEW b \in Nat \ {0}, NEW x \in Int, -b <= x, x < b
    PROVE  x % b = IF x >= 0 THEN x ELSE x + b
<1>1. b * 0 = 0 /\ b * (-1) = -b
  OBVIOUS
<1>2. ASSUME NEW q \in Int, b * q <= x, x < b * q + b PROVE x % b = x - b * q
  BY <1>2, Remainder
<1>3. CASE x >= 0
  <2>1. b * 0 <= x /\ x < b * 0 + b
    BY <1>1, <1>3
  <2>2. x % b = x - b * 0
    BY <1>2, <2>1
  <2> QED BY <1>1, <1>3, <2>2
<1>4. CASE x < 0
  <2>1. b * (-1) <= x /\ x < b * (-1) + b
    BY <1>1, <1>4
  <2>2. x % b = x - b * (-1)
    BY <1>2, <2>1
  <2> QED BY <1>1, <1>4, <2>2
<1> QED BY <1>3, <1>4

----------------------------------------------------------------------------
\* The numbers up to c, when c of those below n make up a lower part.
LEMMA LowerPart ==
    ASSUME NEW n \in Nat, NEW T \in SUBSET (1..n),
           \A t \in T : \A r \in 1..t : r \in T
    PROVE  \E c \in 0..n : T = 1..c
<1> DEFINE c == Cardinality(T)
<1>1. IsFiniteSet(1..n) /\ Cardinality(1..n) = n
  BY FS_Interval
<1>2. IsFiniteSet(T) /\ c <= n
  BY <1>1, FS_Subset, ZenonT(30)
<1>3. c \in 0..n
  BY <1>2, FS_CardinalityType
<1> HIDE DEF c
<1>4. ASSUME NEW t \in T PROVE t <= c
  <2>1. t \in Nat /\ (1..t) \in SUBSET T
    BY <1>4
  <2>2. Cardinality(1..t) = t /\ Cardinality(1..t) <= c
    BY <1>2, <2>1, FS_Interval, FS_Subset DEF c
  <2> QED BY <2>2
<1>5. ASSUME NEW r \in 1..c PROVE r \in T
  <2> SUFFICES ASSUME r \notin T PROVE FALSE
    OBVIOUS
  <2>1. T \in SUBSET (1..(r - 1))
    <3>1. ASSUME NEW t \in T PROVE t \in 1..(r - 1)
      <4>1. ~(r <= t)
        BY <1>3, <3>1
      <4> QED BY <1>3, <4>1
    <3> QED BY <3>1
  <2>2. r - 1 \in Nat /\ IsFiniteSet(1..(r - 1)) /\ Cardinality(1..(r - 1)) = r - 1
    BY <1>3, FS_Interval
  <2>3. c <= r - 1
    <3>1. Cardinality(T) <= Cardinality(1..(r - 1))
      BY <2>1, <2>2, FS_Subset
    <3> QED BY <2>2, <3>1 DEF c
  <2> QED BY <1>3, <2>3
<1>6. T = 1..c
  <2>1. \A t \in T : t \in 1..c
    BY <1>3, <1>4
  <2> QED BY <1>5, <2>1
<1> QED BY <1>3, <1>6

----------------------------------------------------------------------------
(* Powers of two.                                                          *)

\* A power of two is a number, namely that of the subsets of a set.
LEMMA PowerType == ASSUME NEW n \in Nat PROVE 2^n \in Nat \ {0}
<1>1. IsFiniteSet(1..n) /\ Cardinality(1..n) = n
  BY FS_Interval
<1>2. IsFiniteSet(SUBSET (1..n)) /\ Cardinality(SUBSET (1..n)) = 2^n
  BY <1>1, FS_SUBSET
<1>3. Cardinality(SUBSET (1..n)) \in Nat
  BY <1>2, FS_CardinalityType
<1>4. Cardinality(SUBSET (1..n)) # 0
  <2>1. {} \in SUBSET (1..n)
    OBVIOUS
  <2> QED BY <1>2, <2>1, FS_EmptySet
<1> QED BY <1>2, <1>3, <1>4

\* A subset of m + n numbers is one of the first m and one of the other n.
LEMMA PowerSum == ASSUME NEW m \in Nat, NEW n \in Nat PROVE 2^(m + n) = 2^m * 2^n
<1> DEFINE S == SUBSET (1..(m + n))
           T == (SUBSET (1..m)) \X (SUBSET (1..n))
           Upper(X) == {x \in 1..n : m + x \in X}
           f == [X \in S |-> <<X \cap (1..m), Upper(X)>>]
<1>1. f \in [S -> T]
  OBVIOUS
<1>2. ASSUME NEW X \in S, NEW Y \in S, f[X] = f[Y] PROVE X = Y
  <2>1. X \cap (1..m) = Y \cap (1..m) /\ Upper(X) = Upper(Y)
    BY <1>2
  <2>2. ASSUME NEW x \in 1..(m + n) PROVE x \in X <=> x \in Y
    <3>1. CASE x <= m
      BY <2>1, <3>1
    <3>2. CASE x > m
      <4>1. x - m \in 1..n /\ m + (x - m) = x
        BY <3>2
      <4>2. x \in X <=> x - m \in Upper(X)
        BY <4>1
      <4>3. x \in Y <=> x - m \in Upper(Y)
        BY <4>1
      <4> QED BY <2>1, <4>2, <4>3
    <3> QED BY <3>1, <3>2
  <2> QED BY <2>2
<1>3. ASSUME NEW P \in T PROVE \E X \in S : f[X] = P
  <2> DEFINE X == P[1] \cup {x \in (m + 1)..(m + n) : x - m \in P[2]}
  <2>1. P[1] \in SUBSET (1..m) /\ P[2] \in SUBSET (1..n) /\ P = <<P[1], P[2]>>
    BY <1>3
  <2>2. X \in S
    BY <2>1
  <2>3. X \cap (1..m) = P[1]
    BY <2>1
  <2>4. Upper(X) = P[2]
    <3>1. ASSUME NEW x \in 1..n PROVE m + x \in X <=> x \in P[2]
      <4>1. m + x \in (m + 1)..(m + n) /\ (m + x) - m = x /\ m + x \notin 1..m
        OBVIOUS
      <4> QED BY <2>1, <4>1
    <3> QED BY <2>1, <3>1
  <2> HIDE DEF X
  <2>5. f[X] = P
    BY <2>1, <2>2, <2>3, <2>4
  <2> QED BY <2>2, <2>5
<1>4. ExistsBijection(S, T)
  <2> HIDE DEF f, S, T
  <2>1. f \in Injection(S, T)
    BY <1>1, <1>2 DEF Injection, IsInjective
  <2>2. f \in Surjection(S, T)
    BY <1>1, <1>3 DEF Surjection
  <2> QED BY <2>1, <2>2 DEF ExistsBijection, Bijection
<1> HIDE DEF f, S, T
<1>5. IsFiniteSet(S) /\ Cardinality(S) = 2^(m + n)
  <2>1. \A k \in Nat : IsFiniteSet(1..k) /\ Cardinality(1..k) = k
    BY FS_Interval
  <2>2. m + n \in Nat
    OBVIOUS
  <2> QED BY <2>1, <2>2, FS_SUBSET DEF S
<1>6. Cardinality(T) = 2^m * 2^n
  <2>1. /\ IsFiniteSet(1..m) /\ Cardinality(1..m) = m
        /\ IsFiniteSet(1..n) /\ Cardinality(1..n) = n
    BY FS_Interval
  <2>2. /\ IsFiniteSet(SUBSET (1..m)) /\ Cardinality(SUBSET (1..m)) = 2^m
        /\ IsFiniteSet(SUBSET (1..n)) /\ Cardinality(SUBSET (1..n)) = 2^n
    BY <2>1, FS_SUBSET
  <2> QED BY <2>2, FS_Product DEF T
<1>7. Cardinality(T) = Cardinality(S)
  BY <1>4, <1>5, FS_Bijection
<1> QED BY <1>5, <1>6, <1>7

\* The powers double.
LEMMA PowerZero == 2^0 = 1
<1>1. IsFiniteSet({}) /\ Cardinality({}) = 0
  BY FS_EmptySet
<1>2. Cardinality(SUBSET {}) = 2^0
  BY <1>1, FS_SUBSET
<1>3. SUBSET {} = {{}}
  OBVIOUS
<1>4. Cardinality({{}}) = 1
  BY FS_Singleton
<1> QED BY <1>2, <1>3, <1>4

LEMMA PowerNext == ASSUME NEW n \in Nat PROVE 2^(n + 1) = 2^n + 2^n /\ 2^n \in Nat \ {0}
<1>1. 2^1 = 2
  <2>1. IsFiniteSet({1}) /\ Cardinality({1}) = 1
    BY FS_Singleton
  <2>2. Cardinality(SUBSET {1}) = 2^1
    BY <2>1, FS_SUBSET
  <2>3. SUBSET {1} = {{}} \cup {{1}} /\ {{1}} \cap {{}} = {}
    OBVIOUS
  <2> PICK X, Y : X = {{}} /\ Y = {{1}}
    OBVIOUS
  <2>4. X \cap Y = {} /\ Cardinality({}) = 0
    BY <2>3, FS_EmptySet
  <2>5. IsFiniteSet(X) /\ IsFiniteSet(Y) /\ Cardinality(X) = 1 /\ Cardinality(Y) = 1
    BY FS_Singleton
  <2>6. Cardinality(X \cup Y) = Cardinality(X) + Cardinality(Y) - Cardinality(X \cap Y)
    BY <2>5, FS_Union
  <2> QED BY <2>2, <2>3, <2>4, <2>5, <2>6
<1>2. 2^(1 + n) = 2^1 * 2^n
  BY PowerSum
<1>3. 2^n \in Nat \ {0} /\ 1 + n = n + 1
  BY PowerType
<1> QED BY <1>1, <1>2, <1>3

----------------------------------------------------------------------------
(* More about quotients.                                                   *)

\* The quotient of what is below a product,
LEMMA DivBound ==
    ASSUME NEW c \in Nat \ {0}, NEW d \in Nat \ {0}, NEW x \in Nat, x < c * d
    PROVE  x \div c \in 0..(d - 1)
<1> DEFINE q == x \div c
<1>1. q \in Int /\ x % c \in 0..(c - 1) /\ x = c * q + (x % c)
  BY DivMod
<1> HIDE DEF q
<1>2. q >= 0
  <2>1. q <= -1 => c * q <= c * (-1)
    BY <1>1, Grows
  <2> QED BY <1>1, <2>1
<1>3. q <= d - 1
  <2>1. d <= q => c * d <= c * q
    BY <1>1, Grows
  <2>2. c * d \in Int /\ c * q \in Int
    BY <1>1
  <2> QED BY <1>1, <2>1, <2>2
<1> QED BY <1>1, <1>2, <1>3 DEF q

\* a number is less than its double and so on,
LEMMA ProductAbove == ASSUME NEW c \in Nat \ {0}, NEW d \in Nat PROVE d <= c * d
<1>1. c * d = d + (c - 1) * d /\ (c - 1) * d >= 0
  OBVIOUS
<1>2. c * d \in Int
  OBVIOUS
<1> QED BY <1>1, <1>2

\* the quotient by the only number it can be,
LEMMA Quotient ==
    ASSUME NEW b \in Nat \ {0}, NEW x \in Int, NEW q \in Int, b * q <= x, x < b * q + b
    PROVE  x \div b = q
<1> DEFINE r == x \div b
<1>0. r \in Int /\ x = b * r + (x % b) /\ x % b \in Int
  BY DivMod
<1>7. x % b = x - b * q
  BY Remainder
<1>1. r \in Int /\ x = b * r + (x % b) /\ x % b = x - b * q /\ x % b \in Int
  BY <1>0, <1>7
<1> HIDE DEF r
<1>2. b * r = b * q
  BY <1>1
<1>3. r < q => b * (r + 1) <= b * q
  BY <1>1, Grows
<1>4. q < r => b * (q + 1) <= b * r
  BY <1>1, Grows
<1>5. b * (r + 1) = b * r + b /\ b * (q + 1) = b * q + b /\ b * r \in Int
  BY <1>1
<1>6. r = q
  BY <1>1, <1>2, <1>3, <1>4, <1>5
<1> QED BY <1>6 DEF r

\* and the quotient of a quotient.
LEMMA DivDiv ==
    ASSUME NEW c \in Nat \ {0}, NEW d \in Nat \ {0}, NEW x \in Nat
    PROVE  (x \div c) \div d = x \div (c * d) /\ x \div c \in Nat /\ c * d \in Nat \ {0}
<1> DEFINE y == x \div c
           r == x % c
           z == y \div d
           t == y % d
<1>1. y \in Int /\ r \in 0..(c - 1) /\ x = c * y + r
  BY DivMod
<1>2. y \in Nat
  <2> HIDE DEF y
  <2>1. y <= -1 => c * y <= c * (-1)
    BY <1>1, Grows
  <2> QED BY <1>1, <2>1
<1>3. z \in Int /\ t \in 0..(d - 1) /\ y = d * z + t
  <2> HIDE DEF y
  <2> QED BY <1>2, DivMod
<1> HIDE DEF y, r, z, t
<1>4. x = (c * d) * z + (c * t + r)
  <2>1. c * y = c * (d * z) + c * t
    BY <1>3
  <2>2. c * (d * z) = (c * d) * z
    BY <1>3
  <2>3. c * (d * z) \in Int /\ c * t \in Int /\ c * y \in Int
    BY <1>2, <1>3
  <2> QED BY <1>1, <2>1, <2>2, <2>3
<1>5. c * t + r \in Nat /\ c * t + r < c * d
  <2>1. c * t \in Nat /\ c * (t + 1) <= c * d /\ c * (t + 1) = c * t + c
    BY <1>3, Grows
  <2>2. c * d \in Nat
    OBVIOUS
  <2> QED BY <1>1, <2>1, <2>2
<1>6. c * d \in Nat \ {0}
  OBVIOUS
<1>7. x \div (c * d) = z
  <2> DEFINE b == c * d
  <2>1. b \in Nat \ {0} /\ z \in Int /\ x = b * z + (c * t + r) /\ c * t + r < b
        /\ c * t + r \in Nat
    BY <1>3, <1>4, <1>5, <1>6
  <2> HIDE DEF b
  <2>2. b * z \in Int
    BY <2>1
  <2>3. x \div b = z
    BY <2>1, <2>2, Quotient
  <2> QED BY <2>3 DEF b
<1> QED BY <1>2, <1>6, <1>7 DEF y, z

\* The remainder by twice a number: that by the number, and one bit more.
LEMMA RemainderTwice ==
    ASSUME NEW b \in Nat \ {0}, NEW x \in Int
    PROVE  x % (b + b) = (x % b) + (IF (x \div b) % 2 = 1 THEN b ELSE 0)
<1> PICK c : c = b + b
  OBVIOUS
<1> PICK q, r : q = x \div c /\ r = x % c
  OBVIOUS
<1>0. c \in Nat \ {0}
  OBVIOUS
<1>1. q \in Int /\ r \in 0..(c - 1) /\ x = c * q + r
  BY <1>0, DivMod
<1> PICK a : a = b * q
  OBVIOUS
<1>2. a \in Int /\ x = a + a + r
  <2>1. ASSUME NEW p \in Int PROVE (b + b) * p = b * p + b * p /\ b * p \in Int
    BY ONLY b \in Nat \ {0}, p \in Int
  <2>2. q \in Int
    BY <1>1
  <2>3. (b + b) * q = b * q + b * q /\ b * q \in Int
    BY ONLY <2>1, <2>2
  <2> QED BY <1>1, <2>3
<1>3. CASE r < b
  <2>1. b * (2 * q) = a + a
    BY <1>1
  <2> PICK s : s = 2 * q
    OBVIOUS
  <2>2. s \in Int /\ b * s = a + a /\ b * s <= x /\ x < b * s + b
    BY <1>1, <1>2, <1>3, <2>1
  <2>3. x \div b = s /\ x % b = x - b * s
    BY <2>2, Quotient, Remainder
  <2>4. s % 2 = 0
    BY <1>1
  <2>5. x - b * s = r
    BY <1>1, <1>2, <2>2
  <2> QED BY <1>1, <2>3, <2>4, <2>5
<1>4. CASE r >= b
  <2>1. b * (2 * q + 1) = a + a + b
    BY <1>1
  <2> PICK s : s = 2 * q + 1
    OBVIOUS
  <2>2. s \in Int /\ b * s = a + a + b /\ b * s <= x /\ x < b * s + b
    BY <1>1, <1>2, <1>4, <2>1
  <2>3. x \div b = s /\ x % b = x - b * s
    BY <2>2, Quotient, Remainder
  <2>4. s % 2 = 1
    BY <1>1
  <2>5. x - b * s = r - b
    BY <1>1, <1>2, <2>2
  <2> QED BY <1>1, <2>3, <2>4, <2>5
<1> QED BY <1>1, <1>3, <1>4

\* A remainder is what is left of a multiple of the divisor.
LEMMA RemainderIs ==
    ASSUME NEW b \in Nat \ {0}, NEW s \in Int, NEW t \in 0..(b - 1), NEW w, w = b * s + t
    PROVE  w % b = t
<1> PICK a : a = b * s
  OBVIOUS
<1>1. a \in Int /\ w = a + t /\ w \in Int
  OBVIOUS
<1>2. b * s <= w /\ w < b * s + b
  BY <1>1
<1>3. w % b = w - b * s
  BY <1>1, <1>2, Remainder
<1> QED BY <1>1, <1>3

\* Adding the divisor changes no remainder, nor does taking one before a sum.
LEMMA RemainderShift ==
    ASSUME NEW b \in Nat \ {0}, NEW x \in Int
    PROVE  (x + b) % b = x % b
<1> PICK q, r, y : q = x \div b /\ r = x % b /\ y = x + b
  OBVIOUS
<1>1. q \in Int /\ r \in 0..(b - 1) /\ x = b * q + r
  BY DivMod
<1>2. b * (q + 1) = b * q + b /\ b * q \in Int
  BY <1>1
<1> PICK s : s = q + 1
  OBVIOUS
<1>3. y \in Int /\ s \in Int /\ b * s <= y /\ y < b * s + b /\ y - b * s = r
  BY <1>1, <1>2
<1>4. y % b = y - b * s
  BY <1>3, Remainder
<1> QED BY <1>3, <1>4

LEMMA RemainderSum ==
    ASSUME NEW b \in Nat \ {0}, NEW x \in Int, NEW y \in Int
    PROVE  (x + (y % b)) % b = (x + y) % b
<1> PICK q, r, z : q = y \div b /\ r = y % b /\ z = x + r
  OBVIOUS
<1>1. q \in Int /\ r \in 0..(b - 1) /\ y = b * q + r
  BY DivMod
<1> PICK p, t : p = z \div b /\ t = z % b
  OBVIOUS
<1>2. z \in Int
  BY <1>1
<1>3. p \in Int /\ t \in 0..(b - 1) /\ z = b * p + t
  BY <1>2, DivMod
<1>4. b * (p + q) = b * p + b * q /\ b * p \in Int /\ b * q \in Int
  <2>1. p \in Int /\ q \in Int
    BY <1>1, <1>3
  <2> QED BY ONLY <2>1, b \in Nat \ {0}
<1> PICK s, w : s = p + q /\ w = x + y
  OBVIOUS
<1>5. s \in Int /\ w \in Int /\ w = b * s + t /\ b * s \in Int
  BY <1>1, <1>2, <1>3, <1>4
<1>6. w % b = t
  BY ONLY <1>3, <1>5, b \in Nat \ {0}, RemainderIs
<1> QED BY <1>6

----------------------------------------------------------------------------
(* Induction, stated of a set of numbers.                                  *)

LEMMA SetInduction ==
    ASSUME NEW T, 0 \in T, \A k \in Nat : k \in T => k + 1 \in T
    PROVE  \A n \in Nat : n \in T
<1> SUFFICES ASSUME NEW n \in Nat PROVE n \in T
  OBVIOUS
<1> DEFINE D == {r \in 1..n : \A q \in 0..r : q \in T}
<1>1. PICK c \in 0..n : D = 1..c
  <2>1. D \in SUBSET (1..n)
    OBVIOUS
  <2>2. ASSUME NEW d \in D, NEW e \in 1..d PROVE e \in D
    OBVIOUS
  <2> HIDE DEF D
  <2> QED BY <2>1, <2>2, LowerPart
<1>2. \A q \in 0..c : q \in T
  <2>1. CASE c = 0
    BY <2>1
  <2>2. CASE c # 0
    <3>1. c \in 1..c
      BY <2>2
    <3>2. c \in D
      BY ONLY <1>1, <3>1
    <3> QED BY <3>2
  <2> QED BY <2>1, <2>2
<1>3. CASE c = n
  BY <1>2, <1>3
<1>4. CASE c # n
  <2>1. c + 1 \in T
    BY <1>2
  <2>2. \A q \in 0..(c + 1) : q \in 0..c \/ q = c + 1
    OBVIOUS
  <2>3. c + 1 \in 1..n /\ \A q \in 0..(c + 1) : q \in T
    BY <1>2, <1>4, <2>1, <2>2
  <2>4. c + 1 \in D
    BY <2>3
  <2> QED BY <1>1, <2>4
<1> QED BY <1>3, <1>4

\* A least and a greatest number of a set.
LEMMA LeastExists ==
    ASSUME NEW S \in SUBSET Nat, S # {}
    PROVE  \E k \in S : \A l \in S : k <= l
<1> DEFINE T == {k \in Nat : (\E l \in S : l <= k) => \E l \in S : \A j \in S : l <= j}
<1>1. 0 \in T
  OBVIOUS
<1>2. ASSUME NEW k \in Nat, k \in T PROVE k + 1 \in T
  <2>1. CASE \E l \in S : l <= k
    BY <1>2, <2>1
  <2>2. CASE ~\E l \in S : l <= k
    <3>1. \A j \in S : k + 1 <= j
      BY <2>2
    <3> QED BY <3>1
  <2> QED BY <2>1, <2>2
<1>3. \A k \in Nat : k \in T
  <2> HIDE DEF T
  <2> QED BY <1>1, <1>2, SetInduction
<1>4. PICK k \in S : TRUE
  OBVIOUS
<1>5. k \in T /\ k <= k
  BY <1>3
<1> QED BY <1>5

LEMMA GreatestExists ==
    ASSUME NEW n \in Nat, NEW S \in SUBSET (0..n), S # {}
    PROVE  \E k \in S : \A l \in S : k >= l
<1> DEFINE R == {n - k : k \in S}
<1>1. R \in SUBSET Nat /\ R # {}
  <2>1. \A k \in S : n - k \in Nat
    OBVIOUS
  <2>2. PICK k \in S : TRUE
    OBVIOUS
  <2>3. n - k \in R
    BY <2>2
  <2> QED BY <2>1, <2>3
<1>2. PICK r \in R : \A l \in R : r <= l
  <2> HIDE DEF R
  <2> QED BY <1>1, LeastExists
<1>3. PICK k \in S : r = n - k
  OBVIOUS
<1>4. \A l \in S : n - k <= n - l
  BY <1>2, <1>3
<1>5. \A l \in S : k >= l
  BY <1>4
<1> QED BY <1>5

----------------------------------------------------------------------------
(* Sums.  SumOf(f, S) is what MapThenSumSet of FiniteSetsExt makes of a set *)
(* S and an operator that agrees with f on it.                             *)

Chosen(s) == CHOOSE x \in s : TRUE

\* it gives the sum of f over each subset of S.
SumsUp(it, f, S) ==
    it = [s \in SUBSET S |-> IF s = {} THEN 0 ELSE f[Chosen(s)] + it[s \ {Chosen(s)}]]
SumOf(f, S) == (CHOOSE it : SumsUp(it, f, S))[S]

\* Such a function exists:
LEMMA SumExists ==
    ASSUME NEW S, IsFiniteSet(S), NEW f, \A x \in S : f[x] \in Int
    PROVE  \E it \in [SUBSET S -> Int] : SumsUp(it, f, S)
<1> DEFINE Rest(s) == s \ {Chosen(s)}
           Value(it, s) == IF s = {} THEN 0 ELSE f[Chosen(s)] + it[Rest(s)]
           Good(it, n) == \A s \in SUBSET S : Cardinality(s) <= n => it[s] = Value(it, s)
           T == {n \in Nat : \E it \in [SUBSET S -> Int] : Good(it, n)}
<1>1. ASSUME NEW s \in SUBSET S
      PROVE  /\ IsFiniteSet(s) /\ Cardinality(s) \in Nat
             /\ Cardinality(s) = 0 <=> s = {}
             /\ s # {} => /\ Chosen(s) \in s /\ f[Chosen(s)] \in Int
                          /\ Rest(s) \in SUBSET S
                          /\ Cardinality(Rest(s)) = Cardinality(s) - 1
  <2>1. IsFiniteSet(s)
    BY FS_Subset
  <2>2. s # {} => Chosen(s) \in s
    BY DEF Chosen
  <2>3. Cardinality(s) \in Nat /\ (Cardinality(s) = 0 <=> s = {})
    BY <2>1, FS_CardinalityType, FS_EmptySet
  <2>4. s # {} => Cardinality(Rest(s)) = Cardinality(s) - 1
    BY <2>1, <2>2, FS_RemoveElement
  <2> QED BY <2>1, <2>2, <2>3, <2>4
<1>2. 0 \in T
  <2> DEFINE zero == [s \in SUBSET S |-> 0]
  <2>1. zero \in [SUBSET S -> Int]
    OBVIOUS
  <2>2. ASSUME NEW s \in SUBSET S, Cardinality(s) <= 0 PROVE zero[s] = Value(zero, s)
    <3>1. Cardinality(s) \in Nat /\ (Cardinality(s) = 0 <=> s = {})
      BY <1>1
    <3>2. s = {}
      BY <2>2, <3>1
    <3> QED BY <3>2
  <2> QED BY <2>1, <2>2
<1>3. ASSUME NEW n \in Nat, n \in T PROVE n + 1 \in T
  <2>1. PICK it \in [SUBSET S -> Int] : Good(it, n)
    BY <1>3
  <2> DEFINE jt == [s \in SUBSET S |-> IF Cardinality(s) <= n THEN it[s] ELSE Value(it, s)]
  <2>2. \A s \in SUBSET S : Value(it, s) \in Int
    BY <1>1, SMTT(30)
  <2>3. jt \in [SUBSET S -> Int]
    BY <2>2
  <2>4. ASSUME NEW s \in SUBSET S, Cardinality(s) <= n + 1 PROVE jt[s] = Value(jt, s)
    <3>1. jt[s] = Value(it, s)
      BY <2>1
    <3>2. s # {} => jt[Rest(s)] = it[Rest(s)]
      <4>1. s # {} => Rest(s) \in SUBSET S /\ Cardinality(Rest(s)) <= n
        BY <1>1, <2>4
      <4> HIDE DEF Rest, Value
      <4> QED BY <4>1
    <3> HIDE DEF jt
    <3> QED BY <3>1, <3>2
  <2>5. Good(jt, n + 1)
    BY <2>4
  <2> HIDE DEF Good, jt
  <2> QED BY <2>3, <2>5
<1>4. Cardinality(S) \in T
  <2>1. Cardinality(S) \in Nat
    BY <1>1
  <2> HIDE DEF T
  <2> QED BY <1>2, <1>3, <2>1, SetInduction
<1>5. PICK it \in [SUBSET S -> Int] : Good(it, Cardinality(S))
  BY <1>4
<1>6. \A s \in SUBSET S : it[s] = Value(it, s)
  BY <1>5, FS_Subset
<1>7. SumsUp(it, f, S)
  BY <1>6 DEF SumsUp
<1> QED BY <1>7

\* The sum over s is that over the rest of s, and f[a].
SplitsOff(it, f, s, a) == it[s] = f[a] + it[s \ {a}]

\* which element is taken first does not matter,
LEMMA SumAny ==
    ASSUME NEW S, IsFiniteSet(S), NEW f, \A x \in S : f[x] \in Int,
           NEW it \in [SUBSET S -> Int], SumsUp(it, f, S),
           NEW s, s \subseteq S, NEW a, a \in s
    PROVE  SplitsOff(it, f, s, a)
<1> DEFINE T == {n \in Nat : \A r \in SUBSET S : Cardinality(r) = n =>
                                \A b \in r : it[r] = f[b] + it[r \ {b}]}
<1>1. ASSUME NEW r \in SUBSET S, r # {}
      PROVE  Chosen(r) \in r /\ it[r] = f[Chosen(r)] + it[r \ {Chosen(r)}]
  <2>1. Chosen(r) \in r
    BY <1>1 DEF Chosen
  <2>2. it[r] = f[Chosen(r)] + it[r \ {Chosen(r)}]
    BY <1>1 DEF SumsUp
  <2> QED BY <2>1, <2>2
<1>2. ASSUME NEW r \in SUBSET S
      PROVE  IsFiniteSet(r) /\ Cardinality(r) \in Nat /\ (Cardinality(r) = 0 <=> r = {})
  BY FS_Subset, FS_CardinalityType, FS_EmptySet
<1>3. 0 \in T
  BY <1>2
<1>4. ASSUME NEW n \in Nat, n \in T PROVE n + 1 \in T
  <2> SUFFICES ASSUME NEW r \in SUBSET S, Cardinality(r) = n + 1, NEW b \in r
               PROVE  it[r] = f[b] + it[r \ {b}]
    OBVIOUS
  <2> DEFINE x == Chosen(r)
  <2>1. x \in r /\ it[r] = f[x] + it[r \ {x}]
    BY <1>1
  <2>2. ASSUME NEW c \in r, NEW d \in r, c # d
        PROVE  it[r \ {c}] = f[d] + it[(r \ {c}) \ {d}]
    <3>1. Cardinality(r \ {c}) = n
      <4>1. Cardinality(r \ {c}) = Cardinality(r) - 1
        BY <1>2, FS_RemoveElement
      <4> QED BY <4>1
    <3>2. r \ {c} \in SUBSET S /\ d \in r \ {c}
      BY <2>2
    <3> QED BY <1>4, <3>1, <3>2
  <2>3. (r \ {x}) \ {b} = (r \ {b}) \ {x}
    OBVIOUS
  <2> HIDE DEF x
  <2>4. CASE b # x
    <3>1. /\ it[r \ {x}] = f[b] + it[(r \ {b}) \ {x}]
          /\ it[r \ {b}] = f[x] + it[(r \ {b}) \ {x}]
      BY <2>1, <2>2, <2>3, <2>4
    <3>2. f[b] \in Int /\ f[x] \in Int /\ it[(r \ {b}) \ {x}] \in Int
      BY <2>1
    <3> QED BY <2>1, <3>1, <3>2
  <2>5. CASE b = x
    BY <2>1, <2>5
  <2> QED BY <2>4, <2>5
<1>5. Cardinality(s) \in T
  <2> HIDE DEF T
  <2> QED BY <1>2, <1>3, <1>4, SetInduction
<1> QED BY <1>5 DEF SplitsOff

\* nor do elements outside a subset.
LEMMA SumAgrees ==
    ASSUME NEW S, IsFiniteSet(S), NEW f, NEW R, NEW g,
           NEW it \in [SUBSET S -> Int], SumsUp(it, f, S), NEW jt, SumsUp(jt, g, R),
           NEW s \in SUBSET (S \cap R), \A x \in s : f[x] = g[x]
    PROVE  it[s] = jt[s]
<1> DEFINE T == {n \in Nat : \A r \in SUBSET s : Cardinality(r) = n => it[r] = jt[r]}
<1>1. ASSUME NEW r \in SUBSET s
      PROVE  IsFiniteSet(r) /\ Cardinality(r) \in Nat /\ (Cardinality(r) = 0 <=> r = {})
  BY FS_Subset, FS_CardinalityType, FS_EmptySet
<1>2. 0 \in T
  BY <1>1 DEF SumsUp
<1>3. ASSUME NEW n \in Nat, n \in T PROVE n + 1 \in T
  <2> SUFFICES ASSUME NEW r \in SUBSET s, Cardinality(r) = n + 1 PROVE it[r] = jt[r]
    OBVIOUS
  <2> DEFINE x == Chosen(r)
  <2>1. r # {}
    BY <1>1
  <2>2. x \in r
    BY <2>1 DEF Chosen
  <2>3. Cardinality(r \ {x}) = n
    <3>1. Cardinality(r \ {x}) = Cardinality(r) - 1
      BY <1>1, <2>2, FS_RemoveElement
    <3> QED BY <3>1
  <2>4. it[r \ {x}] = jt[r \ {x}]
    <3> HIDE DEF x
    <3>1. r \ {x} \in SUBSET s
      OBVIOUS
    <3> QED BY <1>3, <2>3, <3>1
  <2>5. it[r] = f[x] + it[r \ {x}]
    BY <2>1 DEF SumsUp
  <2>6. jt[r] = g[x] + jt[r \ {x}]
    BY <2>1 DEF SumsUp
  <2>7. f[x] = g[x]
    BY <2>2
  <2> QED BY <2>4, <2>5, <2>6, <2>7
<1>4. Cardinality(s) \in T
  <2> HIDE DEF T
  <2> QED BY <1>1, <1>2, <1>3, SetInduction
<1> QED BY <1>4

\* So a sum is what it should be.
LEMMA SumIs ==
    ASSUME NEW S, IsFiniteSet(S), NEW f, \A x \in S : f[x] \in Int
    PROVE  SumOf(f, S) \in Int /\ \E it \in [SUBSET S -> Int] : SumsUp(it, f, S) /\ SumOf(f, S) = it[S]
<1> DEFINE jt == CHOOSE it : SumsUp(it, f, S)
<1>1. PICK it \in [SUBSET S -> Int] : SumsUp(it, f, S)
  BY SumExists
<1>2. SumsUp(jt, f, S)
  BY <1>1
<1>3. SumOf(f, S) = jt[S]
  BY DEF SumOf
<1> HIDE DEF jt
<1>4. it[S] = jt[S]
  <2>1. S \in SUBSET (S \cap S)
    OBVIOUS
  <2> QED BY <1>1, <1>2, <2>1, SumAgrees
<1> QED BY <1>1, <1>3, <1>4

LEMMA SumEmpty == ASSUME NEW f PROVE SumOf(f, {}) = 0
<1>1. PICK it \in [SUBSET {} -> Int] : SumsUp(it, f, {}) /\ SumOf(f, {}) = it[{}]
  BY SumIs, FS_EmptySet
<1> QED BY <1>1 DEF SumsUp

LEMMA SumAdd ==
    ASSUME NEW S, IsFiniteSet(S), NEW f, \A x \in S : f[x] \in Int, NEW a, a \notin S, f[a] \in Int
    PROVE  SumOf(f, S \cup {a}) = f[a] + SumOf(f, S)
<1> DEFINE R == S \cup {a}
<1>1. IsFiniteSet(R) /\ \A x \in R : f[x] \in Int
  BY FS_AddElement
<1>2. a \in R /\ R \ {a} = S /\ S \in SUBSET (S \cap R) /\ R \in SUBSET R
  OBVIOUS
<1> HIDE DEF R
<1>3. PICK it \in [SUBSET S -> Int] : SumsUp(it, f, S) /\ SumOf(f, S) = it[S]
  BY SumIs
<1>4. PICK jt \in [SUBSET R -> Int] : SumsUp(jt, f, R) /\ SumOf(f, R) = jt[R]
  BY <1>1, SumIs
<1>5. jt[R] = f[a] + jt[R \ {a}]
  <2>1. SumsUp(jt, f, R) /\ R \subseteq R /\ a \in R
    BY <1>2, <1>4
  <2>2. SplitsOff(jt, f, R, a)
    BY <1>1, <2>1, SumAny
  <2> QED BY <2>2 DEF SplitsOff
<1>6. it[S] = jt[S]
  <2>1. SumsUp(jt, f, R) /\ SumsUp(it, f, S) /\ S \in SUBSET (S \cap R)
    BY <1>2, <1>3, <1>4
  <2> QED BY <2>1, SumAgrees
<1> QED BY <1>2, <1>3, <1>4, <1>5, <1>6 DEF R

LEMMA SumSame ==
    ASSUME NEW S, IsFiniteSet(S), NEW f, NEW g, \A x \in S : f[x] \in Int /\ f[x] = g[x]
    PROVE  SumOf(f, S) = SumOf(g, S)
<1>1. PICK it \in [SUBSET S -> Int] : SumsUp(it, f, S) /\ SumOf(f, S) = it[S]
  BY SumIs
<1>2. PICK jt \in [SUBSET S -> Int] : SumsUp(jt, g, S) /\ SumOf(g, S) = jt[S]
  BY SumIs
<1>3. it[S] = jt[S]
  <2>1. S \in SUBSET (S \cap S)
    OBVIOUS
  <2> QED BY <1>1, <1>2, <2>1, SumAgrees
<1> QED BY <1>1, <1>2, <1>3
=============================================================================
