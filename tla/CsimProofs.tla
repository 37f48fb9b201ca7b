----------------------------- MODULE CsimProofs -----------------------------
(***************************************************************************)
(* Proofs about the cache simulator, for every -s, -E and -b it is meant   *)
(* for, every trace, and words of every size: the lists stay lists under   *)
(* the surgery on their pointers, and they are an LRU cache of blocks.     *)
(***************************************************************************)
EXTENDS Csim, NumberLemmas

----------------------------------------------------------------------------
(* Parts of an address.                                                    *)

\* The powers the masks are made of.
LEMMA Powers ==
    /\ W \in Nat \ {0} /\ b \in Nat /\ s \in Nat /\ b + s \in 1..W /\ s <= W - 2
    /\ E \in Nat \ {0}
    /\ 2^b \in Nat \ {0} /\ 2^s \in Nat \ {0} /\ 2^(b + s) \in Nat \ {0}
    /\ 2^(W - b - s) \in Nat \ {0} /\ 2^W \in Nat \ {0}
    /\ 2^(b + s) = 2^b * 2^s /\ 2^W = 2^(b + s) * 2^(W - b - s)
<1>1. /\ W \in Nat \ {0} /\ b \in Nat /\ s \in Nat /\ b + s \in 1..W /\ s <= W - 2
      /\ E \in Nat \ {0}
  BY WidthAssumption, OptionsAssumption
<1>2. b + s \in Nat /\ W - b - s \in Nat /\ (b + s) + (W - b - s) = W
  BY <1>1
<1>3. 2^W = 2^(b + s) * 2^(W - b - s)
  <2>1. 2^((b + s) + (W - b - s)) = 2^(b + s) * 2^(W - b - s)
    BY <1>2, PowerSum
  <2> QED BY <1>2, <2>1
<1> QED BY <1>1, <1>2, <1>3, PowerType, PowerSum

Words == 0..(2^W - 1)

LEMMA AddrsAreWords == Addrs \subseteq Words
BY WidthAssumption DEF Words

\* A number modulo one more than any it can be.
LEMMA Small == ASSUME NEW n \in Nat, NEW m \in Nat \ {0}, n < m PROVE n % m = n
<1>1. n \in Int /\ -m <= n
  OBVIOUS
<1> QED BY <1>1, Wrapped

LEMMA Shifts ==
    /\ \A n \in 0..(W - 1) : shl1(n) = 2^n /\ \A a \in Words : shr(a, n) = a \div 2^n
    /\ shl1(0) = 1 /\ 2^0 = 1
<1>1. \A n \in 0..(W - 1) : n % W = n
  BY Powers, Small
<1>2. 2^0 = 1
  OBVIOUS
<1>3. 0 \in 0..(W - 1)
  BY Powers
<1> QED BY <1>1, <1>2, <1>3 DEF shl1, shr

\* Set index and tag are those of the block.  The shift counts are below W,
\* or what the mask is of is empty.
LEMMA Parts ==
    ASSUME NEW a \in Words
    PROVE  /\ BlockOf(a) \in Words
           /\ get_set_index(a) = BlockOf(a) % 2^s
           /\ get_line_tag(a) = BlockOf(a) \div 2^s
           /\ get_set_index(a) \in Sets /\ get_line_tag(a) \in 0..(2^(W - b - s) - 1)
<1> DEFINE x == BlockOf(a)
<1>1. a \in Nat /\ a < (2^b * 2^s) * 2^(W - b - s) /\ a < 2^W /\ 2^W \in Nat
  BY Powers DEF Words
<1>2. /\ x \in Nat /\ x <= a /\ x = a \div 2^b
      /\ x % 2^s \in 0..(2^s - 1)
      /\ x \div 2^s = a \div 2^(b + s) /\ x \div 2^s \in 0..(2^(W - b - s) - 1)
  <2> DEFINE B == 2^b
             S == 2^s
             T == 2^(W - b - s)
  <2>1. x = a \div B
    BY DEF BlockOf
  <2>2. B \in Nat \ {0} /\ S \in Nat \ {0} /\ T \in Nat \ {0} /\ 2^(b + s) = B * S
        /\ a < (B * S) * T
    BY <1>1, Powers
  <2> HIDE DEF x, B, S, T
  <2>3. x \in Nat /\ x \div S = a \div (B * S) /\ B * S \in Nat \ {0}
    BY <1>1, <2>1, <2>2, DivDiv
  <2>4. a \div (B * S) \in 0..(T - 1)
    <3> DEFINE BS == B * S
    <3>1. BS \in Nat \ {0} /\ a < BS * T
      BY <2>2, <2>3
    <3> HIDE DEF BS
    <3>2. a \div BS \in 0..(T - 1)
      BY <1>1, <2>2, <3>1, DivBound
    <3> QED BY <3>2 DEF BS
  <2>5. x % S \in 0..(S - 1)
    <3>1. x \in Int
      BY <2>3
    <3> QED BY <2>2, <3>1, DivMod
  <2>6. x <= a
    <3>1. a \in Int
      BY <1>1
    <3>2. a = B * x + (a % B) /\ a % B \in 0..(B - 1)
      BY <2>1, <2>2, <3>1, DivMod
    <3>3. x <= B * x /\ B * x \in Int
      BY <2>2, <2>3, ProductAbove
    <3> QED BY <1>1, <2>2, <2>3, <3>2, <3>3
  <2> QED BY <2>1, <2>2, <2>3, <2>4, <2>5, <2>6 DEF B, S, T
<1>3. x \in Words
  BY <1>1, <1>2 DEF Words
<1>4. get_set_index(a) = x % 2^s
  <2>1. s \in 0..(W - 1) /\ shl1(s) = 2^s
    BY Powers, Shifts
  <2>2. CASE b < W
    <3>1. b \in 0..(W - 1)
      BY <2>2, Powers
    <3>2. shr(a, b) = x
      BY <1>2, <3>1, Shifts
    <3> QED BY <2>1, <3>2 DEF get_set_index
  <2>3. CASE b = W
    <3>1. s = 0
      BY <2>3, Powers
    <3>2. shr(a, b) \in Int
      <4>1. W % W = 0
        BY Powers
      <4>2. shr(a, b) = a \div 1
        BY <2>3, <4>1, Shifts DEF shr
      <4> QED BY <1>1, <4>2
    <3>3. shr(a, b) % 1 = 0 /\ x % 1 = 0
      BY <1>2, <3>2
    <3> QED BY <2>1, <3>1, <3>3, Shifts DEF get_set_index
  <2> QED BY <2>2, <2>3, Powers
<1>5. get_line_tag(a) = x \div 2^s
  <2>1. CASE b + s < W
    <3>1. b + s \in 0..(W - 1) /\ W - b - s \in 0..(W - 1)
      BY <2>1, Powers
    <3>2. shr(a, b + s) = x \div 2^s /\ shl1(W - b - s) = 2^(W - b - s)
      BY <1>2, <3>1, Shifts
    <3>3. x \div 2^s \in Nat /\ x \div 2^s < 2^(W - b - s)
      BY <1>2, Powers
    <3> QED BY <3>2, <3>3, Powers, Small DEF get_line_tag
  <2>2. CASE b + s = W
    <3>1. W - b - s = 0
      BY <2>2, Powers
    <3>2. x \div 2^s = 0
      <4>1. 2^(W - b - s) = 1
        BY <3>1, Shifts
      <4> QED BY <1>2, <4>1
    <3>3. shr(a, b + s) \in Int
      <4>1. W % W = 0
        BY Powers
      <4>2. shr(a, b + s) = a \div 1
        BY <2>2, <4>1, Shifts DEF shr
      <4> QED BY <1>1, <4>2
    <3>4. shr(a, b + s) % 1 = 0
      BY <3>3
    <3> QED BY <3>1, <3>2, <3>4, Shifts DEF get_line_tag
  <2> QED BY <2>1, <2>2, Powers
<1> QED BY <1>2, <1>3, <1>4, <1>5 DEF Sets

\* Set and tag make up the block.
LEMMA SetAndTag ==
    ASSUME NEW x \in Nat, NEW y \in Nat, x % 2^s = y % 2^s, x \div 2^s = y \div 2^s PROVE x = y
<1> DEFINE S == 2^s
<1>1. S \in Nat \ {0} /\ x % S = y % S /\ x \div S = y \div S
  BY Powers
<1> HIDE DEF S
<1>2. x = S * (x \div S) + (x % S) /\ y = S * (y \div S) + (y % S)
  BY <1>1, DivMod
<1> QED BY <1>1, <1>2

----------------------------------------------------------------------------
(* Lists of lines.                                                         *)

LEMMA NoLine == NULL \notin Lines /\ Lines \subseteq Nat /\ NULL = 0
<1>1. E * 2^s \in Int
  <2> DEFINE S == 2^s
  <2>1. S \in Nat /\ E \in Nat
    BY Powers
  <2> HIDE DEF S
  <2>2. E * S \in Int
    BY <2>1
  <2> QED BY <2>2 DEF S
<1> QED BY <1>1 DEF NULL, Lines

LEMMA ListsAre == \A q : q \in AllLists <=> q \in Seq(Lines) /\ Len(q) <= E
<1>1. E \in Nat
  BY Powers
<1>2. ASSUME NEW q \in AllLists PROVE q \in Seq(Lines) /\ Len(q) <= E
  <2>1. PICK n \in 0..E : q \in [1..n -> Lines]
    BY DEF AllLists
  <2> QED BY <1>1, <2>1
<1>3. ASSUME NEW q \in Seq(Lines), Len(q) <= E PROVE q \in AllLists
  <2>1. Len(q) \in 0..E /\ q \in [1..Len(q) -> Lines]
    BY <1>1, <1>3
  <2> QED BY <2>1 DEF AllLists
<1> QED BY <1>2, <1>3

\* A walk from the line h along the pointers nx meets q.
Walk(q, h, nx) ==
    /\ h = IF q = <<>> THEN NULL ELSE q[1]
    /\ \A k \in 1..Len(q) : nx[q[k]] = IF k = Len(q) THEN NULL ELSE q[k + 1]

\* It meets nothing else.
LEMMA OneWalk ==
    ASSUME NEW h, NEW nx, NEW p \in Seq(Lines), NEW q \in Seq(Lines),
           Walk(p, h, nx), Walk(q, h, nx)
    PROVE  p = q
<1> DEFINE n == Len(p)
           m == Len(q)
           Same(k) == \A j \in 1..k : j <= m /\ p[j] = q[j]
           T == {k \in 1..n : Same(k)}
<1>1. /\ n \in Nat /\ m \in Nat
      /\ \A k \in 1..n : p[k] \in Lines /\ p[k] # NULL
      /\ \A k \in 1..m : q[k] \in Lines /\ q[k] # NULL
      /\ (p = <<>> <=> n = 0) /\ (q = <<>> <=> m = 0)
  BY NoLine
<1>2. PICK c \in 0..n : T = 1..c
  <2>1. T \in SUBSET (1..n) /\ \A t \in T : \A r \in 1..t : r \in T
    BY <1>1
  <2> HIDE DEF T
  <2> QED BY <1>1, <2>1, LowerPart
<1>3. c # 0 => Same(c)
  <2>1. c # 0 => c \in 1..c
    BY <1>1
  <2> QED BY <1>2, <2>1
<1>4. ASSUME c < n PROVE FALSE
  <2>1. c + 1 \in 1..n /\ c + 1 \notin 1..c /\ \A j \in 1..(c + 1) : j \in 1..c \/ j = c + 1
    BY <1>1, <1>4
  <2>2. c + 1 <= m /\ p[c + 1] = q[c + 1]
    <3>1. CASE c = 0
      BY <1>1, <1>4, <3>1 DEF Walk
    <3>2. CASE c # 0
      <4>1. c \in 1..n /\ c # n /\ c \in 1..m /\ p[c] = q[c]
        BY <1>1, <1>3, <1>4, <3>2
      <4>2. nx[p[c]] = p[c + 1] /\ p[c + 1] # NULL
        BY <1>1, <2>1, <4>1 DEF Walk
      <4>3. c # m /\ nx[q[c]] = q[c + 1]
        BY <4>1, <4>2 DEF Walk
      <4> QED BY <1>1, <4>1, <4>2, <4>3
    <3> QED BY <3>1, <3>2
  <2>3. Same(c + 1)
    <3>1. \A j \in 1..c : j <= m /\ p[j] = q[j]
      BY <1>1, <1>3
    <3> QED BY <2>1, <2>2, <3>1
  <2>4. c + 1 \in T
    BY <2>1, <2>3
  <2> HIDE DEF T
  <2> QED BY <1>2, <2>1, <2>4
<1>5. c = n
  BY <1>1, <1>4
<1>6. m = n
  <2>1. CASE n = 0
    BY <1>1, <2>1 DEF Walk
  <2>2. CASE n # 0
    <3>1. n \in 1..n /\ n \in 1..m /\ p[n] = q[n]
      BY <1>1, <1>3, <1>5, <2>2
    <3>2. nx[p[n]] = NULL
      BY <3>1 DEF Walk
    <3>3. n # m => nx[q[n]] = q[n + 1] /\ n + 1 \in 1..m
      BY <1>1, <3>1 DEF Walk
    <3> QED BY <1>1, <3>1, <3>2, <3>3
  <2> QED BY <2>1, <2>2
<1>7. \A j \in 1..n : p[j] = q[j]
  BY <1>1, <1>3, <1>5
<1> QED BY <1>1, <1>6, <1>7

\* The list of set i is q: the tail is its last line, no two of its lines
\* have the same tag, and they were filled with blocks of this set.
Sound(q, i) ==
    /\ q \in Seq(Lines) /\ Len(q) <= E
    /\ Walk(q, head_line[i], next)
    /\ q # <<>> => tail_line[i] = q[Len(q)]
    /\ \A k, m \in 1..Len(q) : tag[q[k]] = tag[q[m]] => k = m
    /\ \A k \in 1..Len(q) :
           q[k] <= used /\ holds[q[k]] % 2^s = i /\ tag[q[k]] = holds[q[k]] \div 2^s

\* The lines as a heap: every line malloc has given is on a list.
Arrays ==
    /\ head_line \in [Sets -> Lines \cup {NULL}]
    /\ tail_line \in [Sets -> Lines \cup {NULL}]
    /\ next \in [Lines -> Lines \cup {NULL}]
    /\ tag \in [Lines -> 0..(2^(W - b - s) - 1)]
    /\ holds \in [Lines -> Words]
    /\ used \in 0..(E * 2^s)
Lists(L) ==
    /\ \A i \in Sets : Sound(L[i], i)
    /\ \A n \in 1..used : \E i \in Sets : \E k \in 1..Len(L[i]) : L[i][k] = n

\* A list with its k-th line moved to the end.
Moved(q, k) ==
    [j \in 1..Len(q) |-> IF j < k THEN q[j] ELSE IF j < Len(q) THEN q[j + 1] ELSE q[k]]

LEMMA MovedIs ==
    ASSUME NEW q \in Seq(Lines), NEW k \in 1..Len(q)
    PROVE  /\ Moved(q, k) \in Seq(Lines) /\ Len(Moved(q, k)) = Len(q)
           /\ \A j \in 1..Len(q) : \E m \in 1..Len(q) : Moved(q, k)[j] = q[m]
           /\ \A m \in 1..Len(q) : \E j \in 1..Len(q) : Moved(q, k)[j] = q[m]
           /\ Moved(q, k)[Len(q)] = q[k]
<1> DEFINE n == Len(q)
           r == Moved(q, k)
<1>1. n \in Nat \ {0}
  OBVIOUS
<1>2. \A j \in 1..n : r[j] = IF j < k THEN q[j] ELSE IF j < n THEN q[j + 1] ELSE q[k]
  BY DEF Moved
<1>3. \A j \in 1..n : j < n => j + 1 \in 1..n
  BY <1>1
<1>4. r \in Seq(Lines) /\ Len(r) = n
  <2>1. r \in [1..n -> Lines]
    BY <1>1, <1>3 DEF Moved
  <2> QED BY <1>1, <2>1
<1> HIDE DEF r
<1>5. \A j \in 1..n : \E m \in 1..n : r[j] = q[m]
  BY <1>1, <1>2, <1>3
<1>6. ASSUME NEW m \in 1..n PROVE \E j \in 1..n : r[j] = q[m]
  <2>1. CASE m < k
    BY <1>2, <2>1
  <2>2. CASE m = k
    <3>1. n \in 1..n /\ ~(n < k) /\ ~(n < n)
      BY <1>1
    <3> QED BY <1>2, <2>2, <3>1
  <2>3. CASE m > k
    <3>1. m - 1 \in 1..n /\ ~(m - 1 < k) /\ m - 1 < n /\ (m - 1) + 1 = m
      BY <1>1, <2>3
    <3>2. r[m - 1] = q[m]
      BY <1>2, <3>1
    <3> QED BY <3>1, <3>2
  <2> QED BY <2>1, <2>2, <2>3
<1>7. r[n] = q[k]
  BY <1>1, <1>2
<1> QED BY <1>4, <1>5, <1>6, <1>7 DEF r

\* The surgery of move_line_to_tail: the walk from the head meets the line
\* last, and all else as before.  No other list is touched.
LEMMA MoveWalk ==
    ASSUME Arrays, NEW i \in Sets, NEW q \in Seq(Lines), Walk(q, head_line[i], next),
           q # <<>> => tail_line[i] = q[Len(q)],
           \A m, j \in 1..Len(q) : q[m] = q[j] => m = j,
           NEW k \in 1..Len(q), move_line_to_tail(i, q, k)
    PROVE  /\ Walk(Moved(q, k), head_line'[i], next') /\ tail_line'[i] = q[k]
           /\ head_line' \in [Sets -> Lines \cup {NULL}]
           /\ tail_line' \in [Sets -> Lines \cup {NULL}]
           /\ next' \in [Lines -> Lines \cup {NULL}]
           /\ \A j \in Sets \ {i} : head_line'[j] = head_line[j] /\ tail_line'[j] = tail_line[j]
           /\ \A l \in Lines : (\A j \in 1..Len(q) : q[j] # l) => next'[l] = next[l]
<1> DEFINE n == Len(q)
           r == Moved(q, k)
<1>0. /\ head_line \in [Sets -> Lines \cup {NULL}] /\ tail_line \in [Sets -> Lines \cup {NULL}]
      /\ next \in [Lines -> Lines \cup {NULL}]
  BY DEF Arrays
<1>1. /\ n \in Nat \ {0} /\ q # <<>> /\ \A j \in 1..n : q[j] \in Lines
      /\ head_line[i] = q[1] /\ tail_line[i] = q[n]
      /\ \A j \in 1..n : next[q[j]] = IF j = n THEN NULL ELSE q[j + 1]
  BY DEF Walk
<1>2. /\ Len(r) = n /\ r # <<>>
      /\ \A j \in 1..n : r[j] = IF j < k THEN q[j] ELSE IF j < n THEN q[j + 1] ELSE q[k]
  <2>1. r \in Seq(Lines) /\ Len(r) = n
    BY MovedIs
  <2> QED BY <1>1, <2>1 DEF Moved
<1> HIDE DEF r, n
<1>3. CASE k = n
  <2>1. UNCHANGED <<head_line, tail_line, next>>
    BY <1>1, <1>3 DEF move_line_to_tail, n
  <2>2. \A j \in 1..n : r[j] = q[j]
    BY <1>1, <1>2, <1>3
  <2>3. Walk(r, head_line[i], next)
    <3>1. q = [j \in 1..n |-> q[j]]
      BY DEF n
    <3>2. r = [j \in 1..n |-> r[j]]
      BY DEF r, n, Moved
    <3>3. r = q
      BY <2>2, <3>1, <3>2
    <3> QED BY <3>3
  <2> QED BY <1>0, <1>1, <1>3, <2>1, <2>3 DEF r, n
<1>4. ASSUME k < n,
             next' \in [Lines -> Lines \cup {NULL}],
             next'[q[k]] = NULL, next'[q[n]] = q[k],
             k > 1 => next'[q[k - 1]] = q[k + 1],
             \A l \in Lines : l # q[k] /\ l # q[n] /\ (k > 1 => l # q[k - 1]) => next'[l] = next[l],
             head_line'[i] = IF k = 1 THEN q[2] ELSE q[1]
      PROVE  Walk(r, head_line'[i], next')
  <2>1. head_line'[i] = r[1]
    BY <1>1, <1>2, <1>4
  <2>2. ASSUME NEW j \in 1..n PROVE next'[r[j]] = IF j = n THEN NULL ELSE r[j + 1]
    <3>0. k \in 1..n /\ j \in 1..n /\ k < n /\ n \in Nat
      BY <1>1, <1>4 DEF n
    <3>7. \A m, l \in 1..n : q[m] = q[l] => m = l
      BY DEF n
    <3>1. CASE j < k - 1
      <4>1. r[j] = q[j] /\ r[j + 1] = q[j + 1] /\ j # n /\ k - 1 \in 1..n /\ n \in 1..n
            /\ j # k /\ j # k - 1
        BY <1>2, <3>0, <3>1
      <4>2. q[j] # q[k] /\ q[j] # q[n] /\ q[j] # q[k - 1]
        BY <3>0, <3>7, <4>1
      <4>3. next[q[j]] = q[j + 1] /\ q[j] \in Lines
        BY <1>1, <3>0, <4>1
      <4>4. next'[q[j]] = next[q[j]]
        BY <1>4, <4>2, <4>3
      <4> QED BY <4>1, <4>3, <4>4
    <3>2. CASE j = k - 1
      <4>1. r[j] = q[k - 1] /\ r[j + 1] = q[k + 1] /\ j # n /\ k > 1
        BY <1>2, <3>0, <3>2
      <4> QED BY <1>4, <4>1
    <3>3. CASE k <= j /\ j < n - 1
      <4>1. r[j] = q[j + 1] /\ r[j + 1] = q[j + 2] /\ j # n /\ n \in 1..n /\ j + 1 \in 1..n
            /\ j + 1 # k /\ j + 1 # n /\ (k > 1 => k - 1 \in 1..n /\ j + 1 # k - 1)
            /\ (j + 1) + 1 = j + 2
        BY <1>2, <3>0, <3>3
      <4>2. q[j + 1] # q[k] /\ q[j + 1] # q[n] /\ (k > 1 => q[j + 1] # q[k - 1])
        BY <3>0, <3>7, <4>1
      <4>3. next[q[j + 1]] = q[j + 2]
        BY <1>1, <4>1
      <4> QED BY <1>1, <1>4, <4>1, <4>2, <4>3, SMTT(30)
    <3>4. CASE j = n - 1 /\ k <= j
      <4>1. r[j] = q[n] /\ r[j + 1] = q[k] /\ j # n
        BY <1>2, <3>0, <3>4
      <4> QED BY <1>4, <4>1
    <3>5. CASE j = n
      <4>1. r[j] = q[k]
        BY <1>2, <3>0, <3>5
      <4> QED BY <1>4, <3>5, <4>1
    <3>6. j < k - 1 \/ j = k - 1 \/ (k <= j /\ j < n - 1) \/ (j = n - 1 /\ k <= j) \/ j = n
      BY <3>0
    <3> QED BY <3>1, <3>2, <3>3, <3>4, <3>5, <3>6
  <2> QED BY <1>2, <2>1, <2>2 DEF Walk
<1>5. CASE k < n
  <2>1. /\ k \in 1..n /\ n \in 1..n /\ q[k] # q[n] /\ (k = 1 <=> q[k] = q[1])
        /\ (k > 1 => k - 1 \in 1..n /\ q[k - 1] # q[k] /\ q[k - 1] # q[n])
    BY <1>1, <1>5 DEF n
  <2>2. tail_line' = [tail_line EXCEPT ![i] = q[k]]
    BY <1>1, <2>1 DEF move_line_to_tail
  <2>3. /\ head_line' = IF k = 1 THEN [head_line EXCEPT ![i] = q[2]] ELSE head_line
        /\ next' = IF k = 1 THEN [next EXCEPT ![q[k]] = NULL, ![q[n]] = q[k]]
                   ELSE [next EXCEPT ![q[k - 1]] = q[k + 1], ![q[k]] = NULL, ![q[n]] = q[k]]
    BY <1>1, <1>5, <2>1 DEF move_line_to_tail
  <2>4. q[k] \in Lines /\ q[n] \in Lines /\ q[k + 1] \in Lines /\ q[2] \in Lines
        /\ (k > 1 => q[k - 1] \in Lines)
    BY <1>1, <1>5, <2>1
  <2>5. /\ next' \in [Lines -> Lines \cup {NULL}]
        /\ next'[q[k]] = NULL /\ next'[q[n]] = q[k]
        /\ k > 1 => next'[q[k - 1]] = q[k + 1]
        /\ \A l \in Lines : l # q[k] /\ l # q[n] /\ (k > 1 => l # q[k - 1]) => next'[l] = next[l]
    <3>1. CASE k = 1
      BY <1>0, <2>1, <2>3, <2>4, <3>1
    <3>2. CASE k > 1
      BY <1>0, <2>1, <2>3, <2>4, <3>2, SMTT(40)
    <3> QED BY <2>1, <3>1, <3>2
  <2>6. /\ head_line' \in [Sets -> Lines \cup {NULL}] /\ tail_line' \in [Sets -> Lines \cup {NULL}]
        /\ head_line'[i] = IF k = 1 THEN q[2] ELSE q[1]
        /\ tail_line'[i] = q[k]
        /\ \A j \in Sets \ {i} : head_line'[j] = head_line[j] /\ tail_line'[j] = tail_line[j]
    BY <1>0, <1>1, <2>2, <2>3, <2>4
  <2>7. Walk(r, head_line'[i], next')
    BY <1>4, <1>5, <2>5, <2>6
  <2>8. \A l \in Lines : (\A j \in 1..n : q[j] # l) => next'[l] = next[l]
    BY <2>1, <2>5
  <2> QED BY <2>5, <2>6, <2>7, <2>8 DEF r, n
<1> QED BY <1>1, <1>3, <1>5 DEF n

\* The surgery of init_line: the walk meets the new line last.
LEMMA NewWalk ==
    ASSUME Arrays, NEW i \in Sets, NEW q \in Seq(Lines), Walk(q, head_line[i], next),
           q # <<>> => tail_line[i] = q[Len(q)],
           \A m, j \in 1..Len(q) : q[m] = q[j] => m = j,
           NEW t, NEW x, init_line(i, t, x), used + 1 \in Lines,
           \A j \in 1..Len(q) : q[j] # used + 1
    PROVE  /\ Walk(Append(q, used + 1), head_line'[i], next') /\ tail_line'[i] = used + 1
           /\ head_line' \in [Sets -> Lines \cup {NULL}]
           /\ tail_line' \in [Sets -> Lines \cup {NULL}]
           /\ next' \in [Lines -> Lines \cup {NULL}]
           /\ \A j \in Sets \ {i} : head_line'[j] = head_line[j] /\ tail_line'[j] = tail_line[j]
           /\ \A l \in Lines : (\A j \in 1..Len(q) : q[j] # l) /\ l # used + 1
                                   => next'[l] = next[l]
<1> DEFINE n == Len(q)
           u == used + 1
           r == Append(q, u)
<1>0. /\ head_line \in [Sets -> Lines \cup {NULL}] /\ tail_line \in [Sets -> Lines \cup {NULL}]
      /\ next \in [Lines -> Lines \cup {NULL}]
  BY DEF Arrays
<1>1. /\ n \in Nat /\ (q = <<>> <=> n = 0) /\ \A j \in 1..n : q[j] \in Lines
      /\ head_line[i] = IF q = <<>> THEN NULL ELSE q[1]
      /\ q # <<>> => tail_line[i] = q[n] /\ n \in 1..n
      /\ \A j \in 1..n : next[q[j]] = IF j = n THEN NULL ELSE q[j + 1]
  BY DEF Walk
<1>2. /\ Len(r) = n + 1 /\ r # <<>> /\ r[n + 1] = u
      /\ \A j \in 1..n : r[j] = q[j]
  <2>1. u \in Lines
    OBVIOUS
  <2> HIDE DEF u
  <2>2. Len(r) = n + 1 /\ r[n + 1] = u
    BY <2>1
  <2>3. \A j \in 1..n : r[j] = q[j]
    BY <2>1
  <2>4. r # <<>>
    <3>1. Len(r) # 0 /\ Len(<<>>) = 0
      BY <1>1, <2>2
    <3> QED BY <3>1
  <2> QED BY <2>2, <2>3, <2>4
<1>3. /\ tail_line' = [tail_line EXCEPT ![i] = u]
      /\ head_line' = IF q = <<>> THEN [head_line EXCEPT ![i] = u] ELSE head_line
      /\ next' = IF q = <<>> THEN [next EXCEPT ![u] = NULL]
                 ELSE [next EXCEPT ![u] = NULL, ![q[n]] = u]
  <2>1. q # <<>> => q[1] # NULL
    BY <1>1, NoLine
  <2> QED BY <1>1, <2>1 DEF init_line
<1> HIDE DEF n, u, r
<1>4. /\ head_line' \in [Sets -> Lines \cup {NULL}] /\ tail_line' \in [Sets -> Lines \cup {NULL}]
      /\ head_line'[i] = (IF q = <<>> THEN u ELSE q[1]) /\ tail_line'[i] = u
      /\ \A j \in Sets \ {i} : head_line'[j] = head_line[j] /\ tail_line'[j] = tail_line[j]
  BY <1>0, <1>1, <1>3 DEF u
<1>5. /\ next' \in [Lines -> Lines \cup {NULL}] /\ next'[u] = NULL
      /\ q # <<>> => next'[q[n]] = u
      /\ \A l \in Lines : l # u /\ (q # <<>> => l # q[n]) => next'[l] = next[l]
  <2>1. u \in Lines /\ (q # <<>> => q[n] \in Lines /\ q[n] # u)
    BY <1>1 DEF u, n
  <2>2. CASE q = <<>>
    BY <1>0, <1>3, <2>1, <2>2
  <2>3. CASE q # <<>>
    BY <1>0, <1>3, <2>1, <2>3
  <2> QED BY <2>2, <2>3
<1>6. Walk(r, head_line'[i], next')
  <2>1. head_line'[i] = r[1]
    BY <1>1, <1>2, <1>4
  <2>2. ASSUME NEW j \in 1..(n + 1) PROVE next'[r[j]] = IF j = n + 1 THEN NULL ELSE r[j + 1]
    <3>1. CASE j < n
      <4>1. j \in 1..n /\ n \in 1..n /\ j # n /\ j + 1 \in 1..n /\ j # n + 1
        BY <1>1, <3>1
      <4>2. q[j] # q[n] /\ q[j] # u /\ q[j] \in Lines
        BY <1>1, <4>1 DEF n, u
      <4> QED BY <1>1, <1>2, <1>5, <4>1, <4>2
    <3>2. CASE j = n
      <4>1. j \in 1..n /\ q # <<>> /\ j # n + 1
        BY <1>1, <3>2
      <4> QED BY <1>2, <1>5, <3>2, <4>1
    <3>3. CASE j = n + 1
      BY <1>2, <1>5, <3>3
    <3> QED BY <1>1, <3>1, <3>2, <3>3
  <2> QED BY <1>2, <2>1, <2>2 DEF Walk
<1>7. \A l \in Lines : (\A j \in 1..n : q[j] # l) /\ l # u => next'[l] = next[l]
  BY <1>1, <1>5
<1> QED BY <1>4, <1>5, <1>6, <1>7 DEF n, u, r

\* Lists of two sets have no line in common.
LEMMA Apart ==
    ASSUME NEW i, NEW j, i # j, NEW q, NEW p, Sound(q, i), Sound(p, j),
           NEW k \in 1..Len(q), NEW m \in 1..Len(p)
    PROVE  q[k] # p[m]
BY DEF Sound

\* A list whose pointers and lines stay is the same list.
LEMMA ListStays ==
    ASSUME NEW j, NEW p, Sound(p, j),
           head_line'[j] = head_line[j], tail_line'[j] = tail_line[j],
           used \in Int, used' \in Int, used' >= used,
           \A m \in 1..Len(p) : /\ next'[p[m]] = next[p[m]] /\ tag'[p[m]] = tag[p[m]]
                                /\ holds'[p[m]] = holds[p[m]]
    PROVE  Sound(p, j)'
<1>1. Walk(p, head_line'[j], next')
  BY DEF Sound, Walk
<1>2. ASSUME NEW m \in 1..Len(p) PROVE p[m] <= used'
  <2>1. p[m] \in Nat /\ p[m] <= used
    <3>1. p \in Seq(Lines) /\ p[m] <= used
      BY DEF Sound
    <3>2. p[m] \in Lines
      BY <3>1
    <3> QED BY <3>1, <3>2, NoLine
  <2> QED BY <2>1
<1> QED BY <1>1, <1>2 DEF Sound

\* A set that has room means that malloc has not given all lines.
LEMMA Room ==
    ASSUME Arrays, NEW L, Lists(L), NEW i \in Sets, Len(L[i]) < E PROVE used + 1 \in Lines
<1> DEFINE S == 2^s
           All == Sets \X (1..E)
           T == All \ {<<i, E>>}
           At(n, p) == p[2] <= Len(L[p[1]]) /\ L[p[1]][p[2]] = n
           f == [n \in 1..used |-> CHOOSE p \in T : At(n, p)]
<1>1. S \in Nat \ {0} /\ E \in Nat \ {0} /\ used \in Nat /\ E * S \in Nat
  <2> HIDE DEF S
  <2>1. S \in Nat \ {0} /\ E \in Nat \ {0}
    BY Powers DEF S
  <2>2. E * S \in Nat
    BY <2>1
  <2>3. used \in Nat
    BY <2>2 DEF Arrays, S
  <2> QED BY <2>1, <2>2, <2>3
<1>2. IsFiniteSet(All) /\ Cardinality(All) = S * E
  <2>1. IsFiniteSet(Sets) /\ Cardinality(Sets) = S
    <3>1. 0 \in Int /\ S - 1 \in Int /\ ~(0 > S - 1) /\ (S - 1) - 0 + 1 = S
      BY <1>1
    <3> HIDE DEF S
    <3>2. IsFiniteSet(0..(S - 1)) /\ Cardinality(0..(S - 1)) = (S - 1) - 0 + 1
      BY <3>1, FS_Interval
    <3> QED BY <3>1, <3>2 DEF Sets, S
  <2>2. IsFiniteSet(1..E) /\ Cardinality(1..E) = E
    BY <1>1, FS_Interval
  <2> HIDE DEF S
  <2> QED BY <2>1, <2>2, FS_Product
<1>3. IsFiniteSet(T) /\ Cardinality(T) = S * E - 1
  <2>1. <<i, E>> \in All
    BY <1>1
  <2> HIDE DEF All, S
  <2> QED BY <1>2, <2>1, FS_RemoveElement
<1>4. ASSUME NEW n \in 1..used PROVE \E p \in T : At(n, p)
  <2>1. PICK j \in Sets : \E k \in 1..Len(L[j]) : L[j][k] = n
    BY DEF Lists
  <2>2. PICK k \in 1..Len(L[j]) : L[j][k] = n
    BY <2>1
  <2>3. Len(L[j]) \in Nat /\ Len(L[j]) <= E /\ Len(L[i]) \in Nat
    BY DEF Lists, Sound
  <2>4. k \in 1..E /\ <<j, k>> # <<i, E>> /\ k <= Len(L[j])
    BY <1>1, <2>3
  <2>5. <<j, k>> \in T /\ At(n, <<j, k>>)
    BY <2>2, <2>4
  <2> QED BY <2>5
<1> HIDE DEF S, All, T, At
<1>5. \A n \in 1..used : f[n] \in T /\ At(n, f[n])
  BY <1>4
<1>6. f \in Injection(1..used, T)
  <2>1. f \in [1..used -> T]
    BY <1>5
  <2>2. \A n, m \in 1..used : f[n] = f[m] => n = m
    <3> HIDE DEF f
    <3> QED BY <1>5 DEF At
  <2> HIDE DEF f
  <2> QED BY <2>1, <2>2 DEF Injection, IsInjective
<1>7. Cardinality(1..used) <= Cardinality(T) /\ Cardinality(1..used) = used
  BY <1>1, <1>3, <1>6, FS_Injection, FS_Interval
<1>8. used + 1 <= E * S
  <2>1. S * E = E * S
    BY <1>1
  <2> QED BY <1>1, <1>3, <1>7, <2>1
<1> QED BY <1>1, <1>8 DEF Lines, S

\* The lists are as before but for that of set i, which has no line less.
LEMMA ListsChange ==
    ASSUME NEW L \in [Sets -> Seq(Lines)], Lists(L), NEW i \in Sets, NEW r \in Seq(Lines),
           Sound(r, i)', \A j \in Sets \ {i} : Sound(L[j], j)',
           \A k \in 1..Len(L[i]) : \E m \in 1..Len(r) : r[m] = L[i][k],
           \A n \in 1..used' : n \in 1..used \/ \E m \in 1..Len(r) : r[m] = n
    PROVE  Lists([L EXCEPT ![i] = r])'
<1> DEFINE M == [L EXCEPT ![i] = r]
<1>1. M[i] = r /\ \A j \in Sets \ {i} : M[j] = L[j]
  OBVIOUS
<1> HIDE DEF M
<1>2. ASSUME NEW j \in Sets PROVE Sound(M[j], j)'
  <2>1. CASE j = i
    BY <1>1, <2>1
  <2>2. CASE j # i
    BY <1>1, <2>2
  <2> QED BY <2>1, <2>2
<1>3. ASSUME NEW n \in 1..used' PROVE \E j \in Sets : \E k \in 1..Len(M[j]) : M[j][k] = n
  <2>1. CASE \E m \in 1..Len(r) : r[m] = n
    BY <1>1, <2>1
  <2>2. CASE n \in 1..used
    <3>1. PICK j \in Sets : \E k \in 1..Len(L[j]) : L[j][k] = n
      BY <2>2 DEF Lists
    <3>2. CASE j = i
      BY <1>1, <3>1, <3>2
    <3>3. CASE j # i
      BY <1>1, <3>1, <3>3
    <3> QED BY <3>2, <3>3
  <2> QED BY <1>3, <2>1, <2>2
<1> QED BY <1>2, <1>3 DEF Lists, M

\* No line twice in a list.
LEMMA SoundDistinct ==
    ASSUME NEW i, NEW q, Sound(q, i)
    PROVE  \A m, j \in 1..Len(q) : q[m] = q[j] => m = j
BY DEF Sound

\* No other list is touched by what happens to set i: to the lines on its
\* list, and to the next line malloc gives.
LEMMA OthersStay ==
    ASSUME Arrays, NEW L \in [Sets -> Seq(Lines)], Lists(L), NEW i \in Sets,
           \A j \in Sets \ {i} : head_line'[j] = head_line[j] /\ tail_line'[j] = tail_line[j],
           used' \in Int, used' >= used,
           \A l \in Lines : (\A k \in 1..Len(L[i]) : L[i][k] # l) /\ l # used + 1
               => next'[l] = next[l] /\ tag'[l] = tag[l] /\ holds'[l] = holds[l]
    PROVE  \A j \in Sets \ {i} : Sound(L[j], j)'
<1> SUFFICES ASSUME NEW j \in Sets \ {i} PROVE Sound(L[j], j)'
  OBVIOUS
<1>1. /\ Sound(L[j], j) /\ Sound(L[i], i) /\ used \in Int /\ i # j
      /\ L[j] \in Seq(Lines) /\ \A m \in 1..Len(L[j]) : L[j][m] <= used
  <2>1. Sound(L[j], j) /\ Sound(L[i], i) /\ i # j
    BY DEF Lists
  <2>2. used \in Int
    BY DEF Arrays
  <2> QED BY <2>1, <2>2 DEF Sound
<1> DEFINE p == L[j]
<1>2. ASSUME NEW m \in 1..Len(p)
      PROVE  next'[p[m]] = next[p[m]] /\ tag'[p[m]] = tag[p[m]] /\ holds'[p[m]] = holds[p[m]]
  <2>1. \A l \in 1..Len(L[i]) : L[i][l] # p[m]
    BY <1>1, Apart
  <2>2. p[m] \in Lines /\ p[m] # used + 1
    <3>1. p[m] \in Lines /\ p[m] <= used
      BY <1>1
    <3> QED BY <1>1, <3>1, NoLine
  <2> HIDE DEF p
  <2> QED BY <2>1, <2>2
<1>3. head_line'[j] = head_line[j] /\ tail_line'[j] = tail_line[j]
  OBVIOUS
<1>4. Sound(p, j)
  BY <1>1
<1> HIDE DEF p
<1>5. Sound(p, j)'
  BY <1>1, <1>2, <1>3, <1>4, ListStays
<1> QED BY <1>5 DEF p

\* An access that finds its line: the line goes to the end.
LEMMA HitLists ==
    ASSUME Arrays, NEW L \in [Sets -> Seq(Lines)], Lists(L), NEW i \in Sets, NEW k \in 1..Len(L[i]),
           move_line_to_tail(i, L[i], k), UNCHANGED <<tag, used, holds>>
    PROVE  Arrays' /\ Lists([L EXCEPT ![i] = Moved(L[i], k)])'
<1> DEFINE q == L[i]
           r == Moved(q, k)
           n == Len(q)
<1>1. q \in Seq(Lines) /\ Sound(q, i) /\ n \in Nat \ {0}
  BY DEF Lists
<1>2. /\ Walk(r, head_line'[i], next') /\ tail_line'[i] = q[k]
      /\ head_line' \in [Sets -> Lines \cup {NULL}]
      /\ tail_line' \in [Sets -> Lines \cup {NULL}]
      /\ next' \in [Lines -> Lines \cup {NULL}]
      /\ \A j \in Sets \ {i} : head_line'[j] = head_line[j] /\ tail_line'[j] = tail_line[j]
      /\ \A l \in Lines : (\A j \in 1..Len(q) : q[j] # l) => next'[l] = next[l]
  <2>1. Walk(q, head_line[i], next) /\ (q # <<>> => tail_line[i] = q[Len(q)])
    BY <1>1 DEF Sound
  <2>2. \A m, j \in 1..Len(q) : q[m] = q[j] => m = j
    BY <1>1, SoundDistinct
  <2> HIDE DEF q
  <2> QED BY <1>1, <2>1, <2>2, MoveWalk DEF q
<1>3. /\ r \in Seq(Lines) /\ Len(r) = n /\ r[n] = q[k]
      /\ \A j \in 1..n : \E m \in 1..n : r[j] = q[m]
      /\ \A m \in 1..n : \E j \in 1..n : r[j] = q[m]
  BY <1>1, MovedIs
<1>4. Arrays'
  BY <1>2 DEF Arrays
<1>5. \A j \in Sets \ {i} : Sound(L[j], j)'
  <2>1. used \in Int /\ used' = used /\ tag' = tag /\ holds' = holds
    BY DEF Arrays
  <2>2. used' \in Int /\ used' >= used
    BY <2>1
  <2>3. \A l \in Lines : (\A m \in 1..Len(L[i]) : L[i][m] # l) /\ l # used + 1
            => next'[l] = next[l] /\ tag'[l] = tag[l] /\ holds'[l] = holds[l]
    BY <1>2, <2>1
  <2>4. \A j \in Sets \ {i} : head_line'[j] = head_line[j] /\ tail_line'[j] = tail_line[j]
    BY <1>2
  <2> HIDE DEF r
  <2> QED BY <2>2, <2>3, <2>4, OthersStay
<1> DEFINE from(j) == IF j < k THEN j ELSE IF j < n THEN j + 1 ELSE k
<1>6. /\ \A j \in 1..n : from(j) \in 1..n /\ r[j] = q[from(j)]
      /\ \A j, m \in 1..n : from(j) = from(m) => j = m
  <2>1. \A j \in 1..n : r[j] = IF j < k THEN q[j] ELSE IF j < n THEN q[j + 1] ELSE q[k]
    BY DEF Moved
  <2>2. \A j \in 1..n : from(j) \in 1..n /\ r[j] = q[from(j)]
    BY <1>1, <2>1
  <2>3. \A j, m \in 1..n : from(j) = from(m) => j = m
    BY <1>1
  <2> QED BY <2>2, <2>3
<1>7. Sound(r, i)'
  <2>1. \A j, m \in 1..n : tag[r[j]] = tag[r[m]] => j = m
    <3>1. \A j, m \in 1..n : tag[q[j]] = tag[q[m]] => j = m
      BY <1>1 DEF Sound
    <3> HIDE DEF q, r, n, from
    <3> QED BY <1>6, <3>1
  <2>2. \A j \in 1..n : r[j] <= used /\ holds[r[j]] % 2^s = i /\ tag[r[j]] = holds[r[j]] \div 2^s
    <3>1. \A j \in 1..n : q[j] <= used /\ holds[q[j]] % 2^s = i /\ tag[q[j]] = holds[q[j]] \div 2^s
      BY <1>1 DEF Sound
    <3> HIDE DEF q, r, n, from
    <3> QED BY <1>6, <3>1
  <2>3. Len(r) <= E
    BY <1>1, <1>3 DEF Sound
  <2> HIDE DEF q, r, n, from
  <2> QED BY <1>2, <1>3, <2>1, <2>2, <2>3 DEF Sound
<1>8. Lists([L EXCEPT ![i] = r])'
  <2>1. \A m \in 1..Len(L[i]) : \E j \in 1..Len(r) : r[j] = L[i][m]
    BY <1>3
  <2> HIDE DEF r
  <2> QED BY <1>3, <1>5, <1>7, <2>1, ListsChange
<1> QED BY <1>4, <1>8

\* An access that finds room: the new line goes to the end.
LEMMA FillLists ==
    ASSUME Arrays, NEW L \in [Sets -> Seq(Lines)], Lists(L), NEW x \in Words, NEW i \in Sets,
           NEW t \in 0..(2^(W - b - s) - 1), i = x % 2^s, t = x \div 2^s,
           NotFound(L[i], t), Len(L[i]) # E, init_line(i, t, x), NEW u, u = used + 1
    PROVE  Arrays' /\ Lists([L EXCEPT ![i] = Append(L[i], u)])'
<1> DEFINE q == L[i]
           r == Append(q, u)
           n == Len(q)
<1>1. /\ q \in Seq(Lines) /\ Sound(q, i) /\ n \in Nat /\ n <= E /\ Walk(q, head_line[i], next)
      /\ q # <<>> => tail_line[i] = q[n]
      /\ \A j \in 1..n : q[j] \in Lines /\ q[j] <= used
      /\ \A m, j \in 1..n : q[m] = q[j] => m = j
  <2>1. q \in Seq(Lines) /\ Sound(q, i)
    BY DEF Lists
  <2>2. \A m, j \in 1..n : q[m] = q[j] => m = j
    BY <2>1, SoundDistinct
  <2>3. /\ n <= E /\ Walk(q, head_line[i], next) /\ (q # <<>> => tail_line[i] = q[n])
        /\ \A j \in 1..n : q[j] <= used
    BY <2>1 DEF Sound
  <2>4. n \in Nat /\ \A j \in 1..n : q[j] \in Lines
    BY <2>1
  <2> HIDE DEF q
  <2> QED BY <2>1, <2>2, <2>3, <2>4
<1>2. u \in Lines /\ used \in Nat /\ used + 1 = u /\ used' = u /\ u \in 0..(E * 2^s)
  <2>1. Len(L[i]) < E
    BY <1>1, Powers
  <2>2. used + 1 \in Lines
    BY <2>1, Room
  <2>3. used \in Nat
    BY DEF Arrays
  <2>4. Lines \subseteq 0..(E * 2^s)
    BY DEF Lines
  <2> QED BY <2>2, <2>3, <2>4 DEF init_line
<1>3. \A j \in 1..n : q[j] # u
  <2>1. ASSUME NEW j \in 1..n PROVE q[j] # u
    <3>1. q[j] \in Nat /\ q[j] <= used
      BY <1>1, NoLine
    <3> QED BY <1>2, <3>1
  <2> QED BY <2>1
<1>4. /\ Walk(r, head_line'[i], next') /\ tail_line'[i] = u
      /\ head_line' \in [Sets -> Lines \cup {NULL}]
      /\ tail_line' \in [Sets -> Lines \cup {NULL}]
      /\ next' \in [Lines -> Lines \cup {NULL}]
      /\ \A j \in Sets \ {i} : head_line'[j] = head_line[j] /\ tail_line'[j] = tail_line[j]
      /\ \A l \in Lines : (\A j \in 1..Len(q) : q[j] # l) /\ l # u => next'[l] = next[l]
  <2>1. init_line(i, t, x) /\ u \in Lines /\ u = used + 1
    BY <1>2
  <2>2. /\ q \in Seq(Lines) /\ Walk(q, head_line[i], next)
        /\ (q # <<>> => tail_line[i] = q[Len(q)])
        /\ \A m, j \in 1..Len(q) : q[m] = q[j] => m = j
        /\ \A j \in 1..Len(q) : q[j] # u
    BY <1>1, <1>3
  <2> HIDE DEF q
  <2> QED BY <2>1, <2>2, NewWalk, SMTT(40)
<1>5. /\ tag' = [tag EXCEPT ![u] = t] /\ holds' = [holds EXCEPT ![u] = x]
      /\ tag \in [Lines -> 0..(2^(W - b - s) - 1)] /\ holds \in [Lines -> Words]
  BY <1>2 DEF init_line, Arrays
<1>6. /\ tag'[u] = t /\ holds'[u] = x
      /\ \A l \in Lines : l # u => tag'[l] = tag[l] /\ holds'[l] = holds[l]
      /\ tag' \in [Lines -> 0..(2^(W - b - s) - 1)] /\ holds' \in [Lines -> Words]
  <2> QED BY <1>2, <1>5
<1>7. Arrays'
  BY <1>2, <1>4, <1>6 DEF Arrays
<1>8. r \in Seq(Lines) /\ Len(r) = n + 1 /\ r[n + 1] = u /\ \A j \in 1..n : r[j] = q[j]
  <2> HIDE DEF q
  <2> QED BY <1>1, <1>2
<1> HIDE DEF r
<1>9. \A j \in Sets \ {i} : Sound(L[j], j)'
  <2>1. used' \in Int /\ used' >= used
    BY <1>2
  <2>2. \A l \in Lines : (\A m \in 1..Len(L[i]) : L[i][m] # l) /\ l # used + 1
            => next'[l] = next[l] /\ tag'[l] = tag[l] /\ holds'[l] = holds[l]
    BY <1>2, <1>4, <1>6
  <2> QED BY <1>4, <2>1, <2>2, OthersStay
<1>10. Sound(r, i)'
  <2>1. /\ \A j \in 1..n : tag'[r[j]] = tag[q[j]] /\ holds'[r[j]] = holds[q[j]]
        /\ tag'[r[n + 1]] = t /\ holds'[r[n + 1]] = x
    <3> HIDE DEF q
    <3> QED BY <1>1, <1>3, <1>6, <1>8
  <2>2. \A j \in 1..n : tag[q[j]] # t
    BY DEF NotFound
  <2>3. \A j, m \in 1..n : tag[q[j]] = tag[q[m]] => j = m
    BY <1>1 DEF Sound
  <2>4. \A j, m \in 1..(n + 1) : tag'[r[j]] = tag'[r[m]] => j = m
    <3>1. \A j \in 1..(n + 1) : j \in 1..n \/ j = n + 1
      BY <1>1
    <3> HIDE DEF q, n
    <3> QED BY <2>1, <2>2, <2>3, <3>1
  <2>5. ASSUME NEW j \in 1..(n + 1)
        PROVE  /\ r[j] <= used' /\ holds'[r[j]] % 2^s = i
               /\ tag'[r[j]] = holds'[r[j]] \div 2^s
    <3>1. CASE j \in 1..n
      <4>1. q[j] <= used /\ holds[q[j]] % 2^s = i /\ tag[q[j]] = holds[q[j]] \div 2^s
        BY <1>1, <3>1 DEF Sound
      <4>2. q[j] <= used'
        <5>1. q[j] \in Nat
          BY <1>1, <3>1, NoLine
        <5> QED BY <1>2, <4>1, <5>1
      <4> HIDE DEF q
      <4> QED BY <1>8, <2>1, <3>1, <4>1, <4>2
    <3>2. CASE j = n + 1
      BY <1>2, <1>8, <2>1, <3>2, SMTT(30)
    <3> QED BY <1>1, <3>1, <3>2
  <2>6. n + 1 <= E
    BY <1>1, Powers
  <2>8. r \in Seq(Lines) /\ Len(r) <= E /\ r[Len(r)] = u /\ Len(r) = n + 1
    BY <1>8, <2>6
  <2> DEFINE N == n + 1
  <2>9. /\ Len(r) = N
        /\ \A j, m \in 1..N : tag'[r[j]] = tag'[r[m]] => j = m
        /\ \A j \in 1..N : /\ r[j] <= used' /\ holds'[r[j]] % 2^s = i
                          /\ tag'[r[j]] = holds'[r[j]] \div 2^s
    BY <2>4, <2>5, <2>8
  <2> HIDE DEF q, n, N
  <2> QED BY <1>4, <2>8, <2>9 DEF Sound
<1>11. Lists([L EXCEPT ![i] = r])'
  <2>1. \A m \in 1..Len(L[i]) : \E j \in 1..Len(r) : r[j] = L[i][m]
    BY <1>1, <1>8
  <2>2. \A l \in 1..used' : l \in 1..used \/ \E m \in 1..Len(r) : r[m] = l
    <3>1. \A l \in 1..used' : l \in 1..used \/ l = u
      BY <1>2
    <3>2. n + 1 \in 1..Len(r)
      BY <1>1, <1>8
    <3> QED BY <1>8, <3>1, <3>2
  <2>3. r \in Seq(Lines)
    BY <1>8
  <2> QED BY <1>9, <1>10, <2>1, <2>2, <2>3, ListsChange
<1> QED BY <1>7, <1>11 DEF r

\* An access that finds neither: the first line is taken over and goes to the
\* end.
LEMMA EvictLists ==
    ASSUME Arrays, NEW L \in [Sets -> Seq(Lines)], Lists(L), NEW x \in Words, NEW i \in Sets,
           NEW t \in 0..(2^(W - b - s) - 1), i = x % 2^s, t = x \div 2^s,
           NotFound(L[i], t), Len(L[i]) = E, remove_head_line(i, L[i], t, x)
    PROVE  Arrays' /\ Lists([L EXCEPT ![i] = Moved(L[i], 1)])'
<1> DEFINE q == L[i]
           r == Moved(q, 1)
           n == Len(q)
<1>1. /\ q \in Seq(Lines) /\ Sound(q, i) /\ n \in Nat \ {0} /\ n <= E /\ 1 \in 1..n
      /\ Walk(q, head_line[i], next)
      /\ q # <<>> => tail_line[i] = q[n]
      /\ \A j \in 1..n : q[j] \in Lines /\ q[j] <= used
      /\ \A m, j \in 1..n : q[m] = q[j] => m = j
  <2>1. q \in Seq(Lines) /\ Sound(q, i)
    BY DEF Lists
  <2>2. \A m, j \in 1..n : q[m] = q[j] => m = j
    BY <2>1, SoundDistinct
  <2>3. n \in Nat \ {0} /\ 1 \in 1..n
    BY Powers
  <2>4. /\ n <= E /\ Walk(q, head_line[i], next) /\ (q # <<>> => tail_line[i] = q[n])
        /\ \A j \in 1..n : q[j] <= used
    BY <2>1 DEF Sound
  <2>5. \A j \in 1..n : q[j] \in Lines
    BY <2>1
  <2> HIDE DEF q
  <2> QED BY <2>1, <2>2, <2>3, <2>4, <2>5
<1>2. used \in Int /\ used' = used /\ q[1] \in Lines
  BY <1>1 DEF remove_head_line, Arrays
<1>4. /\ Walk(r, head_line'[i], next') /\ tail_line'[i] = q[1]
      /\ head_line' \in [Sets -> Lines \cup {NULL}]
      /\ tail_line' \in [Sets -> Lines \cup {NULL}]
      /\ next' \in [Lines -> Lines \cup {NULL}]
      /\ \A j \in Sets \ {i} : head_line'[j] = head_line[j] /\ tail_line'[j] = tail_line[j]
      /\ \A l \in Lines : (\A j \in 1..Len(q) : q[j] # l) => next'[l] = next[l]
  <2>1. move_line_to_tail(i, q, 1) /\ 1 \in 1..Len(q)
    BY <1>1 DEF remove_head_line
  <2>2. q # <<>> => tail_line[i] = q[Len(q)]
    BY <1>1
  <2>3. Walk(q, head_line[i], next) /\ \A m, j \in 1..Len(q) : q[m] = q[j] => m = j
    BY <1>1
  <2>4. q \in Seq(Lines)
    BY <1>1
  <2> HIDE DEF q
  <2> QED BY <2>1, <2>2, <2>3, <2>4, MoveWalk
<1>5. /\ tag' = [tag EXCEPT ![q[1]] = t] /\ holds' = [holds EXCEPT ![q[1]] = x]
      /\ tag \in [Lines -> 0..(2^(W - b - s) - 1)] /\ holds \in [Lines -> Words]
  BY DEF remove_head_line, Arrays
<1>6. /\ tag'[q[1]] = t /\ holds'[q[1]] = x
      /\ \A l \in Lines : l # q[1] => tag'[l] = tag[l] /\ holds'[l] = holds[l]
      /\ tag' \in [Lines -> 0..(2^(W - b - s) - 1)] /\ holds' \in [Lines -> Words]
  <2> HIDE DEF q
  <2> QED BY <1>2, <1>5
<1>7. Arrays'
  <2>1. used \in 0..(E * 2^s)
    BY DEF Arrays
  <2> QED BY <1>2, <1>4, <1>6, <2>1 DEF Arrays
<1>8. /\ r \in Seq(Lines) /\ Len(r) = n /\ r[n] = q[1]
      /\ \A j \in 1..n : j < n => j + 1 \in 1..n /\ r[j] = q[j + 1]
      /\ \A m \in 1..n : \E j \in 1..n : r[j] = q[m]
  <2>1. /\ r \in Seq(Lines) /\ Len(r) = n /\ r[n] = q[1]
        /\ \A m \in 1..n : \E j \in 1..n : r[j] = q[m]
    <3>1. q \in Seq(Lines) /\ 1 \in 1..Len(q)
      BY <1>1
    <3> HIDE DEF q
    <3> QED BY <3>1, MovedIs
  <2>2. \A j \in 1..n : j < n => j + 1 \in 1..n /\ r[j] = q[j + 1]
    BY <1>1 DEF Moved
  <2> QED BY <2>1, <2>2
<1> HIDE DEF r
<1>9. \A j \in Sets \ {i} : Sound(L[j], j)'
  <2>1. used' \in Int /\ used' >= used
    BY <1>2
  <2>2. \A l \in Lines : (\A m \in 1..Len(L[i]) : L[i][m] # l) /\ l # used + 1
            => next'[l] = next[l] /\ tag'[l] = tag[l] /\ holds'[l] = holds[l]
    BY <1>1, <1>4, <1>6
  <2> QED BY <1>4, <2>1, <2>2, OthersStay
<1>10. Sound(r, i)'
  <2>1. /\ \A j \in 1..n : j < n => tag'[r[j]] = tag[q[j + 1]] /\ holds'[r[j]] = holds[q[j + 1]]
        /\ tag'[r[n]] = t /\ holds'[r[n]] = x
    <3>1. ASSUME NEW j \in 1..n, j < n
          PROVE  tag'[r[j]] = tag[q[j + 1]] /\ holds'[r[j]] = holds[q[j + 1]]
      <4>1. j + 1 \in 1..n /\ j + 1 # 1 /\ r[j] = q[j + 1]
        <5>1. j \in Int /\ 1 <= j
          OBVIOUS
        <5>2. j + 1 # 1
          BY <5>1
        <5> QED BY <1>8, <3>1, <5>2
      <4>2. q[j + 1] \in Lines /\ q[j + 1] # q[1]
        BY <1>1, <4>1
      <4> QED BY <1>6, <4>1, <4>2
    <3> QED BY <1>6, <1>8, <3>1
  <2>2. \A j \in 1..n : tag[q[j]] # t
    BY DEF NotFound
  <2>3. \A j, m \in 1..n : tag[q[j]] = tag[q[m]] => j = m
    BY <1>1 DEF Sound
  <2>4. \A j, m \in 1..n : tag'[r[j]] = tag'[r[m]] => j = m
    <3>1. \A j \in 1..n : (j < n /\ j + 1 \in 1..n) \/ j = n
      BY <1>1
    <3>2. ASSUME NEW j \in 1..n, NEW m \in 1..n, j < n, m < n,
                 tag'[r[j]] = tag'[r[m]]
          PROVE  j = m
      <4>1. /\ j + 1 \in 1..n /\ m + 1 \in 1..n
            /\ tag[q[j + 1]] = tag[q[m + 1]]
        BY <2>1, <3>1, <3>2
      <4>2. j + 1 = m + 1
        BY <2>3, <4>1
      <4> QED BY <4>2
    <3>3. ASSUME NEW j \in 1..n, j < n PROVE tag'[r[j]] # tag'[r[n]]
      <4>1. j + 1 \in 1..n /\ tag'[r[j]] = tag[q[j + 1]] /\ tag'[r[n]] = t
        BY <2>1, <3>1, <3>3
      <4> QED BY <2>2, <4>1
    <3>4. \A j \in 1..n : j < n \/ j = n
      BY <3>1
    <3> HIDE DEF q, n
    <3> QED BY <3>2, <3>3, <3>4
  <2>5. ASSUME NEW j \in 1..n
        PROVE  /\ r[j] <= used' /\ holds'[r[j]] % 2^s = i
               /\ tag'[r[j]] = holds'[r[j]] \div 2^s
    <3>1. CASE j < n
      <4>1. j + 1 \in 1..n
        BY <1>8, <3>1
      <4>2. /\ q[j + 1] <= used /\ holds[q[j + 1]] % 2^s = i
            /\ tag[q[j + 1]] = holds[q[j + 1]] \div 2^s
        BY <1>1, <4>1 DEF Sound
      <4> HIDE DEF q, n
      <4> QED BY <1>2, <1>8, <2>1, <3>1, <4>1, <4>2
    <3>2. CASE j = n
      <4>1. q[1] <= used
        BY <1>1
      <4> QED BY <1>2, <1>8, <2>1, <3>2, <4>1
    <3> QED BY <1>1, <3>1, <3>2
  <2>6. /\ r \in Seq(Lines) /\ Len(r) = n /\ Len(r) <= E /\ r[Len(r)] = q[1]
        /\ Walk(r, head_line'[i], next') /\ tail_line'[i] = r[Len(r)]
    BY <1>1, <1>4, <1>8
  <2> HIDE DEF q, n
  <2> QED BY <2>4, <2>5, <2>6 DEF Sound
<1>11. Lists([L EXCEPT ![i] = r])'
  <2>1. \A m \in 1..Len(L[i]) : \E j \in 1..Len(r) : r[j] = L[i][m]
    <3>1. \A m \in 1..n : \E j \in 1..n : r[j] = q[m]
      BY <1>8
    <3>2. Len(r) = n /\ n = Len(L[i]) /\ q = L[i]
      BY <1>8
    <3> HIDE DEF n, q
    <3> QED BY ONLY <3>1, <3>2
  <2>2. r \in Seq(Lines) /\ \A l \in 1..used' : l \in 1..used
    BY <1>2, <1>8
  <2> QED BY <1>9, <1>10, <2>1, <2>2, ListsChange
<1> QED BY <1>7, <1>11 DEF r

----------------------------------------------------------------------------
(* The invariant.                                                          *)

\* Block x is on the list of its set.
Found(L, x) == \E k \in 1..Len(L[x % 2^s]) : holds[L[x % 2^s][k]] = x

\* What an access of block x does to the lists and the counters.
HitStep(L, M, x) ==
    /\ \E k \in 1..Len(L[x % 2^s]) :
          /\ holds[L[x % 2^s][k]] = x
          /\ M = [L EXCEPT ![x % 2^s] = Moved(L[x % 2^s], k)]
    /\ hit_count' = hit_count + 1
    /\ UNCHANGED <<holds, miss_count, eviction_count>>
FillStep(L, M, x) ==
    /\ ~Found(L, x) /\ Len(L[x % 2^s]) < E
    /\ \E u \in Lines :
          /\ u = used + 1
          /\ M = [L EXCEPT ![x % 2^s] = Append(L[x % 2^s], u)]
          /\ holds' = [holds EXCEPT ![u] = x]
    /\ miss_count' = miss_count + 1
    /\ UNCHANGED <<hit_count, eviction_count>>
EvictStep(L, M, x) ==
    /\ ~Found(L, x) /\ Len(L[x % 2^s]) = E
    /\ M = [L EXCEPT ![x % 2^s] = Moved(L[x % 2^s], 1)]
    /\ holds' = [holds EXCEPT ![L[x % 2^s][1]] = x]
    /\ miss_count' = miss_count + 1
    /\ eviction_count' = eviction_count + 1
    /\ UNCHANGED hit_count

\* The tags of a list tell which blocks it holds.
LEMMA TagsTell ==
    ASSUME Arrays, NEW x \in Words, NEW q, Sound(q, x % 2^s), NEW k \in 1..Len(q)
    PROVE  tag[q[k]] = x \div 2^s <=> holds[q[k]] = x
<1>1. q[k] \in Lines
  <2>1. q \in Seq(Lines)
    BY DEF Sound
  <2> QED BY <2>1
<1>2. holds[q[k]] \in Nat /\ x \in Nat
  BY <1>1, Powers DEF Arrays, Words
<1>3. holds[q[k]] % 2^s = x % 2^s /\ tag[q[k]] = holds[q[k]] \div 2^s
  BY DEF Sound
<1> DEFINE y == holds[q[k]]
<1> HIDE DEF y
<1>4. y \in Nat /\ y % 2^s = x % 2^s
  BY <1>2, <1>3 DEF y
<1>5. x \div 2^s = y \div 2^s => x = y
  BY <1>2, <1>4, SetAndTag
<1>6. tag[q[k]] = y \div 2^s
  BY <1>3 DEF y
<1> QED BY <1>5, <1>6 DEF y

\* access_cache walks the one list of its set, and makes one of the steps.
LEMMA AccessLists ==
    ASSUME Arrays, NEW L \in [Sets -> Seq(Lines)], Lists(L), NEW a \in Words, access_cache(a)
    PROVE  /\ Arrays'
           /\ \E M \in [Sets -> Seq(Lines)] :
                 /\ Lists(M)' /\ Found(M, BlockOf(a))'
                 /\ \/ HitStep(L, M, BlockOf(a))
                    \/ FillStep(L, M, BlockOf(a))
                    \/ EvictStep(L, M, BlockOf(a))
<1> DEFINE x == BlockOf(a)
           i == x % 2^s
           t == x \div 2^s
           q == L[i]
<1>1. /\ x \in Words /\ i \in Sets /\ t \in 0..(2^(W - b - s) - 1)
      /\ get_set_index(a) = i /\ get_line_tag(a) = t
  BY Parts
<1>2. q \in Seq(Lines) /\ Sound(q, i) /\ Len(q) \in Nat /\ Len(q) <= E
  BY <1>1 DEF Lists, Sound
<1>3. Hit(i, q, t) \/ Fill(i, q, t, x) \/ Evict(i, q, t, x)
  <2>1. PICK p \in AllLists : /\ IsList(p, i)
                              /\ Hit(i, p, t) \/ Fill(i, p, t, x) \/ Evict(i, p, t, x)
    BY <1>1 DEF access_cache
  <2>2. p \in Seq(Lines) /\ Walk(p, head_line[i], next)
    BY <2>1, ListsAre DEF IsList, Walk
  <2>3. Walk(q, head_line[i], next)
    BY <1>2 DEF Sound
  <2> HIDE DEF x, i, t, q
  <2>4. p = q
    BY <1>2, <2>2, <2>3, OneWalk
  <2> QED BY <2>1, <2>4
<1>4. \A k \in 1..Len(q) : tag[q[k]] = t <=> holds[q[k]] = x
  <2> HIDE DEF x, q
  <2> QED BY <1>1, <1>2, TagsTell
<1>5. CASE Hit(i, q, t)
  <2>1. PICK k \in 1..Len(q) : tag[q[k]] = t /\ move_line_to_tail(i, q, k)
    BY <1>5 DEF Hit, find_line_in_set
  <2>2. UNCHANGED <<tag, used, holds>>
    BY <1>5 DEF Hit
  <2> DEFINE r == Moved(q, k)
             M == [L EXCEPT ![i] = r]
  <2>3. Arrays' /\ Lists(M)'
    <3> HIDE DEF x, i
    <3> QED BY <1>1, <2>1, <2>2, HitLists
  <2>4. r \in Seq(Lines) /\ Len(r) = Len(q) /\ r[Len(q)] = q[k] /\ Len(q) \in 1..Len(q)
    <3> HIDE DEF q
    <3>1. r \in Seq(Lines) /\ Len(r) = Len(q) /\ r[Len(q)] = q[k]
      BY <1>2, MovedIs
    <3>2. Len(q) \in 1..Len(q)
      BY <1>2
    <3> QED BY <3>1, <3>2
  <2>5. M \in [Sets -> Seq(Lines)] /\ M[i] = r
    <3> HIDE DEF i, r
    <3> QED BY <1>1, <2>4
  <2>6. holds[q[k]] = x
    BY <1>4, <2>1
  <2>7. Found(M, x)'
    <3>1. holds'[r[Len(q)]] = x /\ Len(q) \in 1..Len(r)
      BY <2>2, <2>4, <2>6
    <3> HIDE DEF r, q, x, M
    <3> QED BY <2>5, <3>1 DEF Found
  <2>8. HitStep(L, M, x)
    BY <1>5, <2>6 DEF HitStep, Hit
  <2> HIDE DEF M, x
  <2> QED BY <2>3, <2>5, <2>7, <2>8 DEF x
<1>6. NotFound(q, t) => ~Found(L, x)
  BY <1>4 DEF NotFound, Found
<1>7. CASE Fill(i, q, t, x)
  <2>1. NotFound(q, t) /\ Len(q) # E /\ init_line(i, t, x)
    BY <1>7 DEF Fill
  <2>2. Len(q) < E /\ E \in Nat
    BY <1>2, <2>1, Powers
  <2>3. used + 1 \in Lines
    <3> HIDE DEF i
    <3> QED BY <1>1, <2>2, Room
  <2>4. PICK u \in Lines : u = used + 1
    BY <2>3
  <2> DEFINE r == Append(q, u)
             M == [L EXCEPT ![i] = r]
  <2>5. Arrays' /\ Lists(M)'
    <3> HIDE DEF x
    <3>1. i = x % 2^s /\ t = x \div 2^s
      OBVIOUS
    <3> HIDE DEF i, t
    <3> QED BY <1>1, <2>1, <2>4, <3>1, FillLists
  <2>6. r \in Seq(Lines) /\ Len(r) = Len(q) + 1 /\ r[Len(q) + 1] = u /\ Len(q) + 1 \in 1..Len(r)
    <3> HIDE DEF q
    <3> QED BY <1>2
  <2>7. M \in [Sets -> Seq(Lines)] /\ M[i] = r
    <3> HIDE DEF i, r
    <3> QED BY <1>1, <2>6
  <2>8. holds' = [holds EXCEPT ![u] = x] /\ holds'[u] = x
    <3> HIDE DEF x, i, t
    <3> QED BY <2>1, <2>4 DEF init_line, Arrays
  <2>9. Found(M, x)'
    <3> DEFINE z == Len(q) + 1
    <3>1. holds'[r[z]] = x /\ z \in 1..Len(r)
      BY <2>6, <2>8
    <3> HIDE DEF r, q, x, M, z
    <3> QED BY <2>7, <3>1 DEF Found
  <2>10. FillStep(L, M, x)
    BY <1>6, <1>7, <2>1, <2>2, <2>4, <2>8 DEF FillStep, Fill
  <2> HIDE DEF M, x
  <2> QED BY <2>5, <2>7, <2>9, <2>10 DEF x
<1>8. CASE Evict(i, q, t, x)
  <2>1. NotFound(q, t) /\ Len(q) = E /\ remove_head_line(i, q, t, x)
    BY <1>8 DEF Evict
  <2> DEFINE r == Moved(q, 1)
             M == [L EXCEPT ![i] = r]
  <2>2. Arrays' /\ Lists(M)'
    <3> HIDE DEF x
    <3>1. i = x % 2^s /\ t = x \div 2^s
      OBVIOUS
    <3> HIDE DEF i, t
    <3> QED BY <1>1, <2>1, <3>1, EvictLists
  <2>3. 1 \in 1..Len(q) /\ q[1] \in Lines
    BY <1>2, <2>1, Powers
  <2>4. r \in Seq(Lines) /\ Len(r) = Len(q) /\ r[Len(q)] = q[1] /\ Len(q) \in 1..Len(q)
    <3> HIDE DEF q
    <3> QED BY <1>2, <2>3, MovedIs
  <2>5. M \in [Sets -> Seq(Lines)] /\ M[i] = r
    <3> HIDE DEF i, r
    <3> QED BY <1>1, <2>4
  <2>6. holds' = [holds EXCEPT ![q[1]] = x] /\ holds'[q[1]] = x
    <3> HIDE DEF x, i, t, q
    <3> QED BY <2>1, <2>3 DEF remove_head_line, Arrays
  <2>7. Found(M, x)'
    <3>1. holds'[r[Len(q)]] = x /\ Len(q) \in 1..Len(r)
      BY <2>4, <2>6
    <3> HIDE DEF r, q, x, M
    <3> QED BY <2>5, <3>1 DEF Found
  <2>8. EvictStep(L, M, x)
    BY <1>6, <1>8, <2>1, <2>6 DEF EvictStep, Evict
  <2> HIDE DEF M, x
  <2> QED BY <2>2, <2>5, <2>7, <2>8 DEF x
<1> QED BY <1>3, <1>5, <1>7, <1>8

\* The cache is made of lists, and the line of the load of a modify is still
\* on its list when the store comes.
IInv ==
    /\ Arrays
    /\ hit_count \in Nat /\ miss_count \in Nat /\ eviction_count \in Nat
    /\ again \in BOOLEAN
    /\ addr \in Addrs
    /\ \E L \in [Sets -> Seq(Lines)] : Lists(L) /\ (again => Found(L, BlockOf(addr)))

\* At first the lists are empty.
LEMMA InitLists == ASSUME Init PROVE Lists([i \in Sets |-> <<>>])
<1> DEFINE L == [i \in Sets |-> <<>>]
<1>1. L \in [Sets -> Seq(Lines)] /\ \A i \in Sets : L[i] = <<>>
  OBVIOUS
<1> HIDE DEF L
<1>2. ASSUME NEW i \in Sets PROVE Sound(L[i], i)
  <2>1. L[i] = <<>> /\ Len(<<>>) = 0 /\ <<>> \in Seq(Lines) /\ E \in Nat /\ 1..0 = {}
    BY <1>1, Powers
  <2>2. head_line[i] = NULL
    BY DEF Init
  <2> QED BY <2>1, <2>2 DEF Sound, Walk
<1>3. Lists(L)
  <2>1. 1..used = {}
    BY DEF Init
  <2> QED BY <1>2, <2>1 DEF Lists
<1> QED BY <1>3 DEF L

LEMMA InitIInv == Init => IInv
<1> SUFFICES ASSUME Init PROVE IInv
  OBVIOUS
<1>1. Arrays
  <2>1. 0 \in 0..(E * 2^s)
    <3> DEFINE S == 2^s
    <3>1. S \in Nat /\ E \in Nat
      BY Powers
    <3> HIDE DEF S
    <3>2. E * S \in Nat
      BY <3>1
    <3> QED BY <3>2 DEF S
  <2>2. 0 \in 0..(2^(W - b - s) - 1) /\ 0 \in Words
    BY Powers DEF Words
  <2> QED BY <2>1, <2>2 DEF Init, Arrays
<1>2. addr \in Addrs
  BY DEF Init
<1>3. \E L \in [Sets -> Seq(Lines)] : Lists(L)
  <2>1. [i \in Sets |-> <<>>] \in [Sets -> Seq(Lines)]
    OBVIOUS
  <2> QED BY <2>1, InitLists
<1> QED BY <1>1, <1>2, <1>3 DEF Init, IInv

\* An access keeps the invariant, whatever it is part of.
LEMMA AccessIInv ==
    ASSUME IInv, NEW a \in Addrs, access_cache(a), addr' = a, again' \in BOOLEAN PROVE IInv'
<1>1. PICK L \in [Sets -> Seq(Lines)] : Lists(L)
  BY DEF IInv
<1>2. Arrays' /\ \E M \in [Sets -> Seq(Lines)] :
                    /\ Lists(M)' /\ Found(M, BlockOf(a))'
                    /\ \/ HitStep(L, M, BlockOf(a))
                       \/ FillStep(L, M, BlockOf(a))
                       \/ EvictStep(L, M, BlockOf(a))
  <2>1. Arrays /\ a \in Words
    BY AddrsAreWords DEF IInv
  <2> QED BY <1>1, <2>1, AccessLists
<1>3. PICK M \in [Sets -> Seq(Lines)] :
           /\ Lists(M)' /\ Found(M, BlockOf(a))'
           /\ \/ HitStep(L, M, BlockOf(a))
              \/ FillStep(L, M, BlockOf(a))
              \/ EvictStep(L, M, BlockOf(a))
  BY <1>2
<1>4. hit_count' \in Nat /\ miss_count' \in Nat /\ eviction_count' \in Nat
  BY <1>3, SMTT(30) DEF IInv, HitStep, FillStep, EvictStep
<1>5. Found(M, BlockOf(addr))'
  BY <1>3 DEF BlockOf
<1> QED BY <1>2, <1>3, <1>4, <1>5 DEF IInv

\* A step that changes nothing of the cache keeps it as well.
LEMMA StutterIInv == IInv /\ UNCHANGED vars => IInv'
<1> SUFFICES ASSUME IInv, UNCHANGED vars PROVE IInv'
  OBVIOUS
<1>1. /\ UNCHANGED <<head_line, tail_line, next, tag, used, holds>>
      /\ UNCHANGED <<hit_count, miss_count, eviction_count, again, addr>>
  BY DEF vars, lists, counts
<1>2. Arrays'
  BY <1>1 DEF IInv, Arrays
<1>3. PICK L \in [Sets -> Seq(Lines)] : Lists(L) /\ (again => Found(L, BlockOf(addr)))
  BY DEF IInv
<1>4. Lists(L)' /\ (again => Found(L, BlockOf(addr)))'
  BY <1>1, <1>3 DEF Lists, Sound, Walk, Found, BlockOf
<1> QED BY <1>1, <1>2, <1>4 DEF IInv

LEMMA NextIInv == IInv /\ [Next]_vars => IInv'
<1> SUFFICES ASSUME IInv, [Next]_vars PROVE IInv'
  OBVIOUS
<1>1. CASE Again
  <2>1. PICK a \in Addrs : a = addr
    BY DEF IInv
  <2>2. access_cache(a) /\ addr' = a /\ again' \in BOOLEAN
    BY <1>1, <2>1 DEF Again
  <2> QED BY <2>2, AccessIInv
<1>2. CASE \E modify \in BOOLEAN, a \in Addrs : Record(modify, a)
  <2>1. PICK modify \in BOOLEAN, a \in Addrs : Record(modify, a)
    BY <1>2
  <2>2. access_cache(a) /\ addr' = a /\ again' \in BOOLEAN
    BY <2>1 DEF Record
  <2> QED BY <2>2, AccessIInv
<1>3. CASE UNCHANGED vars
  BY <1>3, StutterIInv
<1> QED BY <1>1, <1>2, <1>3 DEF Next

----------------------------------------------------------------------------
(* The lists as an LRU cache.                                              *)

\* The blocks on a list.
Named(q, h) == [k \in 1..Len(q) |-> h[q[k]]]

\* A walk from the head of a set finds its list and no other.
LEMMA OrderIs ==
    ASSUME NEW L \in [Sets -> Seq(Lines)], Lists(L)
    PROVE  Order = [i \in Sets |-> Named(L[i], holds)]
<1>1. ASSUME NEW i \in Sets PROVE (CHOOSE l \in AllLists : IsList(l, i)) = L[i]
  <2> DEFINE q == L[i]
  <2>1. q \in Seq(Lines) /\ Len(q) <= E /\ Walk(q, head_line[i], next)
    BY DEF Lists, Sound
  <2> HIDE DEF q
  <2>2. q \in AllLists /\ IsList(q, i)
    BY <2>1, ListsAre DEF IsList, Walk
  <2>3. ASSUME NEW l \in AllLists, IsList(l, i) PROVE l = q
    <3>1. l \in Seq(Lines) /\ Walk(l, head_line[i], next)
      BY <2>3, ListsAre DEF IsList, Walk
    <3> QED BY <2>1, <3>1, OneWalk
  <2> QED BY <2>2, <2>3 DEF q
<1> DEFINE q(i) == CHOOSE l \in AllLists : IsList(l, i)
<1>2. Order = [i \in Sets |-> Named(q(i), holds)]
  BY DEF Order, Named
<1>3. \A i \in Sets : q(i) = L[i]
  BY <1>1
<1> HIDE DEF q
<1> QED BY <1>2, <1>3

\* The same after a step.
LEMMA OrderIsThen ==
    ASSUME NEW L \in [Sets -> Seq(Lines)], Lists(L)'
    PROVE  Order' = [i \in Sets |-> Named(L[i], holds')]
<1>1. ASSUME NEW i \in Sets PROVE (CHOOSE l \in AllLists : IsList(l, i)') = L[i]
  <2> DEFINE q == L[i]
  <2>1. q \in Seq(Lines) /\ Len(q) <= E /\ Walk(q, head_line'[i], next')
    BY DEF Lists, Sound
  <2> HIDE DEF q
  <2>2. q \in AllLists /\ IsList(q, i)'
    BY <2>1, ListsAre DEF IsList, Walk
  <2>3. ASSUME NEW l \in AllLists, IsList(l, i)' PROVE l = q
    <3>1. l \in Seq(Lines) /\ Walk(l, head_line'[i], next')
      BY <2>3, ListsAre DEF IsList, Walk
    <3>2. PICK h, nx : h = head_line'[i] /\ nx = next'
      OBVIOUS
    <3> QED BY <2>1, <3>1, <3>2, OneWalk
  <2> QED BY <2>2, <2>3 DEF q
<1> DEFINE q(i) == CHOOSE l \in AllLists : IsList(l, i)'
<1>2. Order' = [i \in Sets |-> Named(q(i), holds')]
  BY DEF Order, Named
<1>3. \A i \in Sets : q(i) = L[i]
  BY <1>1
<1> HIDE DEF q
<1> QED BY <1>2, <1>3

LEMMA LruInit == Init => Lru!Init
<1> SUFFICES ASSUME Init PROVE Lru!Init
  OBVIOUS
<1> DEFINE L == [i \in Sets |-> <<>>]
<1>1. L \in [Sets -> Seq(Lines)] /\ \A i \in Sets : L[i] = <<>>
  OBVIOUS
<1>2. Lists(L)
  BY InitLists
<1> HIDE DEF L
<1>3. Order = [i \in Sets |-> Named(L[i], holds)]
  BY <1>1, <1>2, OrderIs
<1>4. ASSUME NEW i \in Sets PROVE Named(L[i], holds) = <<>>
  BY <1>1 DEF Named
<1>5. Order = [i \in Sets |-> <<>>]
  BY <1>3, <1>4
<1> QED BY <1>5 DEF Init, Lru!Init

LEMMA NamedIs ==
    ASSUME NEW q \in Seq(Lines), NEW h \in [Lines -> Words]
    PROVE  /\ Named(q, h) \in Seq(Words) /\ Len(Named(q, h)) = Len(q)
           /\ \A k \in 1..Len(q) : Named(q, h)[k] = h[q[k]]
<1>1. \A k \in 1..Len(q) : h[q[k]] \in Words
  OBVIOUS
<1>2. Len(q) \in Nat /\ Named(q, h) \in [1..Len(q) -> Words]
  BY <1>1 DEF Named
<1>3. \A k \in 1..Len(q) : Named(q, h)[k] = h[q[k]]
  BY DEF Named
<1> HIDE DEF Named
<1> QED BY <1>2, <1>3

\* The blocks move as their lines do,
LEMMA NamedMoved ==
    ASSUME NEW q \in Seq(Lines), NEW h \in [Lines -> Words], NEW k \in 1..Len(q)
    PROVE  Named(Moved(q, k), h) = Lru!ToEnd(Named(q, h), k)
<1> DEFINE n == Len(q)
           r == Moved(q, k)
<1>1. r \in Seq(Lines) /\ Len(r) = n
  BY MovedIs
<1>2. \A j \in 1..n : r[j] = IF j < k THEN q[j] ELSE IF j < n THEN q[j + 1] ELSE q[k]
  BY DEF Moved
<1>3. Len(Named(q, h)) = n /\ \A j \in 1..n : Named(q, h)[j] = h[q[j]]
  BY NamedIs
<1>4. n \in Nat /\ \A j \in 1..n : j < n => j + 1 \in 1..n
  OBVIOUS
<1>5. Lru!ToEnd(Named(q, h), k)
        = [j \in 1..n |-> IF j < k THEN Named(q, h)[j]
                          ELSE IF j < n THEN Named(q, h)[j + 1] ELSE Named(q, h)[k]]
  BY <1>3 DEF Lru!ToEnd
<1>6. Named(r, h) = [j \in 1..n |-> h[r[j]]]
  BY <1>1 DEF Named
<1> HIDE DEF r, n
<1>7. ASSUME NEW j \in 1..n
      PROVE  h[r[j]] = IF j < k THEN Named(q, h)[j]
                       ELSE IF j < n THEN Named(q, h)[j + 1] ELSE Named(q, h)[k]
  <2>1. k \in 1..n
    BY DEF n
  <2> QED BY <1>2, <1>3, <1>4, <2>1
<1> QED BY <1>5, <1>6, <1>7 DEF r

\* Line l is filled with block x, which makes h to g.
Refilled(g, h, l, x) == g[l] = x /\ \A m \in Lines : m # l => g[m] = h[m]

\* Line u, which is not on list q, is filled with block x and put at its end.
Grown(q, r, u, h, g, x) ==
    /\ q \in Seq(Lines) /\ r \in Seq(Lines) /\ u \in Lines /\ x \in Words
    /\ h \in [Lines -> Words] /\ g \in [Lines -> Words] /\ Refilled(g, h, u, x)
    /\ Len(r) = Len(q) + 1 /\ r[Len(q) + 1] = u
    /\ \A k \in 1..Len(q) : r[k] = q[k] /\ q[k] # u

\* a new line brings its block,
LEMMA NamedAppend ==
    ASSUME NEW q, NEW r, NEW u, NEW h, NEW g, NEW x, Grown(q, r, u, h, g, x)
    PROVE  Named(r, g) = Append(Named(q, h), x)
<1> DEFINE n == Len(q)
           p == Named(q, h)
           o == Append(p, x)
           N == n + 1
<1>1. n \in Nat /\ N = n + 1 /\ r \in Seq(Lines) /\ Len(r) = N /\ r[N] = u 
      /\ \A j \in 1..n : r[j] = q[j] /\ q[j] # u
  BY DEF Grown
<1>2. p \in Seq(Words) /\ Len(p) = n /\ \A j \in 1..n : p[j] = h[q[j]]
  BY NamedIs DEF Grown
<1> HIDE DEF p
<1>3. /\ Len(o) = N /\ o[N] = x /\ \A j \in 1..n : o[j] = p[j]
      /\ o \in Seq(Words)
  BY <1>1, <1>2 DEF Grown
<1> HIDE DEF o
<1>4. \A j \in 1..n : q[j] \in Lines
  BY DEF Grown
<1>5. Named(r, g) = [j \in 1..N |-> g[r[j]]]
  BY <1>1 DEF Named
<1>6. o = [j \in 1..N |-> o[j]]
  <2> HIDE DEF N
  <2> QED BY <1>3
<1>7. ASSUME NEW j \in 1..N PROVE g[r[j]] = o[j]
  <2>1. j \in 1..n \/ j = N
    BY <1>1
  <2> HIDE DEF n, N
  <2>2. CASE j \in 1..n
    <3>1. q[j] \in Lines /\ q[j] # u
      BY <1>1, <1>4, <2>2 DEF n
    <3> QED BY <1>1, <1>2, <1>3, <2>2, <3>1 DEF Grown, Refilled
  <2>3. CASE j = N
    BY <1>1, <1>3, <2>3 DEF Grown, Refilled
  <2> QED BY <2>1, <2>2, <2>3
<1> HIDE DEF N
<1> QED BY <1>5, <1>6, <1>7 DEF o, p

\* and a line taken over changes its block on the way.
LEMMA NamedEvict ==
    ASSUME NEW q \in Seq(Lines), NEW h \in [Lines -> Words], NEW x \in Words, Len(q) # 0,
           \A k, m \in 1..Len(q) : q[k] = q[m] => k = m,
           NEW g \in [Lines -> Words], Refilled(g, h, q[1], x)
    PROVE  Named(Moved(q, 1), g) = Append(Tail(Named(q, h)), x)
<1> DEFINE n == Len(q)
           r == Moved(q, 1)
           p == Named(q, h)
           t == Tail(p)
           o == Append(t, x)
<1>1. n \in Nat \ {0} /\ 1 \in 1..n /\ \A j \in 1..n : q[j] \in Lines
  OBVIOUS
<1>2. /\ r \in Seq(Lines) /\ Len(r) = n /\ r[n] = q[1]
      /\ \A j \in 1..n : j < n => r[j] = q[j + 1]
  <2>1. r \in Seq(Lines) /\ Len(r) = n /\ r[n] = q[1]
    BY <1>1, MovedIs
  <2>2. \A j \in 1..n : j < n => r[j] = q[j + 1]
    BY <1>1 DEF Moved
  <2> QED BY <2>1, <2>2
<1>3. p \in Seq(Words) /\ Len(p) = n /\ \A j \in 1..n : p[j] = h[q[j]]
  BY NamedIs
<1> HIDE DEF p, r
<1>4. t \in Seq(Words) /\ Len(t) = n - 1 /\ \A j \in 1..(n - 1) : t[j] = p[j + 1]
  <2> HIDE DEF n
  <2> QED BY <1>1, <1>3
<1> HIDE DEF t
<1>5. o \in Seq(Words) /\ Len(o) = n /\ o[n] = x /\ \A j \in 1..(n - 1) : o[j] = t[j]
  <2> HIDE DEF n
  <2> QED BY <1>1, <1>4
<1> HIDE DEF o
<1>6. Named(r, g) = [j \in 1..n |-> g[r[j]]]
  BY <1>2 DEF Named
<1>7. o = [j \in 1..n |-> o[j]]
  <2> HIDE DEF n
  <2> QED BY <1>5
<1>8. ASSUME NEW j \in 1..n PROVE g[r[j]] = o[j]
  <2>1. (j < n /\ j + 1 \in 1..n /\ j \in 1..(n - 1) /\ j + 1 # 1) \/ j = n
    BY <1>1
  <2>2. CASE j < n
    <3>1. q[j + 1] \in Lines /\ q[j + 1] # q[1]
      BY <1>1, <2>1, <2>2
    <3>2. g[r[j]] = h[q[j + 1]]
      BY <1>2, <2>2, <3>1 DEF Refilled
    <3> QED BY <1>1, <1>3, <1>4, <1>5, <2>1, <2>2, <3>2
  <2>3. CASE j = n
    BY <1>1, <1>2, <1>5, <2>3 DEF Refilled
  <2> QED BY <2>1, <2>2, <2>3
<1> HIDE DEF n
<1> QED BY <1>6, <1>7, <1>8 DEF o, t, p, r

\* Every access of the simulator is one of the LRU cache.
LEMMA AccessIsLru ==
    ASSUME Arrays, Arrays', NEW L \in [Sets -> Seq(Lines)], NEW M \in [Sets -> Seq(Lines)],
           Lists(L), Lists(M)', NEW x \in Words, x % 2^s \in Sets,
           HitStep(L, M, x) \/ FillStep(L, M, x) \/ EvictStep(L, M, x)
    PROVE  Lru!Hit(x) \/ Lru!Fill(x) \/ Lru!Evict(x)
<1> DEFINE i == x % 2^s
           q == L[i]
<1>1. PICK h \in [Lines -> Words] : h = holds
  BY DEF Arrays
<1>2. PICK g \in [Lines -> Words] : g = holds'
  BY DEF Arrays
<1>3. /\ Order = [j \in Sets |-> Named(L[j], h)]
      /\ Order' = [j \in Sets |-> Named(M[j], g)]
  BY <1>1, <1>2, OrderIs, OrderIsThen
<1>4. /\ i \in Sets /\ q \in Seq(Lines) /\ Len(q) \in Nat
      /\ \A j \in Sets : /\ L[j] \in Seq(Lines)
                         /\ \A k \in 1..Len(L[j]) : L[j][k] \in Lines /\ L[j][k] <= used
      /\ \A k, m \in 1..Len(q) : q[k] = q[m] => k = m
  <2>1. \A j \in Sets : /\ L[j] \in Seq(Lines)
                        /\ \A k \in 1..Len(L[j]) : L[j][k] \in Lines /\ L[j][k] <= used
    BY DEF Lists, Sound
  <2>2. Sound(q, i)
    BY DEF Lists
  <2>3. \A k, m \in 1..Len(q) : q[k] = q[m] => k = m
    BY <2>2, SoundDistinct
  <2> QED BY <2>1, <2>3
<1>5. Order[i] = Named(q, h) /\ Len(Order[i]) = Len(q) /\ \A k \in 1..Len(q) : Order[i][k] = h[q[k]]
  <2>1. Order[i] = Named(q, h)
    BY <1>3, <1>4
  <2> HIDE DEF q, i
  <2> QED BY <1>4, <2>1, NamedIs
\* Of the other sets nothing changes.
<1>6. ASSUME NEW r, M = [L EXCEPT ![i] = r], NEW c, Named(r, g) = c,
             \A j \in Sets \ {i} : \A k \in 1..Len(L[j]) : g[L[j][k]] = h[L[j][k]]
      PROVE  Order' = [Order EXCEPT ![i] = c]
  <2>1. \A j \in Sets \ {i} : Named(L[j], g) = Named(L[j], h)
    BY <1>6 DEF Named
  <2> HIDE DEF i
  <2>2. M[i] = r /\ \A j \in Sets \ {i} : M[j] = L[j]
    BY <1>4, <1>6
  <2> QED BY <1>3, <1>4, <1>6, <2>1, <2>2
<1>7. CASE HitStep(L, M, x)
  <2>1. PICK k \in 1..Len(q) : holds[q[k]] = x /\ M = [L EXCEPT ![i] = Moved(q, k)]
    BY <1>7 DEF HitStep
  <2>2. g = h
    BY <1>1, <1>2, <1>7 DEF HitStep
  <2>3. Named(Moved(q, k), g) = Lru!ToEnd(Order[i], k)
    <3> HIDE DEF q
    <3> QED BY <1>4, <1>5, <2>2, NamedMoved, SMTT(40)
  <2>4. Order' = [Order EXCEPT ![i] = Lru!ToEnd(Order[i], k)]
    <3> HIDE DEF q, i
    <3> QED BY <1>6, <2>1, <2>2, <2>3
  <2>5. k \in 1..Len(Order[i]) /\ Order[i][k] = x
    BY <1>1, <1>5, <2>1
  <2> QED BY <1>7, <2>4, <2>5 DEF Lru!Hit, HitStep
<1>8. ~Found(L, x) => Lru!Absent(x)
  BY <1>1, <1>5 DEF Found, Lru!Absent
<1>9. CASE FillStep(L, M, x)
  <2>1. PICK u \in Lines : /\ u = used + 1 /\ M = [L EXCEPT ![i] = Append(q, u)]
                           /\ holds' = [holds EXCEPT ![u] = x]
    BY <1>9 DEF FillStep
  <2>2. g = [h EXCEPT ![u] = x]
    BY <1>1, <1>2, <2>1
  <2>3. \A j \in Sets : \A k \in 1..Len(L[j]) : L[j][k] # u
    <3> SUFFICES ASSUME NEW j \in Sets, NEW k \in 1..Len(L[j]) PROVE L[j][k] # u
      OBVIOUS
    <3>1. L[j][k] \in Nat /\ L[j][k] <= used
      BY <1>4, NoLine
    <3>2. used \in Int
      BY DEF Arrays
    <3> QED BY <2>1, <3>1, <3>2
  <2>4. Named(Append(q, u), g) = Append(Order[i], x)
    <3>1. \A k \in 1..Len(q) : q[k] # u
      BY <1>4, <2>3
    <3>2. q \in Seq(Lines)
      BY <1>4
    <3> HIDE DEF q, i
    <3>3. Refilled(g, h, u, x)
      BY <2>2 DEF Refilled
    <3> DEFINE r == Append(q, u)
    <3>4. /\ r \in Seq(Lines) /\ Len(r) = Len(q) + 1 /\ r[Len(q) + 1] = u
          /\ \A k \in 1..Len(q) : r[k] = q[k]
      BY <3>2
    <3> HIDE DEF r
    <3>5. Grown(q, r, u, h, g, x)
      BY <3>1, <3>2, <3>3, <3>4 DEF Grown
    <3>6. Named(r, g) = Append(Named(q, h), x)
      BY <3>5, NamedAppend
    <3> QED BY <1>5, <3>6 DEF r
  <2>5. Order' = [Order EXCEPT ![i] = Append(Order[i], x)]
    <3>1. \A j \in Sets : \A k \in 1..Len(L[j]) : g[L[j][k]] = h[L[j][k]]
      BY <1>4, <2>2, <2>3
    <3> HIDE DEF q, i
    <3> QED BY <1>6, <2>1, <2>4, <3>1
  <2> QED BY <1>5, <1>8, <1>9, <2>5 DEF Lru!Fill, FillStep
<1>10. CASE EvictStep(L, M, x)
  <2>1. /\ Len(q) = E /\ M = [L EXCEPT ![i] = Moved(q, 1)] /\ g = [h EXCEPT ![q[1]] = x]
    BY <1>1, <1>2, <1>10 DEF EvictStep
  <2>2. Len(q) # 0 /\ 1 \in 1..Len(q)
    BY <2>1, Powers
  <2>3. Named(Moved(q, 1), g) = Append(Tail(Order[i]), x)
    <3>1. q \in Seq(Lines) /\ \A k, m \in 1..Len(q) : q[k] = q[m] => k = m
      BY <1>4
    <3> HIDE DEF q, i
    <3>2. Refilled(g, h, q[1], x)
      BY <2>1, <2>2, <3>1 DEF Refilled
    <3>3. Named(Moved(q, 1), g) = Append(Tail(Named(q, h)), x)
      BY <2>2, <3>1, <3>2, NamedEvict, ZenonT(40)
    <3> QED BY <1>5, <3>3
  <2>4. Order' = [Order EXCEPT ![i] = Append(Tail(Order[i]), x)]
    <3>1. ASSUME NEW j \in Sets \ {i}, NEW k \in 1..Len(L[j]) PROVE L[j][k] # q[1]
      <4>1. Sound(L[j], j) /\ Sound(q, i)
        BY DEF Lists
      <4> QED BY <2>2, <4>1, Apart
    <3>2. \A j \in Sets \ {i} : \A k \in 1..Len(L[j]) : g[L[j][k]] = h[L[j][k]]
      <4> HIDE DEF q, i
      <4> QED BY <1>4, <2>1, <3>1
    <3> HIDE DEF q, i
    <3> QED BY <1>6, <2>1, <2>3, <3>2
  <2> QED BY <1>5, <1>8, <1>10, <2>4 DEF Lru!Evict, EvictStep
<1> QED BY <1>7, <1>9, <1>10

----------------------------------------------------------------------------
(* Results.                                                                *)

\* After every access the lists of lines and their pointers are those of a
\* cache of the size asked for.
THEOREM Invariance == Spec => []IInv
BY InitIInv, NextIInv, PTL DEF Spec

\* The variables have their types.
THEOREM TypeCorrect == Spec => []TypeOK
<1>1. IInv => TypeOK
  BY AddrsAreWords DEF IInv, Arrays, TypeOK, Words
<1> QED BY <1>1, Invariance, PTL

\* The list of every set ends, after at most E lines, in the line its tail
\* points to; no line is in it twice, no two of its lines have the same tag,
\* and it holds blocks of this set only.
THEOREM ListsStaySound == Spec => []ListsSound
<1>1. IInv => ListsSound
  <2> SUFFICES ASSUME IInv, NEW i \in Sets
               PROVE  \E q \in AllLists :
                         /\ IsList(q, i)
                         /\ q # <<>> => tail_line[i] = q[Len(q)]
                         /\ \A k, m \in 1..Len(q) : tag[q[k]] = tag[q[m]] => k = m
                         /\ \A k \in 1..Len(q) : holds[q[k]] % 2^s = i /\ q[k] <= used
    BY DEF ListsSound
  <2>1. PICK L \in [Sets -> Seq(Lines)] : Lists(L)
    BY DEF IInv
  <2> DEFINE q == L[i]
  <2>2. Sound(q, i)
    BY <2>1 DEF Lists
  <2> HIDE DEF q
  <2>3. q \in AllLists /\ IsList(q, i)
    BY <2>2, ListsAre DEF Sound, IsList, Walk
  <2> QED BY <2>2, <2>3 DEF Sound
<1> QED BY <1>1, Invariance, PTL

\* The store of a modify hits the line its load has brought in.
THEOREM StoresHit == Spec => ModifyHits
<1>1. IInv /\ [Next]_vars => [Again => hit_count' = hit_count + 1]_vars
  <2> SUFFICES ASSUME IInv, Again PROVE hit_count' = hit_count + 1
    OBVIOUS
  <2>1. PICK a \in Words : a = addr
    BY AddrsAreWords DEF IInv
  <2>2. again /\ access_cache(a) /\ Arrays
    BY <2>1 DEF Again, IInv
  <2>3. PICK L \in [Sets -> Seq(Lines)] : Lists(L) /\ Found(L, BlockOf(a))
    BY <2>1, <2>2 DEF IInv
  <2>4. PICK M : \/ HitStep(L, M, BlockOf(a))
                 \/ FillStep(L, M, BlockOf(a))
                 \/ EvictStep(L, M, BlockOf(a))
    BY <2>2, <2>3, AccessLists
  <2> QED BY <2>3, <2>4 DEF HitStep, FillStep, EvictStep
<1> QED BY <1>1, Invariance, PTL DEF Spec, ModifyHits

\* Seen from outside the lists are an LRU cache of blocks, whatever the
\* options: every access hits, fills or evicts as that cache does, and leaves
\* the blocks of the set in the order of their last use.
THEOREM LruImplemented == Spec => ImplementsLru
<1>1. IInv /\ IInv' /\ [Next]_vars => [Lru!Next]_(Lru!lruVars)
  <2> SUFFICES ASSUME IInv, IInv', [Next]_vars PROVE [Lru!Next]_(Lru!lruVars)
    OBVIOUS
  <2>1. ASSUME NEW a \in Addrs, access_cache(a), addr' = a PROVE Lru!Next
    <3>1. Arrays /\ Arrays' /\ a \in Words
      BY AddrsAreWords DEF IInv
    <3>2. PICK L \in [Sets -> Seq(Lines)] : Lists(L)
      BY DEF IInv
    <3>3. \E M \in [Sets -> Seq(Lines)] :
             /\ Lists(M)' /\ Found(M, BlockOf(a))'
             /\ \/ HitStep(L, M, BlockOf(a))
                \/ FillStep(L, M, BlockOf(a))
                \/ EvictStep(L, M, BlockOf(a))
      BY <2>1, <3>1, <3>2, AccessLists
    <3>4. PICK M \in [Sets -> Seq(Lines)] :
             /\ Lists(M)'
             /\ \/ HitStep(L, M, BlockOf(a))
                \/ FillStep(L, M, BlockOf(a))
                \/ EvictStep(L, M, BlockOf(a))
      BY <3>3
    <3> DEFINE x == BlockOf(a)
    <3>5. x \in Words /\ x % 2^s \in Sets
      BY <3>1, Parts
    <3>6. Lru!Hit(x) \/ Lru!Fill(x) \/ Lru!Evict(x)
      <4> HIDE DEF x
      <4>1. HitStep(L, M, x) \/ FillStep(L, M, x) \/ EvictStep(L, M, x)
        BY <3>4 DEF x
      <4> QED BY <3>1, <3>2, <3>4, <3>5, <4>1, AccessIsLru
    <3>7. BlockOf(addr)' = x /\ x \in {BlockOf(c) : c \in Addrs}
      BY <2>1 DEF BlockOf
    <3> HIDE DEF x
    <3> QED BY <3>6, <3>7 DEF Lru!Next, Lru!Access
  <2>2. CASE Again
    <3>1. PICK a \in Addrs : a = addr
      BY DEF IInv
    <3>2. access_cache(a) /\ addr' = a
      BY <2>2, <3>1 DEF Again
    <3> QED BY <2>1, <3>2
  <2>3. CASE \E modify \in BOOLEAN, a \in Addrs : Record(modify, a)
    <3>1. PICK modify \in BOOLEAN, a \in Addrs : Record(modify, a)
      BY <2>3
    <3> QED BY <2>1, <3>1 DEF Record
  <2>4. CASE UNCHANGED vars
    <3>1. /\ UNCHANGED <<head_line, next, holds>>
          /\ UNCHANGED <<hit_count, miss_count, eviction_count, addr>>
      BY <2>4 DEF vars, lists, counts
    <3>2. Order' = Order /\ BlockOf(addr)' = BlockOf(addr)
      BY <3>1 DEF Order, IsList, BlockOf
    <3> QED BY <3>1, <3>2 DEF Lru!lruVars
  <2> QED BY <2>2, <2>3, <2>4 DEF Next
<1> QED BY <1>1, LruInit, Invariance, PTL DEF Spec, ImplementsLru, Lru!Spec
=============================================================================
