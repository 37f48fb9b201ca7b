----------------------------- MODULE LruProofs -----------------------------
(***************************************************************************)
(* Proofs about two LRU caches of different size under the same accesses,  *)
(* for every two sizes, every set of blocks and every split into sets.     *)
(***************************************************************************)
EXTENDS LruInclusion, TLAPS

----------------------------------------------------------------------------
(* Lemmas about the order of a set.  p is that of the small cache, q that  *)
(* of the large one.                                                       *)

\* Moving an element to the end gives a sequence of the same length.
LEMMA ToEndType ==
    ASSUME NEW q \in Seq(Blocks), NEW k \in 1..Len(q)
    PROVE  /\ C1!ToEnd(q, k) \in Seq(Blocks)
           /\ Len(C1!ToEnd(q, k)) = Len(q)
           /\ C2!ToEnd(q, k) = C1!ToEnd(q, k)
BY DEF C1!ToEnd, C2!ToEnd

\* An append to both keeps the end.
LEMMA BothAppend ==
    ASSUME NEW p \in Seq(Blocks), NEW q \in Seq(Blocks), EndOf(p, q), NEW x \in Blocks
    PROVE  EndOf(Append(p, x), Append(q, x))
BY DEF EndOf

\* So does the loss of the first element: of the small one,
LEMMA SmallTail ==
    ASSUME NEW p \in Seq(Blocks), NEW q \in Seq(Blocks), EndOf(p, q), Len(p) # 0
    PROVE  Tail(p) \in Seq(Blocks) /\ EndOf(Tail(p), q)
<1>1. /\ Tail(p) \in Seq(Blocks)
      /\ Len(Tail(p)) = Len(p) - 1
      /\ \A k \in 1..(Len(p) - 1) : Tail(p)[k] = p[k + 1]
  OBVIOUS
<1>2. \A k \in 1..(Len(p) - 1) : p[k + 1] = q[Len(q) - Len(p) + (k + 1)]
  BY DEF EndOf
<1> QED BY <1>1, <1>2 DEF EndOf

\* and of both.
LEMMA BothTail ==
    ASSUME NEW p \in Seq(Blocks), NEW q \in Seq(Blocks), EndOf(p, q), Len(p) # 0
    PROVE  Tail(q) \in Seq(Blocks) /\ EndOf(Tail(p), Tail(q))
<1>1. /\ Len(q) # 0 /\ Len(p) \in Nat /\ Len(q) \in Nat /\ Len(p) <= Len(q)
      /\ Len(Tail(p)) = Len(p) - 1
      /\ Tail(q) \in Seq(Blocks)
      /\ Len(Tail(q)) = Len(q) - 1
      /\ \A k \in 1..(Len(q) - 1) : Tail(q)[k] = q[k + 1]
      /\ \A k \in 1..(Len(p) - 1) : Tail(p)[k] = p[k + 1]
  BY DEF EndOf
<1>2. ASSUME NEW k \in 1..(Len(p) - 1)
      PROVE  Tail(p)[k] = Tail(q)[(Len(q) - 1) - (Len(p) - 1) + k]
  <2>1. p[k + 1] = q[Len(q) - Len(p) + (k + 1)]
    BY <1>1 DEF EndOf
  <2>2. (Len(q) - 1) - (Len(p) - 1) + k \in 1..(Len(q) - 1)
    BY <1>1
  <2> QED BY <1>1, <2>1, <2>2
<1> QED BY <1>1, <1>2 DEF EndOf

\* The move of the same element to the end of both keeps the end.
LEMMA BothMove ==
    ASSUME NEW p \in Seq(Blocks), NEW q \in Seq(Blocks), EndOf(p, q),
           NEW k \in 1..Len(p)
    PROVE  EndOf(C1!ToEnd(p, k), C1!ToEnd(q, Len(q) - Len(p) + k))
<1> DEFINE d == Len(q) - Len(p)
<1>1. d \in Nat /\ d + k \in 1..Len(q) /\ Len(p) \in Nat /\ Len(q) \in Nat
  BY DEF EndOf
<1>2. /\ Len(C1!ToEnd(p, k)) = Len(p)
      /\ Len(C1!ToEnd(q, d + k)) = Len(q)
  BY <1>1, ToEndType
<1>3. ASSUME NEW j \in 1..Len(p)
      PROVE  C1!ToEnd(p, k)[j] = C1!ToEnd(q, d + k)[d + j]
  <2>1. /\ p[j] = q[d + j] /\ p[k] = q[d + k]
        /\ j < Len(p) => p[j + 1] = q[d + (j + 1)]
    BY DEF EndOf
  <2>2. d + j \in 1..Len(q)
    BY <1>1
  <2>3. C1!ToEnd(p, k)[j] =
            IF j < k THEN p[j] ELSE IF j < Len(p) THEN p[j + 1] ELSE p[k]
    BY DEF C1!ToEnd
  <2>4. C1!ToEnd(q, d + k)[d + j] =
            IF d + j < d + k THEN q[d + j]
            ELSE IF d + j < Len(q) THEN q[(d + j) + 1] ELSE q[d + k]
    BY <2>2 DEF C1!ToEnd
  <2>5. d + j < d + k <=> j < k
    BY <1>1
  <2>6. d + j < Len(q) <=> j < Len(p)
    BY <1>1
  <2>7. (d + j) + 1 = d + (j + 1)
    BY <1>1
  <2> QED BY <2>1, <2>3, <2>4, <2>5, <2>6, <2>7
<1> QED BY <1>1, <1>2, <1>3 DEF EndOf

\* The large cache hits a block that the small one has lost: at the end of
\* both is this block, before it in the large one all else that was there.
LEMMA LargeMove ==
    ASSUME NEW p \in Seq(Blocks), NEW q \in Seq(Blocks), EndOf(p, q), Len(p) # 0,
           NEW k \in 1..(Len(q) - Len(p)), NEW x \in Blocks, q[k] = x
    PROVE  EndOf(Append(Tail(p), x), C1!ToEnd(q, k))
<1> DEFINE d == Len(q) - Len(p)
<1>1. d \in Nat /\ k \in 1..Len(q) /\ Len(p) \in Nat /\ Len(q) \in Nat /\ k <= d
  BY DEF EndOf
<1>2. /\ Len(Append(Tail(p), x)) = Len(p)
      /\ Len(C1!ToEnd(q, k)) = Len(q)
      /\ \A j \in 1..(Len(p) - 1) : Append(Tail(p), x)[j] = p[j + 1]
      /\ Append(Tail(p), x)[Len(p)] = x
  BY <1>1, ToEndType
<1>3. ASSUME NEW j \in 1..Len(p)
      PROVE  Append(Tail(p), x)[j] = C1!ToEnd(q, k)[d + j]
  <2>1. j < Len(p) => p[j + 1] = q[d + (j + 1)]
    BY DEF EndOf
  <2>2. d + j \in 1..Len(q) /\ ~(d + j < k)
    BY <1>1
  <2>3. C1!ToEnd(q, k)[d + j] = IF d + j < Len(q) THEN q[(d + j) + 1] ELSE q[k]
    BY <2>2 DEF C1!ToEnd
  <2>4. d + j < Len(q) <=> j < Len(p)
    BY <1>1
  <2>5. (d + j) + 1 = d + (j + 1)
    BY <1>1
  <2>6. CASE j = Len(p)
    BY <1>2, <2>3, <2>4, <2>6
  <2>7. CASE j \in 1..(Len(p) - 1)
    <3>1. j < Len(p)
      BY <1>1, <2>7
    <3> QED BY <1>2, <2>1, <2>3, <2>4, <2>5, <2>7, <3>1
  <2> QED BY <1>1, <2>6, <2>7
<1> QED BY <1>1, <1>2, <1>3 DEF EndOf

----------------------------------------------------------------------------
(* The invariant.                                                          *)

\* No block is twice in a set.
Distinct(q) == \A k, m \in 1..Len(q) : q[k] = q[m] => k = m

\* One set: p in the small cache, q in the large one.  A small set that has
\* room has lost nothing.
SetOK(p, q) ==
    /\ p \in Seq(Blocks) /\ q \in Seq(Blocks)
    /\ Len(p) <= Small /\ Len(q) <= Large
    /\ Len(p) < Small => Len(p) = Len(q)
    /\ Distinct(q)
    /\ EndOf(p, q)

IInv == /\ order1 = [i \in Sets |-> order1[i]]
        /\ order2 = [i \in Sets |-> order2[i]]
        /\ \A i \in Sets : SetOK(order1[i], order2[i])
        /\ hits1 \in Nat /\ hits2 \in Nat
        /\ MoreLinesMoreHits

\* A block that is not there may be appended,
LEMMA DistinctAppend ==
    ASSUME NEW q \in Seq(Blocks), NEW x \in Blocks, Distinct(q),
           \A k \in 1..Len(q) : q[k] # x
    PROVE  Distinct(Append(q, x))
BY DEF Distinct

\* also when the first one goes,
LEMMA DistinctEvict ==
    ASSUME NEW q \in Seq(Blocks), NEW x \in Blocks, Distinct(q), Len(q) # 0,
           \A k \in 1..Len(q) : q[k] # x
    PROVE  Distinct(Append(Tail(q), x))
<1>1. /\ Tail(q) \in Seq(Blocks) /\ Len(Tail(q)) = Len(q) - 1 /\ Len(q) \in Nat
      /\ \A k \in 1..(Len(q) - 1) : Tail(q)[k] = q[k + 1]
  OBVIOUS
<1>2. Distinct(Tail(q))
  BY <1>1 DEF Distinct
<1>3. \A k \in 1..Len(Tail(q)) : Tail(q)[k] # x
  BY <1>1
<1> QED BY <1>1, <1>2, <1>3, DistinctAppend

\* and any of them may move to the end.
LEMMA DistinctMove ==
    ASSUME NEW q \in Seq(Blocks), NEW k \in 1..Len(q), Distinct(q)
    PROVE  Distinct(C1!ToEnd(q, k))
<1> DEFINE From(j) == IF j < k THEN j ELSE IF j < Len(q) THEN j + 1 ELSE k
<1>1. Len(q) \in Nat /\ Len(C1!ToEnd(q, k)) = Len(q)
  BY ToEndType
<1>2. ASSUME NEW j \in 1..Len(q)
      PROVE  From(j) \in 1..Len(q) /\ C1!ToEnd(q, k)[j] = q[From(j)]
  BY <1>1 DEF C1!ToEnd
<1>3. \A j, m \in 1..Len(q) : From(j) = From(m) => j = m
  BY <1>1
<1> HIDE DEF From
<1>4. ASSUME NEW j \in 1..Len(q), NEW m \in 1..Len(q),
             C1!ToEnd(q, k)[j] = C1!ToEnd(q, k)[m]
      PROVE  j = m
  BY <1>2, <1>3, <1>4 DEF Distinct
<1> QED BY <1>1, <1>4 DEF Distinct

\* What an access of x makes of a set, in either cache.
After(q, x, size, r) ==
    \/ \E k \in 1..Len(q) : q[k] = x /\ r = C1!ToEnd(q, k)
    \/ /\ \A k \in 1..Len(q) : q[k] # x
       /\ \/ Len(q) < size /\ r = Append(q, x)
          \/ Len(q) = size /\ r = Append(Tail(q), x)

\* The set accessed stays as the invariant wants it.
LEMMA AccessOK ==
    ASSUME NEW p, NEW q, SetOK(p, q), NEW x \in Blocks,
           NEW p1, NEW q1, After(p, x, Small, p1), After(q, x, Large, q1)
    PROVE  SetOK(p1, q1)
<1> USE SizesAssumption
<1>0. /\ p \in Seq(Blocks) /\ q \in Seq(Blocks)
      /\ Len(p) \in Nat /\ Len(q) \in Nat
      /\ Len(p) <= Small /\ Len(q) <= Large /\ Len(p) <= Len(q)
      /\ Len(p) < Small => Len(p) = Len(q)
      /\ Distinct(q) /\ EndOf(p, q)
      /\ \A k \in 1..Len(p) : p[k] = q[Len(q) - Len(p) + k]
  BY DEF SetOK, EndOf
<1>1. ASSUME NEW k \in 1..Len(p), p[k] = x, p1 = C1!ToEnd(p, k) PROVE SetOK(p1, q1)
  <2>1. Len(q) - Len(p) + k \in 1..Len(q) /\ q[Len(q) - Len(p) + k] = x
    BY <1>0, <1>1
  <2>2. q1 = C1!ToEnd(q, Len(q) - Len(p) + k)
    BY <2>1, <1>0 DEF After, Distinct
  <2>3. EndOf(p1, q1)
    BY <1>0, <1>1, <2>2, BothMove
  <2> QED BY <1>0, <1>1, <2>1, <2>2, <2>3, ToEndType, DistinctMove DEF SetOK
<1>2. ASSUME \A k \in 1..Len(p) : p[k] # x, Len(p) < Small, p1 = Append(p, x)
      PROVE  SetOK(p1, q1)
  <2>1. \A k \in 1..Len(q) : q[k] # x
    BY <1>0, <1>2, SMTT(30)
  <2>2. Len(q) < Large
    BY <1>0, <1>2
  <2>3. q1 = Append(q, x)
    BY <2>1, <2>2, <1>0 DEF After
  <2> QED BY <1>0, <1>2, <2>1, <2>2, <2>3, BothAppend, DistinctAppend DEF SetOK
<1>3. ASSUME \A k \in 1..Len(p) : p[k] # x, Len(p) = Small, p1 = Append(Tail(p), x)
      PROVE  SetOK(p1, q1)
  <2>1. /\ Len(p) # 0 /\ Len(q) # 0
        /\ Tail(p) \in Seq(Blocks) /\ EndOf(Tail(p), q)
        /\ Tail(q) \in Seq(Blocks) /\ EndOf(Tail(p), Tail(q))
        /\ p1 \in Seq(Blocks) /\ Len(p1) = Small
    BY <1>0, <1>3, SmallTail, BothTail
  <2>2. ASSUME NEW k \in 1..Len(q), q[k] = x, q1 = C1!ToEnd(q, k)
        PROVE  SetOK(p1, q1)
    <3>1. k \in 1..(Len(q) - Len(p))
      <4>1. ASSUME k > Len(q) - Len(p) PROVE FALSE
        <5>1. /\ k - (Len(q) - Len(p)) \in 1..Len(p)
              /\ Len(q) - Len(p) + (k - (Len(q) - Len(p))) = k
          BY <1>0, <4>1
        <5> QED BY <5>1, <1>0, <1>3, <2>2
      <4> QED BY <4>1, <1>0
    <3>2. EndOf(p1, q1)
      BY <3>1, <1>0, <1>3, <2>1, <2>2, LargeMove
    <3>3. q1 \in Seq(Blocks) /\ Len(q1) = Len(q)
      BY <1>0, <2>2, ToEndType
    <3>4. Distinct(q1)
      BY <1>0, <2>2, DistinctMove
    <3> QED BY <1>0, <2>1, <3>2, <3>3, <3>4 DEF SetOK
  <2>3. ASSUME \A k \in 1..Len(q) : q[k] # x, Len(q) < Large, q1 = Append(q, x)
        PROVE  SetOK(p1, q1)
    <3>1. q1 \in Seq(Blocks) /\ Len(q1) <= Large
      BY <1>0, <2>3
    <3>2. EndOf(p1, q1)
      BY <1>0, <1>3, <2>1, <2>3, BothAppend
    <3>3. Distinct(q1)
      BY <1>0, <2>3, DistinctAppend
    <3> QED BY <1>0, <2>1, <3>1, <3>2, <3>3 DEF SetOK
  <2>4. ASSUME \A k \in 1..Len(q) : q[k] # x, Len(q) = Large, q1 = Append(Tail(q), x)
        PROVE  SetOK(p1, q1)
    <3>1. q1 \in Seq(Blocks) /\ Len(q1) = Large
      BY <1>0, <2>1, <2>4
    <3>2. EndOf(p1, q1)
      BY <1>3, <2>1, <2>4, BothAppend
    <3>3. Distinct(q1)
      BY <1>0, <2>1, <2>4, DistinctEvict
    <3> QED BY <1>0, <2>1, <3>1, <3>2, <3>3 DEF SetOK
  <2> QED BY <2>2, <2>3, <2>4 DEF After
<1> QED BY <1>1, <1>2, <1>3 DEF After

\* The abstract access is After, and it changes the counter of hits.
LEMMA AccessIsAfter ==
    ASSUME IInv, NEW x \in Blocks, Access(x)
    PROVE  LET i == SetOf(x)
           IN  /\ After(order1[i], x, Small, order1'[i])
               /\ After(order2[i], x, Large, order2'[i])
               /\ \A j \in Sets \ {i} : order1'[j] = order1[j] /\ order2'[j] = order2[j]
               /\ order1' = [j \in Sets |-> order1'[j]]
               /\ order2' = [j \in Sets |-> order2'[j]]
               /\ hits1' = hits1 \/ hits1' = hits1 + 1
               /\ hits2' = hits2 \/ hits2' = hits2 + 1
               /\ hits1' = hits1 + 1 =>
                     \E k \in 1..Len(order1[i]) : order1[i][k] = x
               /\ hits2' = hits2 =>
                     \A k \in 1..Len(order2[i]) : order2[i][k] # x
<1> DEFINE i == SetOf(x)
<1>0. i \in Sets /\ SetOK(order1[i], order2[i])
  BY BlocksAssumption DEF IInv
<1>1. ASSUME C1!Access(x)
      PROVE  /\ After(order1[i], x, Small, order1'[i])
             /\ \A j \in Sets \ {i} : order1'[j] = order1[j]
             /\ order1' = [j \in Sets |-> order1'[j]]
             /\ hits1' = hits1 \/ hits1' = hits1 + 1
             /\ hits1' = hits1 + 1 => \E k \in 1..Len(order1[i]) : order1[i][k] = x
  <2> DEFINE q == order1[i]
  <2>0. /\ order1 = [j \in Sets |-> order1[j]]
        /\ hits1 \in Nat /\ q \in Seq(Blocks)
    BY <1>0 DEF IInv, SetOK
  <2>1. CASE C1!Hit(x)
    <3>1. PICK k \in 1..Len(q) : q[k] = x /\ order1' = [order1 EXCEPT ![i] = C1!ToEnd(q, k)]
      BY <2>1 DEF C1!Hit
    <3>2. hits1' = hits1 + 1
      BY <2>1 DEF C1!Hit
    <3>3. C1!ToEnd(q, k) = C1!ToEnd(q, k)
      BY <2>0, ToEndType
    <3>4. /\ order1'[i] = C1!ToEnd(q, k)
          /\ \A j \in Sets \ {i} : order1'[j] = order1[j]
          /\ order1' = [j \in Sets |-> order1'[j]]
      BY <1>0, <2>0, <3>1, <3>3
    <3>5. After(q, x, Small, order1'[i])
      BY <3>1, <3>4 DEF After
    <3> QED BY <2>0, <3>1, <3>2, <3>4, <3>5
  <2>2. CASE C1!Fill(x)
    <3>1. /\ \A k \in 1..Len(q) : q[k] # x
          /\ Len(q) < Small /\ hits1' = hits1
          /\ order1' = [order1 EXCEPT ![i] = Append(q, x)]
      BY <2>2 DEF C1!Fill, C1!Absent
    <3>2. /\ order1'[i] = Append(q, x)
          /\ \A j \in Sets \ {i} : order1'[j] = order1[j]
          /\ order1' = [j \in Sets |-> order1'[j]]
      BY <1>0, <2>0, <3>1
    <3>3. After(q, x, Small, order1'[i])
      BY <3>1, <3>2 DEF After
    <3> QED BY <2>0, <3>1, <3>2, <3>3
  <2>3. CASE C1!Evict(x)
    <3>1. /\ \A k \in 1..Len(q) : q[k] # x
          /\ Len(q) = Small /\ hits1' = hits1
          /\ order1' = [order1 EXCEPT ![i] = Append(Tail(q), x)]
      BY <2>3 DEF C1!Evict, C1!Absent
    <3>2. /\ order1'[i] = Append(Tail(q), x)
          /\ \A j \in Sets \ {i} : order1'[j] = order1[j]
          /\ order1' = [j \in Sets |-> order1'[j]]
      BY <1>0, <2>0, <3>1
    <3>3. After(q, x, Small, order1'[i])
      BY <3>1, <3>2 DEF After
    <3> QED BY <2>0, <3>1, <3>2, <3>3
  <2> QED BY <1>1, <2>1, <2>2, <2>3 DEF C1!Access
<1>2. ASSUME C2!Access(x)
      PROVE  /\ After(order2[i], x, Large, order2'[i])
             /\ \A j \in Sets \ {i} : order2'[j] = order2[j]
             /\ order2' = [j \in Sets |-> order2'[j]]
             /\ hits2' = hits2 \/ hits2' = hits2 + 1
             /\ hits2' = hits2 => \A k \in 1..Len(order2[i]) : order2[i][k] # x
  <2> DEFINE q == order2[i]
  <2>0. /\ order2 = [j \in Sets |-> order2[j]]
        /\ hits2 \in Nat /\ q \in Seq(Blocks)
    BY <1>0 DEF IInv, SetOK
  <2>1. CASE C2!Hit(x)
    <3>1. PICK k \in 1..Len(q) : q[k] = x /\ order2' = [order2 EXCEPT ![i] = C2!ToEnd(q, k)]
      BY <2>1 DEF C2!Hit
    <3>2. hits2' = hits2 + 1
      BY <2>1 DEF C2!Hit
    <3>3. C2!ToEnd(q, k) = C1!ToEnd(q, k)
      BY <2>0, ToEndType
    <3>4. /\ order2'[i] = C1!ToEnd(q, k)
          /\ \A j \in Sets \ {i} : order2'[j] = order2[j]
          /\ order2' = [j \in Sets |-> order2'[j]]
      BY <1>0, <2>0, <3>1, <3>3
    <3>5. After(q, x, Large, order2'[i])
      BY <3>1, <3>4 DEF After
    <3> QED BY <2>0, <3>1, <3>2, <3>4, <3>5
  <2>2. CASE C2!Fill(x)
    <3>1. /\ \A k \in 1..Len(q) : q[k] # x
          /\ Len(q) < Large /\ hits2' = hits2
          /\ order2' = [order2 EXCEPT ![i] = Append(q, x)]
      BY <2>2 DEF C2!Fill, C2!Absent
    <3>2. /\ order2'[i] = Append(q, x)
          /\ \A j \in Sets \ {i} : order2'[j] = order2[j]
          /\ order2' = [j \in Sets |-> order2'[j]]
      BY <1>0, <2>0, <3>1
    <3>3. After(q, x, Large, order2'[i])
      BY <3>1, <3>2 DEF After
    <3> QED BY <2>0, <3>1, <3>2, <3>3
  <2>3. CASE C2!Evict(x)
    <3>1. /\ \A k \in 1..Len(q) : q[k] # x
          /\ Len(q) = Large /\ hits2' = hits2
          /\ order2' = [order2 EXCEPT ![i] = Append(Tail(q), x)]
      BY <2>3 DEF C2!Evict, C2!Absent
    <3>2. /\ order2'[i] = Append(Tail(q), x)
          /\ \A j \in Sets \ {i} : order2'[j] = order2[j]
          /\ order2' = [j \in Sets |-> order2'[j]]
      BY <1>0, <2>0, <3>1
    <3>3. After(q, x, Large, order2'[i])
      BY <3>1, <3>2 DEF After
    <3> QED BY <2>0, <3>1, <3>2, <3>3
  <2> QED BY <1>2, <2>1, <2>2, <2>3 DEF C2!Access
<1> QED BY <1>1, <1>2 DEF Access

----------------------------------------------------------------------------
(* The invariant holds.                                                    *)

\* The empty caches satisfy it.
LEMMA InitIInv == Init => IInv
<1> SUFFICES ASSUME Init PROVE IInv
  OBVIOUS
<1> USE SizesAssumption
<1>1. ASSUME NEW i \in Sets PROVE SetOK(order1[i], order2[i])
  <2>1. order1[i] = <<>> /\ order2[i] = <<>>
    BY DEF Init, C1!Init, C2!Init
  <2> QED BY <2>1 DEF SetOK, Distinct, EndOf
<1>2. /\ order1 = [i \in Sets |-> order1[i]]
      /\ order2 = [i \in Sets |-> order2[i]]
      /\ hits1 = 0 /\ hits2 = 0
  BY DEF Init, C1!Init, C2!Init
<1> QED BY <1>1, <1>2 DEF IInv, MoreLinesMoreHits

\* An access of x.  The small cache cannot hit what the large one misses: it
\* holds no block that the large one does not hold.
LEMMA AccessIInv ==
    ASSUME IInv, NEW x \in Blocks, Access(x)
    PROVE  IInv'
<1> DEFINE i == SetOf(x)
<1>1. i \in Sets /\ SetOK(order1[i], order2[i])
  BY BlocksAssumption DEF IInv
<1>2. /\ After(order1[i], x, Small, order1'[i])
      /\ After(order2[i], x, Large, order2'[i])
      /\ \A j \in Sets \ {i} : order1'[j] = order1[j] /\ order2'[j] = order2[j]
      /\ order1' = [j \in Sets |-> order1'[j]]
      /\ order2' = [j \in Sets |-> order2'[j]]
  BY AccessIsAfter
<1>3. /\ hits1' = hits1 \/ hits1' = hits1 + 1
      /\ hits2' = hits2 \/ hits2' = hits2 + 1
      /\ hits1' = hits1 + 1 => \E k \in 1..Len(order1[i]) : order1[i][k] = x
      /\ hits2' = hits2 => \A k \in 1..Len(order2[i]) : order2[i][k] # x
  BY AccessIsAfter
<1>4. SetOK(order1'[i], order2'[i])
  BY <1>1, <1>2, AccessOK
<1>5. \A j \in Sets : SetOK(order1'[j], order2'[j])
  BY <1>2, <1>4 DEF IInv
<1>6. ASSUME NEW k \in 1..Len(order1[i]), order1[i][k] = x
      PROVE  \E m \in 1..Len(order2[i]) : order2[i][m] = x
  <2> DEFINE p == order1[i]  q == order2[i]
  <2>1. p \in Seq(Blocks) /\ q \in Seq(Blocks) /\ EndOf(p, q)
    BY <1>1 DEF SetOK
  <2>2. Len(q) - Len(p) + k \in 1..Len(q)
    <3>1. Len(p) \in Nat /\ Len(q) \in Nat /\ Len(p) <= Len(q)
      BY <2>1 DEF EndOf
    <3>2. k \in 1..Len(p)
      OBVIOUS
    <3> HIDE DEF p, q
    <3> QED BY <3>1, <3>2
  <2>3. q[Len(q) - Len(p) + k] = x
    BY <1>6, <2>1 DEF EndOf
  <2> QED BY <2>2, <2>3
<1>7. hits1 \in Nat /\ hits2 \in Nat /\ hits1 <= hits2
  BY DEF IInv, MoreLinesMoreHits
<1>8. hits1' \in Nat /\ hits2' \in Nat /\ hits1' <= hits2'
  BY <1>3, <1>6, <1>7
<1> QED BY <1>2, <1>5, <1>8 DEF IInv, MoreLinesMoreHits

\* Every step keeps it.
LEMMA NextIInv == IInv /\ [Next]_vars => IInv'
<1>1. ASSUME IInv, Next PROVE IInv'
  BY <1>1, AccessIInv DEF Next
<1>2. ASSUME IInv, UNCHANGED vars PROVE IInv'
  BY <1>2 DEF IInv, vars, MoreLinesMoreHits
<1> QED BY <1>1, <1>2

\* It is true in every state.
THEOREM Invariance == Spec => []IInv
BY InitIInv, NextIInv, PTL DEF Spec

\* Whatever trace csim replays, the cache with fewer lines per set holds the
\* most recently used blocks of the cache with more, in the same order.
THEOREM InclusionHolds == Spec => []Inclusion
<1>1. IInv => Inclusion
  BY DEF IInv, SetOK, Inclusion
<1> QED BY <1>1, Invariance, PTL

\* Whatever trace csim replays, more lines per set never give fewer hits.
THEOREM MoreLinesNeverFewerHits == Spec => []MoreLinesMoreHits
<1>1. IInv => MoreLinesMoreHits
  BY DEF IInv
<1> QED BY <1>1, Invariance, PTL
=============================================================================
