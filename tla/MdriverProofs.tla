---------------------------- MODULE MdriverProofs ---------------------------
(***************************************************************************)
(* What the allocator promises its driver, and what the driver finds out,  *)
(* for every heap, alignment and trace.                                    *)
(***************************************************************************)
EXTENDS MdriverMM, MdriverAny, SequenceTheorems, NumberLemmas

----------------------------------------------------------------------------
(* What a call of mm_malloc asks mem_sbrk for.                             *)

\* An int is half of a word.
LEMMA Halves ==
    /\ W \in Nat \ {0} /\ 2^(W - 1) \in Nat \ {0} /\ 2^W \in Nat \ {0}
    /\ 2^W = 2^(W - 1) + 2^(W - 1)
<1>1. W \in Nat \ {0} /\ W - 1 \in Nat /\ 1 + (W - 1) = W
  BY WAssumption
<1>2. 2^(1 + (W - 1)) = 2^1 * 2^(W - 1)
  BY <1>1, PowerSum
<1>3. 2^1 = 2
  <2>1. IsFiniteSet({1}) /\ Cardinality({1}) = 1
    BY FS_Singleton
  <2>2. Cardinality(SUBSET {1}) = 2^1
    BY <2>1, FS_SUBSET
  <2>3. SUBSET {1} = {{}} \cup {{1}} /\ {{1}} \cap {{}} = {}
    OBVIOUS
  <2>4. /\ IsFiniteSet({{}}) /\ Cardinality({{}}) = 1
        /\ IsFiniteSet({{1}}) /\ Cardinality({{1}}) = 1
    BY FS_Singleton
  <2> DEFINE X == {{}}
             Y == {{1}}
  <2>5. X \cap Y = {} /\ Cardinality({}) = 0
    BY <2>3, FS_EmptySet
  <2> HIDE DEF X, Y
  <2>6. Cardinality(X \cup Y) = 1 + 1 - 0
    <3>1. IsFiniteSet(X) /\ IsFiniteSet(Y) /\ Cardinality(X) = 1 /\ Cardinality(Y) = 1
      BY <2>4 DEF X, Y
    <3>2. Cardinality(X \cup Y) = Cardinality(X) + Cardinality(Y) - Cardinality(X \cap Y)
      BY <3>1, FS_Union
    <3> QED BY <2>5, <3>1, <3>2
  <2> QED BY <2>2, <2>3, <2>6 DEF X, Y
<1>4. 2^(W - 1) \in Nat \ {0} /\ 2^W \in Nat \ {0}
  BY <1>1, PowerType
<1> QED BY <1>1, <1>2, <1>3, <1>4

LEMMA SizesPositive == \A n \in Sizes : n \in Nat \ {0}
BY RequestsAssumption, Halves

\* Rounding down gives the multiple below.
LEMMA DownIs ==
    ASSUME NEW n \in Nat
    PROVE  /\ Down(n) \in Nat /\ Down(n) % ALIGNMENT = 0
           /\ Down(n) <= n /\ n < Down(n) + ALIGNMENT
           /\ \E q \in Nat : Down(n) = ALIGNMENT * q
<1> DEFINE q == n \div ALIGNMENT
           d == ALIGNMENT * q
<1>0. ALIGNMENT \in Nat \ {0}
  BY AlignmentAssumption
<1>1. q \in Int /\ n % ALIGNMENT \in 0..(ALIGNMENT - 1) /\ n = d + (n % ALIGNMENT)
  BY <1>0, DivMod
<1>2. Down(n) = d
  <2>1. q * ALIGNMENT = ALIGNMENT * q
    BY <1>0, <1>1
  <2> QED BY <2>1 DEF Down
<1> HIDE DEF q
<1>3. d \in Int
  BY <1>0, <1>1
<1>4. q \in Nat
  <2>1. q <= -1 => ALIGNMENT * q <= ALIGNMENT * (-1)
    BY <1>0, <1>1, Grows
  <2>2. ALIGNMENT * (-1) = -ALIGNMENT
    BY <1>0
  <2> QED BY <1>0, <1>1, <1>3, <2>1, <2>2
<1>5. d % ALIGNMENT = 0
  <2>1. ALIGNMENT * q <= d /\ d < ALIGNMENT * q + ALIGNMENT
    BY <1>0, <1>3
  <2>2. d % ALIGNMENT = d - ALIGNMENT * q
    BY <1>0, <1>3, <1>4, <2>1, Remainder
  <2> QED BY <1>3, <2>2
<1>6. d \in Nat
  BY <1>0, <1>1, <1>3
<1> HIDE DEF d
<1> QED BY <1>0, <1>1, <1>2, <1>4, <1>5, <1>6 DEF d

\* Multiples add up,
LEMMA AlignedSum ==
    ASSUME NEW m \in Int, NEW n \in Int, m % ALIGNMENT = 0, n % ALIGNMENT = 0
    PROVE  (m + n) % ALIGNMENT = 0
<1>0. ALIGNMENT \in Nat \ {0}
  BY AlignmentAssumption
<1>1. PICK q \in Int : m = ALIGNMENT * q
  <2>1. m \div ALIGNMENT \in Int /\ m = ALIGNMENT * (m \div ALIGNMENT) + (m % ALIGNMENT)
    BY <1>0, DivMod
  <2>2. ALIGNMENT * (m \div ALIGNMENT) \in Int
    BY <1>0, <2>1
  <2> QED BY <2>1, <2>2
<1>2. PICK r \in Int : n = ALIGNMENT * r
  <2>1. n \div ALIGNMENT \in Int /\ n = ALIGNMENT * (n \div ALIGNMENT) + (n % ALIGNMENT)
    BY <1>0, DivMod
  <2>2. ALIGNMENT * (n \div ALIGNMENT) \in Int
    BY <1>0, <2>1
  <2> QED BY <2>1, <2>2
<1>3. m + n = ALIGNMENT * (q + r) /\ q + r \in Int
  BY <1>0, <1>1, <1>2
<1> DEFINE x == m + n
           z == q + r
<1>4. x \in Int /\ z \in Int /\ x = ALIGNMENT * z
  BY <1>3
<1> HIDE DEF x, z
<1>5. ALIGNMENT * z <= x /\ x < ALIGNMENT * z + ALIGNMENT
  BY <1>0, <1>4
<1>6. x % ALIGNMENT = x - ALIGNMENT * z
  BY <1>0, <1>4, <1>5, Remainder
<1> QED BY <1>4, <1>6 DEF x

\* and two of them are at least ALIGNMENT apart.
LEMMA AlignedApart ==
    ASSUME NEW m \in Nat, NEW n \in Nat, m % ALIGNMENT = 0, n % ALIGNMENT = 0, m < n
    PROVE  m + ALIGNMENT <= n
<1>0. ALIGNMENT \in Nat \ {0}
  BY AlignmentAssumption
<1> DEFINE q == m \div ALIGNMENT
           r == n \div ALIGNMENT
<1>1. q \in Int /\ r \in Int /\ m = ALIGNMENT * q + (m % ALIGNMENT)
      /\ n = ALIGNMENT * r + (n % ALIGNMENT)
  BY <1>0, DivMod
<1> HIDE DEF q, r
<1>2. ALIGNMENT * q \in Int /\ ALIGNMENT * r \in Int
  BY <1>0, <1>1
<1>3. m = ALIGNMENT * q /\ n = ALIGNMENT * r
  BY <1>1, <1>2
<1>4. ~(r <= q)
  <2>1. r <= q => ALIGNMENT * r <= ALIGNMENT * q
    BY <1>0, <1>1, Grows
  <2> QED BY <1>2, <1>3, <2>1
<1>5. ALIGNMENT * (q + 1) <= ALIGNMENT * r
  BY <1>0, <1>1, <1>4, Grows
<1>6. ALIGNMENT * (q + 1) = ALIGNMENT * q + ALIGNMENT
  BY <1>0, <1>1
<1> QED BY <1>3, <1>5, <1>6

\* The room for a header holds a size_t and is aligned.
LEMMA HeaderFits ==
    /\ SIZE_T_SIZE \in Nat \ {0} /\ SizeT \in Nat \ {0} /\ SizeT <= SIZE_T_SIZE
    /\ SIZE_T_SIZE % ALIGNMENT = 0 /\ SIZE_T_SIZE + ALIGNMENT <= 2^(W - 1)
<1> DEFINE n == SizeT + (ALIGNMENT - 1)
           H == 2^(W - 1)
<1>0. /\ ALIGNMENT \in Nat \ {0} /\ SizeT \in Nat \ {0} /\ SizeT + ALIGNMENT < H
      /\ H % ALIGNMENT = 0
  BY AlignmentAssumption
<1>1. H \in Nat \ {0} /\ 2^W = H + H /\ 2^W \in Nat \ {0}
  BY Halves
<1> HIDE DEF H
<1>2. n \in Nat /\ n < H /\ n % 2^W = n
  <2>1. n \in Nat /\ n < H /\ n < 2^W
    BY <1>0, <1>1
  <2> QED BY <1>1, <2>1
<1>3. SIZE_T_SIZE = Down(n)
  BY <1>2 DEF SIZE_T_SIZE, ALIGN
<1> HIDE DEF n
<1>4. /\ Down(n) \in Nat /\ Down(n) % ALIGNMENT = 0
      /\ Down(n) <= n /\ n < Down(n) + ALIGNMENT
  BY <1>2, DownIs
<1>5. Down(n) + ALIGNMENT <= H
  BY <1>0, <1>1, <1>2, <1>4, AlignedApart
<1>6. SizeT <= Down(n)
  BY <1>0, <1>4 DEF n
<1> QED BY <1>0, <1>3, <1>4, <1>5, <1>6 DEF H

\* The size of a block: unless it is no positive int, the header and the n
\* bytes fit in and it is aligned.
LEMMA BlockFits ==
    ASSUME NEW n \in Sizes, newsize(n) >= 0
    PROVE  /\ newsize(n) \in Nat /\ n \in Nat \ {0} /\ newsize(n) >= n + SIZE_T_SIZE
           /\ newsize(n) % ALIGNMENT = 0
           /\ newsize(n) < 2^(W - 1)
<1> DEFINE H == 2^(W - 1)
           m == n + SIZE_T_SIZE
           u == Down(m + (ALIGNMENT - 1))
<1>0. /\ ALIGNMENT \in Nat \ {0}
      /\ SIZE_T_SIZE \in Nat \ {0} /\ SIZE_T_SIZE + ALIGNMENT <= H
      /\ n \in Nat \ {0} /\ n < H
  <2>1. n \in 1..(H - 1)
    BY RequestsAssumption
  <2>2. H \in Nat
    BY Halves
  <2> QED BY <2>1, <2>2, AlignmentAssumption, HeaderFits
<1>1. H \in Nat \ {0} /\ 2^W = H + H /\ 2^W \in Nat \ {0}
  BY Halves
<1>2. m \in Nat /\ m + (ALIGNMENT - 1) \in Nat /\ m + (ALIGNMENT - 1) < 2^W /\ m < 2^W
  <2> HIDE DEF H
  <2> QED BY <1>0, <1>1
<1> HIDE DEF H, m
<1>3. m % 2^W = m /\ (m + (ALIGNMENT - 1)) % 2^W = m + (ALIGNMENT - 1)
  BY <1>1, <1>2
<1>4. ALIGN(m) = u /\ newsize(n) = ToInt(u)
  BY <1>3 DEF ALIGN, newsize, m
<1>5. /\ u \in Nat /\ u % ALIGNMENT = 0 /\ u <= m + (ALIGNMENT - 1)
      /\ m + (ALIGNMENT - 1) < u + ALIGNMENT
  BY <1>2, DownIs
<1> HIDE DEF u
<1>6. newsize(n) = u /\ u < H
  <2>1. newsize(n) = IF u < H THEN u ELSE u - 2^W
    BY <1>4 DEF ToInt, H
  <2> QED BY <1>0, <1>1, <1>2, <1>5, <2>1
<1>7. m <= u
  BY <1>0, <1>2, <1>5
<1> QED BY <1>0, <1>5, <1>6, <1>7 DEF m, H

----------------------------------------------------------------------------
(* The calls.                                                              *)

\* A heap whose break can be given to mm_malloc.
Heaps == [brk : mem_start_brk..mem_max_addr, mem : [Addresses -> Int]]
Aligned(h) == h \in Heaps /\ h.brk % ALIGNMENT = 0

\* A heap that is left when a sum has wrapped: its break may lie below its start.
AnyHeaps == [brk : 0..mem_max_addr, mem : [Addresses -> Int]]

\* A block for n bytes is a positive int, and there is room for it.
Fits(h, n) == newsize(n) >= 0 /\ h.brk + newsize(n) <= mem_max_addr

\* r gives a block at the break of h: its size is in the header, and the
\* heap below is as it was.
GivesBlock(h, n, r) ==
    /\ newsize(n) >= 0
    /\ h.brk + newsize(n) <= mem_max_addr
    /\ r.p = h.brk + SIZE_T_SIZE
    /\ Aligned(r.heap)
    /\ r.heap.brk = h.brk + newsize(n)
    /\ r.heap.mem[h.brk] = n
    /\ \A a \in mem_start_brk..(h.brk - 1) : r.heap.mem[a] = h.mem[a]

\* r gives a pointer although there is no room: the sum of break and size runs
\* past the address space, and the break falls.
Wraps(h, n, r) ==
    /\ newsize(n) >= 0
    /\ h.brk + newsize(n) >= 2^W
    /\ r.p = h.brk + SIZE_T_SIZE
    /\ r.heap \in AnyHeaps
    /\ r.heap.brk < h.brk
    /\ \A a \in mem_start_brk..(h.brk - 1) : r.heap.mem[a] = h.mem[a]

\* What a call may give.
Gives(h, n, r) ==
    /\ \/ r.p = NULL /\ r.heap = h
       \/ r.p # NULL /\ GivesBlock(h, n, r)
       \/ r.p # NULL /\ Wraps(h, n, r)
    /\ Fits(h, n) <=> r.p # NULL /\ GivesBlock(h, n, r)

\* The numbers the heap is made of.
LEMMA HeapNumbers ==
    /\ mem_start_brk \in Nat \ {0} /\ mem_max_addr \in Nat /\ mem_start_brk < mem_max_addr
    /\ mem_max_addr < 2^W /\ mem_start_brk % ALIGNMENT = 0 /\ 2^W \in Nat \ {0}
    /\ Addresses = mem_start_brk..(mem_max_addr - 1)
BY HeapAssumption, AlignmentAssumption, Halves DEF mem_max_addr, Addresses

\* mem_sbrk succeeds for the blocks that fit, and for those that wrap.
LEMMA SbrkFits ==
    ASSUME NEW h, Aligned(h), NEW n \in Sizes
    PROVE  /\ sbrkFails(h, newsize(n)) => ~Fits(h, n)
           /\ Fits(h, n) =>
                  /\ Aligned(mem_sbrk(h, newsize(n)))
                  /\ mem_sbrk(h, newsize(n)).brk = h.brk + newsize(n)
                  /\ mem_sbrk(h, newsize(n)).mem = h.mem
           /\ ~Fits(h, n) /\ ~sbrkFails(h, newsize(n)) =>
                  /\ newsize(n) >= 0 /\ h.brk + newsize(n) >= 2^W
                  /\ mem_sbrk(h, newsize(n)) \in AnyHeaps
                  /\ mem_sbrk(h, newsize(n)).brk < h.brk
                  /\ mem_sbrk(h, newsize(n)).mem = h.mem
<1> DEFINE s == newsize(n)
<1>1. /\ h \in Heaps /\ h.brk \in mem_start_brk..mem_max_addr /\ h.mem \in [Addresses -> Int]
      /\ h.brk % ALIGNMENT = 0
  BY DEF Aligned, Heaps
<1>2. s \in Int
  <2>1. (n + SIZE_T_SIZE) % 2^W \in Nat
    BY HeaderFits, RequestsAssumption, Halves
  <2>2. (((n + SIZE_T_SIZE) % 2^W) + (ALIGNMENT - 1)) % 2^W \in Nat
    BY <2>1, AlignmentAssumption, Halves
  <2>3. ALIGN((n + SIZE_T_SIZE) % 2^W) \in Nat
    BY <2>2, DownIs DEF ALIGN
  <2> QED BY <2>3, Halves DEF newsize, ToInt
<1>3. s >= 0 => s \in Nat /\ s % ALIGNMENT = 0 /\ s < 2^W
  <2>1. ASSUME s >= 0 PROVE s \in Nat /\ s % ALIGNMENT = 0 /\ s < 2^(W - 1)
    BY <2>1, BlockFits
  <2> HIDE DEF s
  <2> QED BY <2>1, Halves
<1> HIDE DEF s
<1>4. CASE s < 0
  BY <1>2, <1>4 DEF sbrkFails, Fits, s
<1>5. CASE s >= 0
  <2> DEFINE b == h.brk
             t == mem_max_addr
             d == 2^W
             c == (b + s) % d
  <2>1. /\ b \in Nat /\ s \in Nat /\ d \in Nat \ {0} /\ t \in Nat /\ mem_start_brk \in Nat
        /\ b >= mem_start_brk /\ b <= t /\ t < d /\ s < d /\ s % ALIGNMENT = 0
    <3>1. s \in Nat /\ s < 2^W /\ s % ALIGNMENT = 0
      BY <1>3, <1>5
    <3> QED BY <1>1, <3>1, HeapNumbers
  <2>2. c \in Nat /\ (IF b + s < d THEN c = b + s ELSE c = b + s - d)
    <3> HIDE DEF b, t, d
    <3> QED BY <2>1 DEF c
  <2>3. sbrkFails(h, s) <=> c > t
    BY <1>2, <1>5 DEF sbrkFails
  <2>4. mem_sbrk(h, s) = [brk |-> c, mem |-> h.mem]
    BY <1>1 DEF mem_sbrk, Heaps
  <2>5. Fits(h, n) <=> b + s <= t
    BY <1>5 DEF Fits, s
  <2>6. (b + s) % ALIGNMENT = 0
    <3>1. b \in Int /\ s \in Int /\ b % ALIGNMENT = 0 /\ s % ALIGNMENT = 0
      BY <1>1, <2>1
    <3> HIDE DEF b
    <3> QED BY <3>1, AlignedSum
  <2> HIDE DEF b, t, d, c
  <2>7. sbrkFails(h, s) => ~Fits(h, n)
    BY <2>1, <2>2, <2>3, <2>5
  <2>8. ASSUME Fits(h, n)
        PROVE  Aligned(mem_sbrk(h, s)) /\ mem_sbrk(h, s).brk = b + s /\ mem_sbrk(h, s).mem = h.mem
    <3>1. c = b + s /\ c \in mem_start_brk..t
      BY <2>1, <2>2, <2>5, <2>8
    <3> QED BY <1>1, <2>4, <2>6, <3>1 DEF Aligned, Heaps, t
  <2>9. ASSUME ~Fits(h, n), ~sbrkFails(h, s)
        PROVE  /\ b + s >= d /\ mem_sbrk(h, s) \in AnyHeaps
               /\ mem_sbrk(h, s).brk < b /\ mem_sbrk(h, s).mem = h.mem
    <3>1. c \in 0..t /\ c < b /\ b + s >= d
      BY <2>1, <2>2, <2>3, <2>5, <2>9
    <3> QED BY <1>1, <2>4, <3>1 DEF AnyHeaps, t
  <2> QED BY <1>5, <2>7, <2>8, <2>9 DEF s, b, d
<1> QED BY <1>2, <1>4, <1>5

\* A heap with header and fill written is still one.
LEMMA FilledIs ==
    ASSUME NEW m \in [Addresses -> Int], NEW p \in Int, NEW v \in Int, NEW n \in Int
    PROVE  Filled(m, p, v, n) \in [Addresses -> Int]
BY DEF Filled

\* mm_malloc gives a block that fits, a pointer to one that wraps, or nothing.
LEMMA MallocGives ==
    ASSUME NEW h, Aligned(h), NEW n \in Sizes, NEW r, r = mm_malloc(h, n)
    PROVE  Gives(h, n, r)
<1> DEFINE s == newsize(n)
           h1 == mem_sbrk(h, s)
           m == Filled(h1.mem, h.brk, n, SizeT)
<1>0. /\ h.brk \in mem_start_brk..mem_max_addr /\ n \in Nat \ {0} /\ s = newsize(n)
      /\ mem_start_brk \in Nat \ {0} /\ mem_max_addr \in Nat /\ mem_max_addr < 2^W
      /\ 2^W \in Nat /\ h.mem \in [Addresses -> Int]
  BY RequestsAssumption, HeapNumbers DEF Aligned, Heaps
<1>1. r = IF sbrkFails(h, s) THEN Returns(NULL, h)
          ELSE Returns(h.brk + SIZE_T_SIZE, [h1 EXCEPT !.mem = m])
  BY DEF mm_malloc
<1> HIDE DEF s
<1>2. CASE sbrkFails(h, s)
  <2>1. r.p = NULL /\ r.heap = h
    BY <1>1, <1>2 DEF Returns
  <2>2. ~Fits(h, n)
    BY <1>0, <1>2, SbrkFits
  <2> QED BY <2>1, <2>2 DEF Gives
<1>3. ASSUME ~sbrkFails(h, s), h1.mem = h.mem
      PROVE  /\ m \in [Addresses -> Int] /\ r.p # NULL /\ r.p = h.brk + SIZE_T_SIZE
             /\ r.heap = [h1 EXCEPT !.mem = m]
             /\ \A a \in mem_start_brk..(h.brk - 1) : m[a] = h.mem[a]
  <2>1. m \in [Addresses -> Int]
    <3>1. h.brk \in Int /\ n \in Int /\ SizeT \in Int
      BY <1>0, HeaderFits
    <3> QED BY <1>0, <1>3, <3>1, FilledIs
  <2>2. \A a \in mem_start_brk..(h.brk - 1) : m[a] = h.mem[a]
    <3>1. \A a \in mem_start_brk..(h.brk - 1) : a \in Addresses /\ a \notin h.brk..(h.brk + SizeT - 1)
      BY <1>0, HeaderFits, HeapNumbers
    <3> QED BY <1>3, <3>1 DEF Filled
  <2> HIDE DEF m, h1
  <2>3. r.p = h.brk + SIZE_T_SIZE /\ r.heap = [h1 EXCEPT !.mem = m]
    BY <1>1, <1>3 DEF Returns, h1
  <2>4. r.p # NULL
    BY <1>0, <2>3, HeaderFits DEF NULL
  <2> QED BY <2>1, <2>2, <2>3, <2>4
<1>4. CASE ~sbrkFails(h, s) /\ Fits(h, n)
  <2>1. /\ s >= 0 /\ h.brk + s <= mem_max_addr
        /\ Aligned(h1) /\ h1.brk = h.brk + s /\ h1.mem = h.mem
    BY <1>0, <1>4, SbrkFits DEF Fits
  <2>2. s \in Nat /\ s >= n + SIZE_T_SIZE
    BY <1>0, <2>1, BlockFits
  <2>3. m[h.brk] = n
    <3>1. h.brk \in Addresses /\ h.brk \in h.brk..(h.brk + SizeT - 1)
      BY <1>0, <2>1, <2>2, HeaderFits, HeapNumbers, SMTT(30)
    <3> QED BY <3>1 DEF Filled
  <2>4. /\ m \in [Addresses -> Int] /\ r.p # NULL /\ r.p = h.brk + SIZE_T_SIZE
        /\ r.heap = [h1 EXCEPT !.mem = m]
        /\ \A a \in mem_start_brk..(h.brk - 1) : m[a] = h.mem[a]
    BY <1>3, <1>4, <2>1
  <2> HIDE DEF m, h1
  <2>5. /\ r.heap.mem = m /\ r.heap.brk = h1.brk /\ Aligned(r.heap)
    <3>1. h1 \in Heaps /\ h1.brk % ALIGNMENT = 0
      BY <2>1 DEF Aligned
    <3> QED BY <2>4, <3>1 DEF Aligned, Heaps
  <2>6. GivesBlock(h, n, r)
    BY <1>0, <2>1, <2>3, <2>4, <2>5 DEF GivesBlock
  <2> QED BY <1>4, <2>4, <2>6 DEF Gives
<1>5. CASE ~sbrkFails(h, s) /\ ~Fits(h, n)
  <2>1. /\ s >= 0 /\ h.brk + s >= 2^W
        /\ h1 \in AnyHeaps /\ h1.brk < h.brk /\ h1.mem = h.mem
    BY <1>0, <1>5, SbrkFits
  <2>2. /\ m \in [Addresses -> Int] /\ r.p # NULL /\ r.p = h.brk + SIZE_T_SIZE
        /\ r.heap = [h1 EXCEPT !.mem = m]
        /\ \A a \in mem_start_brk..(h.brk - 1) : m[a] = h.mem[a]
    BY <1>3, <1>5, <2>1
  <2> HIDE DEF m, h1
  <2>3. r.heap.mem = m /\ r.heap.brk = h1.brk /\ r.heap \in AnyHeaps
    BY <2>1, <2>2 DEF AnyHeaps
  <2>4. Wraps(h, n, r)
    BY <1>0, <2>1, <2>2, <2>3 DEF Wraps
  <2>5. ~GivesBlock(h, n, r)
    BY <1>5 DEF GivesBlock, Fits
  <2> QED BY <1>5, <2>2, <2>4, <2>5 DEF Gives
<1> QED BY <1>2, <1>4, <1>5

\* mm_realloc gives what mm_malloc does: what it copies was inside.
LEMMA ReallocGives ==
    ASSUME NEW h, Aligned(h), NEW n \in Sizes, NEW ptr \in Int,
           ptr - SIZE_T_SIZE \in mem_start_brk..(h.brk - 1),
           h.mem[ptr - SIZE_T_SIZE] \in Nat, ptr + h.mem[ptr - SIZE_T_SIZE] <= h.brk,
           NEW r, r = mm_realloc(h, ptr, n)
    PROVE  Gives(h, n, r)
<1> DEFINE g == mm_malloc(h, n)
           old == g.heap.mem[ptr - SIZE_T_SIZE]
           copySize == IF n < old THEN n ELSE old
           m == Copied(g.heap.mem, g.p, ptr, copySize)
<1>1. Gives(h, n, g)
  BY MallocGives
<1>2. r = IF g.p = NULL THEN g ELSE Returns(g.p, [g.heap EXCEPT !.mem = m])
  BY DEF mm_realloc, mm_free
<1> HIDE DEF g
<1>3. CASE g.p = NULL
  BY <1>1, <1>2, <1>3
<1>4. CASE g.p # NULL
  <2>1. GivesBlock(h, n, g) \/ Wraps(h, n, g)
    BY <1>1, <1>4 DEF Gives
  <2>2. old = h.mem[ptr - SIZE_T_SIZE] /\ old \in Nat
    BY <2>1 DEF GivesBlock, Wraps
  <2>3. /\ h.brk \in mem_start_brk..mem_max_addr /\ n \in Nat \ {0}
        /\ mem_start_brk \in Nat \ {0} /\ mem_max_addr \in Nat
        /\ SIZE_T_SIZE \in Nat \ {0}
    BY RequestsAssumption, HeapNumbers, HeaderFits DEF Aligned, Heaps
  <2>4. g.heap.mem \in [Addresses -> Int] /\ g.p = h.brk + SIZE_T_SIZE
    BY <2>1 DEF GivesBlock, Wraps, Aligned, Heaps, AnyHeaps
  <2> HIDE DEF old
  <2>5. copySize \in Nat /\ copySize <= n /\ copySize <= old
    BY <2>2, <2>3
  <2> HIDE DEF copySize
  <2>6. ASSUME NEW a \in Addresses, a \in g.p..(g.p + copySize - 1)
        PROVE  ptr + (a - g.p) \in Addresses
    <3>1. /\ ptr - SIZE_T_SIZE >= mem_start_brk
          /\ ptr + old <= h.brk /\ h.brk <= mem_max_addr
      BY <2>2, <2>3
    <3>2. a \in Int /\ g.p \in Int /\ a - g.p >= 0 /\ a - g.p <= copySize - 1
      BY <2>3, <2>4, <2>5, <2>6
    <3> DEFINE d == a - g.p
    <3>3. d \in Int /\ d >= 0 /\ d <= copySize - 1
      BY <3>2
    <3> HIDE DEF d
    <3>4. ptr + d \in Int /\ ptr + d >= mem_start_brk
      BY <2>3, <3>1, <3>3
    <3>5. ptr + d <= mem_max_addr - 1
      BY <2>2, <2>3, <2>5, <3>1, <3>3
    <3>6. ptr + d \in Addresses
      BY <2>3, <3>4, <3>5 DEF Addresses
    <3> QED BY <3>6 DEF d
  <2>7. m \in [Addresses -> Int] /\ \A a \in Addresses : a < g.p => m[a] = g.heap.mem[a]
    <3>1. \A a \in Addresses : a \in Int /\ (a < g.p => a \notin g.p..(g.p + copySize - 1))
      BY <2>3, <2>4, <2>5, HeapNumbers, SMTT(30)
    <3> QED BY <2>4, <2>6, <3>1 DEF Copied
  <2> HIDE DEF m
  <2>8. r.p = g.p /\ r.heap = [g.heap EXCEPT !.mem = m]
    BY <1>2, <1>4 DEF Returns
  <2>9. \A a \in mem_start_brk..(h.brk - 1) : m[a] = h.mem[a]
    <3>1. ASSUME NEW a \in mem_start_brk..(h.brk - 1) PROVE a \in Addresses /\ a < g.p
      <4>1. a \in Int /\ mem_start_brk <= a /\ a <= h.brk - 1
        BY <2>3
      <4> QED BY <2>3, <2>4, <4>1 DEF Addresses
    <3> QED BY <2>1, <2>7, <3>1 DEF GivesBlock, Wraps
  <2>10. CASE GivesBlock(h, n, g)
    <3>1. g.heap \in Heaps /\ g.heap.brk % ALIGNMENT = 0
      BY <2>10 DEF GivesBlock, Aligned
    <3>2. r.heap.mem = m /\ r.heap.brk = g.heap.brk /\ r.heap \in Heaps
      BY <2>7, <2>8, <3>1 DEF Heaps
    <3>3. h.brk \in Addresses /\ h.brk < g.p
      <4>1. h.brk + newsize(n) <= mem_max_addr /\ newsize(n) \in Nat /\ newsize(n) # 0
        BY <2>3, <2>10, BlockFits DEF GivesBlock
      <4>2. h.brk < g.p
        BY <2>3, <2>4
      <4>3. h.brk <= mem_max_addr - 1
        <5>1. h.brk \in Int /\ mem_max_addr \in Int
          BY <2>3
        <5> QED BY <4>1, <5>1
      <4> QED BY <2>3, <4>2, <4>3 DEF Addresses
    <3>4. m[h.brk] = n
      BY <2>7, <2>10, <3>3 DEF GivesBlock
    <3>5. GivesBlock(h, n, r)
      BY <2>8, <2>9, <2>10, <3>1, <3>2, <3>4 DEF GivesBlock, Aligned
    <3> QED BY <1>1, <1>4, <2>8, <2>10, <3>5 DEF Gives
  <2>11. CASE Wraps(h, n, g) /\ ~GivesBlock(h, n, g)
    <3>1. r.heap.mem = m /\ r.heap.brk = g.heap.brk /\ r.heap \in AnyHeaps
      BY <2>7, <2>8, <2>11 DEF Wraps, AnyHeaps
    <3>2. Wraps(h, n, r)
      BY <2>8, <2>9, <2>11, <3>1 DEF Wraps
    <3>3. ~Fits(h, n)
      BY <1>1, <2>11 DEF Gives
    <3>4. ~GivesBlock(h, n, r)
      BY <3>3 DEF GivesBlock, Fits
    <3> QED BY <1>4, <2>8, <3>2, <3>3, <3>4 DEF Gives
  <2> QED BY <2>1, <2>10, <2>11
<1> QED BY <1>3, <1>4

----------------------------------------------------------------------------
(* What a trace has allocated.                                             *)

\* The last of the first n requests of t for x.
Last(t, n, x) == F!Max({0} \cup {k \in 1..n : t[k].index = x})

\* There is one, unless it is 0.
LEMMA LastIs ==
    ASSUME NEW t, NEW n \in Nat, NEW x
    PROVE  /\ Last(t, n, x) \in 0..n
           /\ Last(t, n, x) # 0 => t[Last(t, n, x)].index = x
           /\ \A k \in 1..n : t[k].index = x => k <= Last(t, n, x)
<1> DEFINE K == {k \in 1..n : t[k].index = x}
           D == {d \in 1..n : \E k \in K : d <= k}
<1>1. PICK c \in 0..n : D = 1..c
  <2>1. D \in SUBSET (1..n)
    OBVIOUS
  <2>2. ASSUME NEW d \in D, NEW e \in 1..d PROVE e \in D
    <3>1. PICK k \in K : d <= k
      OBVIOUS
    <3>2. e <= k /\ e \in 1..n
      BY <3>1
    <3> QED BY <3>2
  <2> HIDE DEF D
  <2> QED BY <2>1, <2>2, LowerPart
<1>2. ASSUME NEW k \in K PROVE k <= c
  <2>1. k \in D
    OBVIOUS
  <2> QED BY <1>1, <2>1
<1>3. c # 0 => c \in K
  <2> SUFFICES ASSUME c # 0 PROVE c \in K
    OBVIOUS
  <2>1. c \in D
    BY <1>1
  <2>2. PICK k \in K : c <= k
    BY <2>1
  <2>3. k <= c /\ k \in Int
    BY <1>2
  <2>4. k = c
    BY <2>2, <2>3
  <2> QED BY <2>4
<1> DEFINE T == {0} \cup K
<1>4. c \in T /\ \A y \in T : c >= y
  BY <1>2, <1>3
<1>5. F!Max(T) \in T /\ \A y \in T : F!Max(T) >= y
  <2> HIDE DEF T
  <2> QED BY <1>4 DEF F!Max
<1>6. Last(t, n, x) \in T /\ \A y \in T : Last(t, n, x) >= y
  BY <1>5 DEF Last
<1>7. \A k \in K : k \in T
  OBVIOUS
<1> QED
  BY <1>6, <1>7

\* and it is the only such number.
LEMMA LastOf ==
    ASSUME NEW t, NEW n \in Nat, NEW x, NEW l \in 0..n,
           l # 0 => t[l].index = x, \A k \in 1..n : t[k].index = x => k <= l
    PROVE  Last(t, n, x) = l
<1> DEFINE m == Last(t, n, x)
<1>1. /\ m \in 0..n
      /\ m # 0 => t[m].index = x
      /\ \A k \in 1..n : t[k].index = x => k <= m
  BY LastIs
<1> HIDE DEF m
<1>2. m <= l
  BY <1>1
<1>3. l <= m
  BY <1>1
<1> QED BY <1>1, <1>2, <1>3 DEF m

LEMMA LastNext ==
    ASSUME NEW t, NEW n \in Nat, NEW x
    PROVE  Last(t, n + 1, x) = IF t[n + 1].index = x THEN n + 1 ELSE Last(t, n, x)
<1> DEFINE m == Last(t, n, x)
<1>1. /\ m \in 0..n
      /\ m # 0 => t[m].index = x
      /\ \A k \in 1..n : t[k].index = x => k <= m
  BY LastIs
<1>2. n + 1 \in Nat /\ \A k \in 1..(n + 1) : k \in 1..n \/ k = n + 1
  OBVIOUS
<1> HIDE DEF m
<1>3. CASE t[n + 1].index = x
  <2>1. n + 1 \in 0..(n + 1) /\ \A k \in 1..(n + 1) : k <= n + 1
    OBVIOUS
  <2> QED BY <1>2, <1>3, <2>1, LastOf
<1>4. CASE t[n + 1].index # x
  <2>1. m \in 0..(n + 1) /\ \A k \in 1..(n + 1) : t[k].index = x => k <= m
    BY <1>1, <1>2, <1>4
  <2>2. Last(t, n + 1, x) = m
    BY <1>1, <1>2, <2>1, LastOf
  <2> QED BY <1>4, <2>2 DEF m
<1> QED BY <1>3, <1>4

LEMMA LastSame ==
    ASSUME NEW t, NEW u, NEW n \in Nat, \A k \in 1..n : u[k] = t[k], NEW x
    PROVE  Last(u, n, x) = Last(t, n, x)
<1>1. {k \in 1..n : u[k].index = x} = {k \in 1..n : t[k].index = x}
  OBVIOUS
<1> QED BY <1>1 DEF Last

LEMMA Requested == \A n, x : LastRequest(n, x) = Last(trace, n, x)
BY DEF LastRequest, Last

\* What one more request allocates or frees.
LEMMA LiveNext ==
    ASSUME NEW n \in Nat, NEW x \in Ids
    PROVE  /\ trace[n + 1].index = x =>
                  /\ x \in Live(n + 1) <=> trace[n + 1].type # "FREE"
                  /\ SizeOf(n + 1, x) = trace[n + 1].size
           /\ trace[n + 1].index # x =>
                  /\ x \in Live(n + 1) <=> x \in Live(n)
                  /\ SizeOf(n + 1, x) = SizeOf(n, x)
<1>1. LastRequest(n + 1, x) = IF trace[n + 1].index = x THEN n + 1 ELSE LastRequest(n, x)
  BY LastNext, Requested
<1>2. n + 1 # 0
  OBVIOUS
<1> QED BY <1>1, <1>2 DEF Live, SizeOf

\* Before the first request nothing is allocated.
LEMMA LiveFirst == Live(0) = {}
<1>1. ASSUME NEW x PROVE LastRequest(0, x) = 0
  <2>1. Last(trace, 0, x) \in 0..0
    BY LastIs
  <2> QED BY <2>1, Requested
<1> QED BY <1>1 DEF Live

\* What is allocated has the size of a request.
LEMMA LiveSizes ==
    ASSUME NEW n \in 0..Len(trace), trace \in Seq(Requests), NEW x \in Live(n)
    PROVE  x \in Ids /\ SizeOf(n, x) \in Sizes
<1> DEFINE l == LastRequest(n, x)
<1>1. x \in Ids /\ l # 0 /\ trace[l].type # "FREE"
  BY DEF Live
<1>2. l \in 0..n
  BY LastIs, Requested
<1>3. l \in 1..Len(trace)
  BY <1>1, <1>2
<1> HIDE DEF l
<1>4. trace[l] \in Requests
  BY <1>3
<1>5. trace[l].size \in Sizes
  BY <1>1, <1>4 DEF Requests
<1> QED BY <1>1, <1>5 DEF SizeOf, l

----------------------------------------------------------------------------
(* The invariant.                                                          *)

TypeOK ==
    /\ heap \in AnyHeaps /\ (InPass => Aligned(heap))
    /\ phase \in Phases
    /\ trace \in Seq(Requests)
    /\ i \in Nat \ {0} /\ (InPass => i <= Len(trace) + 1)
    /\ blocks \in [Ids -> Nat]
    /\ errors \in Nat

\* What is moved or freed has been allocated, and what is allocated has not.
TraceOK == \A k \in 1..Len(trace) : trace[k].type = "ALLOC" <=> trace[k].index \notin Live(k - 1)

\* A block after n requests: its place, its contents, and where others are.
Placed(n, x) ==
    /\ blocks[x] % ALIGNMENT = 0
    /\ blocks[x] - SIZE_T_SIZE >= mem_start_brk
    /\ blocks[x] + SizeOf(n, x) <= heap.brk
Kept(n, x) ==
    /\ heap.mem[blocks[x] - SIZE_T_SIZE] = SizeOf(n, x)
    /\ phase = "valid" =>
           \A a \in blocks[x]..(blocks[x] + SizeOf(n, x) - 1) : heap.mem[a] = Fill(x)
Apart(n, x, y) ==
    \/ blocks[x] + SizeOf(n, x) <= blocks[y] - SIZE_T_SIZE
    \/ blocks[y] + SizeOf(n, y) <= blocks[x] - SIZE_T_SIZE

BlocksOK ==
    InPass => \A x \in Live(i - 1) :
                  /\ Placed(i - 1, x) /\ Kept(i - 1, x)
                  /\ \A y \in Live(i - 1) \ {x} : Apart(i - 1, x, y)

\* brk[k] is the break after k of the first n requests, none of which failed.
Breaks(brk, n) ==
    /\ brk[0] = mem_start_brk
    /\ \A k \in 1..n :
          IF trace[k].type = "FREE" THEN brk[k] = brk[k - 1]
          ELSE /\ newsize(trace[k].size) >= 0
               /\ brk[k] = brk[k - 1] + newsize(trace[k].size)
               /\ brk[k] <= mem_max_addr

\* All passes move the break alike.
BreaksOK ==
    InPass => \E brk \in [0..Len(trace) -> Nat] :
                  /\ Breaks(brk, IF phase = "valid" THEN i - 1 ELSE Len(trace))
                  /\ heap.brk = brk[i - 1]

IInv == TypeOK /\ TraceOK /\ BlocksOK /\ BreaksOK

----------------------------------------------------------------------------
(* The kinds of steps.                                                     *)

\* A request of a pass gets the block r,
GetsBlock(r) ==
    /\ InPass /\ i <= Len(trace) /\ op.type # "FREE"
    /\ GivesBlock(heap, op.size, r)
    /\ heap' \in Heaps /\ heap'.brk = r.heap.brk
    /\ \A a \in mem_start_brk..(r.p - 1) : heap'.mem[a] = r.heap.mem[a]
    /\ phase = "valid" => \A a \in r.p..(r.p + op.size - 1) : heap'.mem[a] = Fill(op.index)
    /\ blocks' = [blocks EXCEPT ![op.index] = r.p]
    /\ i' = i + 1
    /\ UNCHANGED <<phase, trace, errors>>

\* frees one,
Frees ==
    /\ InPass /\ i <= Len(trace) /\ op.type = "FREE"
    /\ i' = i + 1
    /\ UNCHANGED <<heap, blocks, phase, trace, errors>>

\* a pass starts,
Starts ==
    /\ \/ phase' = "valid"
       \/ phase' \in {"util", "speed"} /\ InPass /\ i > Len(trace)
    /\ heap' = mem_reset_brk(heap) /\ i' = 1
    /\ UNCHANGED <<blocks, trace, errors>>

\* the passes over a trace end,
Ends ==
    /\ phase' = "read" /\ trace' = <<>> /\ i' = 1
    /\ blocks' = [x \in Ids |-> NULL]
    /\ heap' \in AnyHeaps
    /\ heap'.brk < heap.brk =>
           /\ errors' # errors /\ op.type # "FREE"
           /\ newsize(op.size) >= 0 /\ heap.brk + newsize(op.size) >= 2^W
    /\ errors' \in {errors, errors + 1}

\* a request is read.
Reads(o) ==
    /\ phase = "read" /\ trace' = Append(trace, o)
    /\ o.type = "ALLOC" <=> o.index \notin Live(Len(trace))
    /\ UNCHANGED <<heap, phase, i, blocks, errors>>

Idle == UNCHANGED <<heap, phase, trace, i, blocks, errors>>

\* The request at hand.
LEMMA OpIs ==
    ASSUME trace \in Seq(Requests), i \in Nat \ {0}, i <= Len(trace)
    PROVE  /\ op \in Requests /\ i \in 1..Len(trace) /\ op = trace[i] /\ op.index \in Ids
           /\ op.index \in Nat /\ (op.type # "FREE" => op.size \in Sizes /\ op.size \in Nat \ {0})
           /\ op.type \in {"ALLOC", "REALLOC", "FREE"}
<1>1. i \in 1..Len(trace)
  OBVIOUS
<1>2. op \in Requests /\ op = trace[i]
  BY <1>1 DEF op
<1> QED BY <1>1, <1>2, SizesPositive, RequestsAssumption DEF Requests

LEMMA RequestIs ==
    ASSUME TypeOK, i <= Len(trace)
    PROVE  /\ op \in Requests /\ i \in 1..Len(trace) /\ op = trace[i] /\ op.index \in Ids
           /\ op.index \in Nat /\ (op.type # "FREE" => op.size \in Sizes /\ op.size \in Nat \ {0})
           /\ op.type \in {"ALLOC", "REALLOC", "FREE"}
BY OpIs DEF TypeOK

\* What a request for a block gets.
LEMMA CallGives ==
    ASSUME IInv, InPass, i <= Len(trace), NEW r,
           (op.type = "ALLOC" /\ r = malloc) \/ (op.type = "REALLOC" /\ r = realloc)
    PROVE  Gives(heap, op.size, r)
<1>1. /\ op = trace[i] /\ i \in 1..Len(trace) /\ op.index \in Ids
      /\ op.size \in Sizes /\ Aligned(heap)
  BY RequestIs DEF IInv, TypeOK
<1>2. CASE op.type = "ALLOC"
  BY <1>1, <1>2, MallocGives DEF malloc
<1>3. CASE op.type = "REALLOC"
  <2> DEFINE x == op.index
  <2>1. x \in Live(i - 1)
    BY <1>1, <1>3 DEF IInv, TraceOK
  <2>2. Placed(i - 1, x) /\ Kept(i - 1, x)
    BY <2>1 DEF IInv, BlocksOK
  <2>3. SizeOf(i - 1, x) \in Nat \ {0}
    <3>1. i - 1 \in 0..Len(trace) /\ trace \in Seq(Requests)
      BY <1>1 DEF IInv, TypeOK
    <3>2. SizeOf(i - 1, x) \in Sizes
      BY <2>1, <3>1, LiveSizes
    <3> QED BY <3>2, SizesPositive
  <2>4. blocks[x] \in Int /\ heap.brk \in Int /\ mem_start_brk \in Int /\ SIZE_T_SIZE \in Nat \ {0}
    BY <1>1, HeapNumbers, HeaderFits DEF IInv, TypeOK, Aligned, Heaps
  <2> HIDE DEF x
  <2>5. /\ blocks[x] - SIZE_T_SIZE \in mem_start_brk..(heap.brk - 1)
        /\ heap.mem[blocks[x] - SIZE_T_SIZE] \in Nat
        /\ blocks[x] + heap.mem[blocks[x] - SIZE_T_SIZE] <= heap.brk
    BY <2>2, <2>3, <2>4 DEF Placed, Kept
  <2>6. r = mm_realloc(heap, blocks[x], op.size)
    BY <1>3 DEF realloc, x
  <2> DEFINE ptr == blocks[x]
             n == op.size
  <2>7. /\ n \in Sizes /\ ptr \in Int /\ r = mm_realloc(heap, ptr, n)
        /\ ptr - SIZE_T_SIZE \in mem_start_brk..(heap.brk - 1)
        /\ heap.mem[ptr - SIZE_T_SIZE] \in Nat
        /\ ptr + heap.mem[ptr - SIZE_T_SIZE] <= heap.brk
    BY <1>1, <2>4, <2>5, <2>6
  <2> HIDE DEF ptr, n
  <2>8. Gives(heap, n, r)
    BY <1>1, <2>7, ReallocGives
  <2> QED BY <2>8 DEF n
<1> QED BY <1>2, <1>3

\* A pass has a heap with an aligned break.
LEMMA PassHeap ==
    ASSUME TypeOK, InPass
    PROVE  /\ Aligned(heap) /\ heap \in Heaps /\ heap.brk \in mem_start_brk..mem_max_addr
           /\ heap.brk \in Nat
BY HeapNumbers DEF TypeOK, Aligned, Heaps

\* Reject ends the passes, whatever has been got.
LEMMA RejectEnds ==
    ASSUME TypeOK, InPass, NEW rs, NEW r, Reject(rs, r), Gives(heap, op.size, r),
           i <= Len(trace), op.type # "FREE"
    PROVE  Ends
<1>1. Aligned(heap) /\ op.size \in Sizes /\ heap.brk \in Nat /\ heap \in AnyHeaps /\ errors \in Nat
  BY RequestIs, PassHeap DEF TypeOK
<1>2. /\ r.heap \in AnyHeaps
      /\ r.heap.brk < heap.brk => newsize(op.size) >= 0 /\ heap.brk + newsize(op.size) >= 2^W
  <2>1. CASE r.heap = heap
    BY <1>1, <2>1
  <2>2. CASE GivesBlock(heap, op.size, r)
    <3>1. newsize(op.size) \in Nat
      BY <1>1, <2>2, BlockFits DEF GivesBlock
    <3>2. r.heap.brk >= heap.brk
      BY <1>1, <2>2, <3>1 DEF GivesBlock
    <3>3. r.heap \in AnyHeaps
      BY <2>2, HeapNumbers DEF GivesBlock, Aligned, Heaps, AnyHeaps
    <3>4. r.heap.brk \in Int
      BY <1>1, <2>2, <3>1 DEF GivesBlock
    <3> QED BY <1>1, <3>2, <3>3, <3>4
  <2>3. CASE Wraps(heap, op.size, r)
    BY <2>3 DEF Wraps
  <2> QED BY <2>1, <2>2, <2>3 DEF Gives
<1>3. errors' = errors + 1 /\ errors' # errors
  BY <1>1 DEF Reject
<1> QED BY <1>2, <1>3 DEF Reject, NextTrace, Ends

\* add_range refuses a pointer that lies above the break.
LEMMA WrapRefused ==
    ASSUME NEW rs, NEW h, h.brk \in Nat, NEW n, NEW r, Wraps(h, n, r)
    PROVE  ~RangeOK(rs, r.heap, r.p, n)
<1>1. r.p \in Nat /\ r.p > h.brk /\ r.heap.brk \in Int /\ r.heap.brk < h.brk
  BY HeaderFits, HeapNumbers DEF Wraps, AnyHeaps
<1>2. r.p \notin mem_heap_lo..mem_heap_hi(r.heap)
  BY <1>1, HeapNumbers DEF mem_heap_lo, mem_heap_hi
<1> QED BY <1>2 DEF RangeOK

\* So what it accepts is a block.
LEMMA AcceptedIs ==
    ASSUME TypeOK, InPass, NEW rs, NEW r, Gives(heap, op.size, r), r.p # NULL,
           RangeOK(rs, r.heap, r.p, op.size)
    PROVE  GivesBlock(heap, op.size, r)
BY PassHeap, WrapRefused DEF Gives

\* Accept gives the block.
LEMMA AcceptGets ==
    ASSUME TypeOK, NEW rs, NEW r, Accept(rs, r), GivesBlock(heap, op.size, r),
           InPass, i <= Len(trace), op.type # "FREE"
    PROVE  GetsBlock(r)
<1> DEFINE m == Filled(r.heap.mem, r.p, Fill(op.index), op.size)
<1>1. /\ op.index \in Nat /\ op.size \in Nat \ {0} /\ op.size \in Sizes
      /\ heap.brk \in mem_start_brk..mem_max_addr /\ r.heap \in Heaps
      /\ mem_start_brk \in Nat \ {0} /\ mem_max_addr \in Nat /\ SIZE_T_SIZE \in Nat \ {0}
  <2>1. op.index \in Nat /\ op.size \in Nat \ {0} /\ op.size \in Sizes
    BY RequestIs
  <2>2. heap.brk \in mem_start_brk..mem_max_addr /\ r.heap \in Heaps
    BY DEF TypeOK, GivesBlock, Aligned, Heaps
  <2> QED BY <2>1, <2>2, HeapNumbers, HeaderFits
<1>2. /\ newsize(op.size) >= op.size + SIZE_T_SIZE /\ newsize(op.size) \in Nat
      /\ r.p = heap.brk + SIZE_T_SIZE
      /\ heap.brk + newsize(op.size) <= mem_max_addr
  BY <1>1, BlockFits DEF GivesBlock
<1>3. r.p \in Nat /\ r.p >= mem_start_brk /\ r.p + op.size <= mem_max_addr
  <2> DEFINE k == heap.brk
             n == op.size
             w == newsize(n)
  <2>1. /\ k \in Nat /\ k >= mem_start_brk /\ n \in Nat /\ w \in Nat
        /\ w >= n + SIZE_T_SIZE /\ k + w <= mem_max_addr /\ r.p = k + SIZE_T_SIZE
        /\ SIZE_T_SIZE \in Nat /\ mem_start_brk \in Nat /\ mem_max_addr \in Nat
    BY <1>1, <1>2
  <2> HIDE DEF k, n, w
  <2>2. r.p \in Nat /\ r.p >= mem_start_brk /\ r.p + n <= mem_max_addr
    BY <2>1
  <2> QED BY <2>2 DEF n
<1>4. Fill(op.index) \in Int
  BY <1>1 DEF Fill
<1>5. r.heap.mem \in [Addresses -> Int]
  BY <1>1 DEF Heaps
<1>6. /\ m \in [Addresses -> Int]
      /\ \A a \in mem_start_brk..(r.p - 1) : m[a] = r.heap.mem[a]
      /\ \A a \in r.p..(r.p + op.size - 1) : m[a] = Fill(op.index)
  <2>1. \A a \in mem_start_brk..(r.p - 1) : a \in Addresses /\ a \notin r.p..(r.p + op.size - 1)
    BY <1>1, <1>3 DEF Addresses
  <2>2. \A a \in r.p..(r.p + op.size - 1) : a \in Addresses
    BY <1>1, <1>3 DEF Addresses
  <2> QED BY <1>4, <1>5, <2>1, <2>2 DEF Filled
<1> HIDE DEF m
<1>7. heap' = [r.heap EXCEPT !.mem = m]
  BY DEF Accept, m
<1>8. heap' \in Heaps /\ heap'.brk = r.heap.brk /\ heap'.mem = m
  BY <1>1, <1>6, <1>7 DEF Heaps
<1> QED BY <1>6, <1>8 DEF Accept, Remember, passVars, GetsBlock

\* What eval_mm_valid has accepted fits in the later passes.
LEMMA PassFits ==
    ASSUME IInv, InPass, phase # "valid", i <= Len(trace), op.type # "FREE"
    PROVE  Fits(heap, op.size)
<1>1. op = trace[i] /\ i \in 1..Len(trace)
  BY RequestIs DEF IInv
<1>2. PICK brk \in [0..Len(trace) -> Nat] : Breaks(brk, Len(trace)) /\ heap.brk = brk[i - 1]
  BY DEF IInv, BreaksOK
<1> QED BY <1>1, <1>2 DEF Breaks, Fits

\* The later passes take the block as it is.
LEMMA PassGets ==
    ASSUME IInv, InPass, phase # "valid", i <= Len(trace), NEW r,
           (op.type = "ALLOC" /\ r = malloc) \/ (op.type = "REALLOC" /\ r = realloc),
           r.p # NULL, heap' = r.heap, blocks' = [blocks EXCEPT ![op.index] = r.p],
           i' = i + 1, UNCHANGED <<phase, trace, errors>>
    PROVE  GetsBlock(r)
<1>1. GivesBlock(heap, op.size, r)
  BY CallGives, PassFits DEF Gives
<1>2. heap' \in Heaps /\ heap'.brk = r.heap.brk /\ op.type # "FREE"
  BY <1>1 DEF GivesBlock, Aligned
<1> QED BY <1>1, <1>2 DEF GetsBlock

\* A step is one of these.
LEMMA Steps ==
    ASSUME IInv, [Next]_vars
    PROVE  \/ \E r : GetsBlock(r)
           \/ Frees \/ Starts \/ Ends
           \/ \E o \in Requests : Reads(o)
           \/ Idle
<1> USE DEF passVars, recordVars, totals
<1>0. TypeOK
  BY DEF IInv
<1>1. ASSUME NEW o \in Requests, ReadRequest(o) PROVE Reads(o)
  BY <1>1 DEF ReadRequest, Reads
<1>2. ASSUME StartValid PROVE Starts
  BY <1>2 DEF StartValid, Starts
<1>3. ASSUME StartUtil PROVE Starts
  BY <1>3 DEF StartUtil, Starts, InPass
<1>4. ASSUME StartSpeed PROVE Starts
  BY <1>4 DEF StartSpeed, Starts, InPass
<1>5. ASSUME EndSpeed PROVE Ends
  <2>1. heap.brk \in Int
    BY <1>0, HeapNumbers DEF TypeOK, AnyHeaps
  <2> QED BY <1>0, <1>5, <2>1 DEF EndSpeed, NextTrace, Ends, TypeOK
<1>6. ASSUME NEW type, Request("valid", type)
      PROVE  InPass /\ phase = "valid" /\ i <= Len(trace) /\ op.type = type
  BY <1>6 DEF Request, InPass
<1>7. ASSUME ValidAlloc(malloc) PROVE Ends \/ \E r : GetsBlock(r)
  <2> DEFINE r == malloc
  <2>1. InPass /\ i <= Len(trace) /\ op.type = "ALLOC"
    BY <1>6, <1>7 DEF ValidAlloc
  <2>2. Gives(heap, op.size, r)
    BY <2>1, CallGives
  <2> HIDE DEF r
  <2>3. \/ Reject(ranges, r)
        \/ r.p # NULL /\ RangeOK(ranges, r.heap, r.p, op.size) /\ Accept(ranges, r)
    BY <1>7 DEF ValidAlloc, r
  <2>4. CASE Reject(ranges, r)
    BY <1>0, <2>1, <2>2, <2>4, RejectEnds
  <2>5. CASE r.p # NULL /\ RangeOK(ranges, r.heap, r.p, op.size) /\ Accept(ranges, r)
    <3>1. GivesBlock(heap, op.size, r)
      BY <1>0, <2>1, <2>2, <2>5, AcceptedIs
    <3> QED BY <1>0, <2>1, <2>5, <3>1, AcceptGets
  <2> QED BY <2>3, <2>4, <2>5
<1>8. ASSUME ValidRealloc(realloc) PROVE Ends \/ \E r : GetsBlock(r)
  <2> DEFINE r == realloc
             rs == remove_range(ranges, blocks[op.index])
             more == add_range(rs, r.p, op.size)
  <2>1. InPass /\ i <= Len(trace) /\ op.type = "REALLOC"
    BY <1>6, <1>8 DEF ValidRealloc
  <2>2. Gives(heap, op.size, r)
    BY <2>1, CallGives
  <2> HIDE DEF r, rs, more
  <2>3. \/ Reject(ranges, r) \/ Reject(rs, r) \/ Reject(more, r)
        \/ r.p # NULL /\ RangeOK(rs, r.heap, r.p, op.size) /\ Accept(rs, r)
    BY <1>8 DEF ValidRealloc, r, rs, more
  <2>4. CASE Reject(ranges, r)
    BY <1>0, <2>1, <2>2, <2>4, RejectEnds
  <2>5. CASE Reject(rs, r)
    BY <1>0, <2>1, <2>2, <2>5, RejectEnds
  <2>6. CASE Reject(more, r)
    BY <1>0, <2>1, <2>2, <2>6, RejectEnds
  <2>7. CASE r.p # NULL /\ RangeOK(rs, r.heap, r.p, op.size) /\ Accept(rs, r)
    <3>1. GivesBlock(heap, op.size, r)
      BY <1>0, <2>1, <2>2, <2>7, AcceptedIs
    <3> QED BY <1>0, <2>1, <2>7, <3>1, AcceptGets
  <2> QED BY <2>3, <2>4, <2>5, <2>6, <2>7
<1>9. ASSUME ValidFree(free) PROVE Frees
  BY <1>6, <1>9 DEF ValidFree, free, mm_free, Frees
<1>10. ASSUME UtilAlloc(malloc) PROVE \E r : GetsBlock(r)
  <2>1. InPass /\ phase # "valid" /\ i <= Len(trace) /\ op.type = "ALLOC"
    BY <1>10 DEF UtilAlloc, Request, InPass
  <2>2. GetsBlock(malloc)
    BY <1>10, <2>1, PassGets DEF UtilAlloc, Account, Remember
  <2> QED BY <2>2
<1>11. ASSUME UtilRealloc(realloc) PROVE \E r : GetsBlock(r)
  <2>1. InPass /\ phase # "valid" /\ i <= Len(trace) /\ op.type = "REALLOC"
    BY <1>11 DEF UtilRealloc, Request, InPass
  <2>2. GetsBlock(realloc)
    BY <1>11, <2>1, PassGets DEF UtilRealloc, Account, Remember
  <2> QED BY <2>2
<1>12. ASSUME UtilFree(free) PROVE Frees
  BY <1>12 DEF UtilFree, Request, InPass, free, mm_free, Frees
<1>13. ASSUME Request("speed", "ALLOC"), SpeedCall(malloc) PROVE \E r : GetsBlock(r)
  <2>1. InPass /\ phase # "valid" /\ i <= Len(trace) /\ op.type = "ALLOC"
    BY <1>13 DEF Request, InPass
  <2>2. GetsBlock(malloc)
    BY <1>13, <2>1, PassGets DEF SpeedCall
  <2> QED BY <2>2
<1>14. ASSUME Request("speed", "REALLOC"), SpeedCall(realloc) PROVE \E r : GetsBlock(r)
  <2>1. InPass /\ phase # "valid" /\ i <= Len(trace) /\ op.type = "REALLOC"
    BY <1>14 DEF Request, InPass
  <2>2. GetsBlock(realloc)
    BY <1>14, <2>1, PassGets DEF SpeedCall
  <2> QED BY <2>2
<1>15. ASSUME SpeedFree(free) PROVE Frees
  BY <1>15 DEF SpeedFree, Request, InPass, free, mm_free, Frees
<1>16. CASE UNCHANGED vars
  BY <1>16 DEF vars, Idle
<1> QED
  BY <1>1, <1>2, <1>3, <1>4, <1>5, <1>7, <1>8, <1>9, <1>10, <1>11, <1>12, <1>13, <1>14,
     <1>15, <1>16 DEF Next, MainStep, ValidStep, UtilStep, SpeedStep

----------------------------------------------------------------------------
(* Every kind of step keeps the invariant.                                 *)

\* What is allocated is a matter of the requests so far.
LEMMA LiveKept ==
    ASSUME NEW n \in Nat, \A k \in 1..n : trace'[k] = trace[k]
    PROVE  /\ Live(n)' = Live(n)
           /\ \A x \in Live(n) : SizeOf(n, x)' = SizeOf(n, x)
<1>1. ASSUME NEW x PROVE LastRequest(n, x)' = LastRequest(n, x)
  <2>1. Last(trace', n, x) = Last(trace, n, x)
    BY LastSame
  <2>2. LastRequest(n, x)' = Last(trace', n, x)
    BY DEF LastRequest, Last
  <2> QED BY <2>1, <2>2, Requested
<1>2. ASSUME NEW x \in Ids, LastRequest(n, x) # 0
      PROVE  trace'[LastRequest(n, x)] = trace[LastRequest(n, x)]
  <2>1. LastRequest(n, x) \in 0..n
    BY LastIs, Requested
  <2> QED BY <1>2, <2>1
<1>3. \A x \in Live(n) : x \in Ids /\ LastRequest(n, x) # 0
  BY DEF Live
<1> QED BY <1>1, <1>2, <1>3 DEF Live, SizeOf

LEMMA TraceRead ==
    ASSUME trace \in Seq(Requests), TraceOK, NEW o \in Requests, Reads(o)
    PROVE  TraceOK'
<1> DEFINE m == Len(trace)
<1>1. /\ trace \in Seq(Requests) /\ m \in Nat /\ Len(trace') = m + 1
      /\ trace'[m + 1] = o /\ \A k \in 1..m : trace'[k] = trace[k]
  BY DEF Reads
<1>2. o.type = "ALLOC" <=> o.index \notin Live(m)
  BY DEF Reads
<1> HIDE DEF m
<1>3. ASSUME NEW k \in 1..(m + 1) PROVE k - 1 \in Nat /\ Live(k - 1)' = Live(k - 1)
  <2>1. k - 1 \in Nat /\ \A j \in 1..(k - 1) : j \in 1..m
    BY <1>1
  <2>2. \A j \in 1..(k - 1) : trace'[j] = trace[j]
    BY <1>1, <2>1
  <2> DEFINE n == k - 1
  <2>3. n \in Nat /\ \A j \in 1..n : trace'[j] = trace[j]
    BY <2>1, <2>2
  <2> HIDE DEF n
  <2>4. Live(n)' = Live(n)
    BY <2>3, LiveKept
  <2> QED BY <2>1, <2>4 DEF n
<1>4. ASSUME NEW k \in 1..(m + 1)
      PROVE  trace'[k].type = "ALLOC" <=> trace'[k].index \notin Live(k - 1)
  <2>1. CASE k \in 1..m
    BY <1>1, <1>4, <2>1 DEF TraceOK, m
  <2>2. CASE k = m + 1
    <3>1. k - 1 = m
      BY <1>1, <2>2
    <3> QED BY <1>1, <1>2, <1>4, <2>2, <3>1
  <2> QED BY <1>1, <2>1, <2>2
<1> QED BY <1>1, <1>3, <1>4 DEF TraceOK

LEMMA TraceStays == ASSUME TraceOK, UNCHANGED trace PROVE TraceOK'
<1>1. ASSUME NEW k PROVE Live(k)' = Live(k)
  BY DEF Live, LastRequest
<1> QED BY <1>1 DEF TraceOK

\* A new block lies above all others.
LEMMA BlocksGet ==
    ASSUME IInv, NEW r, GetsBlock(r), NEW n \in Nat, n = i - 1
    PROVE  BlocksOK'
<1>0. PICK x0 \in Ids, z \in Sizes : x0 = op.index /\ z = op.size
  BY RequestIs DEF IInv, TypeOK, GetsBlock
<1>1. /\ i = n + 1 /\ i' - 1 = n + 1 /\ n + 1 \in Nat /\ n \in 0..Len(trace)
      /\ trace \in Seq(Requests) /\ trace' = trace /\ phase' = phase
      /\ op = trace[n + 1] /\ op.type # "FREE" /\ x0 \in Ids /\ z \in Sizes /\ z \in Nat \ {0}
      /\ blocks \in [Ids -> Nat] /\ blocks' = [blocks EXCEPT ![x0] = r.p]
      /\ trace[n + 1].index = x0 /\ trace[n + 1].size = z /\ Aligned(heap)
  BY <1>0, RequestIs DEF IInv, TypeOK, GetsBlock
<1>2. /\ heap.brk \in Nat /\ heap.brk >= mem_start_brk /\ heap.brk <= mem_max_addr
      /\ heap.brk % ALIGNMENT = 0 /\ mem_start_brk \in Nat
      /\ mem_max_addr \in Nat
      /\ SIZE_T_SIZE \in Nat \ {0} /\ SIZE_T_SIZE % ALIGNMENT = 0
  BY <1>1, HeapNumbers, HeaderFits DEF Aligned, Heaps
<1>3. /\ r.p = heap.brk + SIZE_T_SIZE /\ r.p + z <= heap'.brk /\ r.p % ALIGNMENT = 0
      /\ heap'.brk \in Nat /\ heap.brk <= heap'.brk
  <2>1. GivesBlock(heap, z, r) /\ heap'.brk = r.heap.brk
    BY <1>0 DEF GetsBlock
  <2>2. newsize(z) \in Nat /\ newsize(z) >= z + SIZE_T_SIZE
    BY <1>1, <2>1, BlockFits DEF GivesBlock
  <2>3. r.p = heap.brk + SIZE_T_SIZE /\ heap'.brk = heap.brk + newsize(z)
    BY <2>1 DEF GivesBlock
  <2> DEFINE k == heap.brk
             w == newsize(z)
  <2>4. k \in Nat /\ k % ALIGNMENT = 0 /\ w \in Nat /\ w >= z + SIZE_T_SIZE
        /\ SIZE_T_SIZE \in Nat /\ SIZE_T_SIZE % ALIGNMENT = 0 /\ z \in Nat
    BY <1>1, <1>2, <2>2
  <2>5. r.p = k + SIZE_T_SIZE /\ heap'.brk = k + w
    BY <2>3
  <2> HIDE DEF k, w
  <2>6. (k + SIZE_T_SIZE) % ALIGNMENT = 0
    BY <2>4, AlignedSum
  <2>7. (k + SIZE_T_SIZE) + z <= k + w /\ k + w \in Nat /\ k <= k + w
    BY <2>4
  <2>8. r.p = heap.brk + SIZE_T_SIZE /\ heap.brk = k
    BY <2>3 DEF k
  <2> QED BY <2>5, <2>6, <2>7, <2>8
<1>4. /\ heap'.mem[heap.brk] = z
      /\ \A a \in mem_start_brk..(heap.brk - 1) : heap'.mem[a] = heap.mem[a]
      /\ phase = "valid" => \A a \in r.p..(r.p + z - 1) : heap'.mem[a] = Fill(x0)
  <2>1. \A a \in mem_start_brk..heap.brk : a \in mem_start_brk..(r.p - 1)
    BY <1>2, <1>3
  <2>2. heap.brk \in mem_start_brk..heap.brk
        /\ \A a \in mem_start_brk..(heap.brk - 1) : a \in mem_start_brk..heap.brk
    BY <1>2
  <2> QED BY <1>0, <2>1, <2>2 DEF GetsBlock, GivesBlock
<1>5. ASSUME NEW x \in Live(n + 1)', x # x0
      PROVE  /\ x \in Live(n) /\ x \in Ids /\ blocks'[x] = blocks[x]
             /\ SizeOf(n + 1, x)' = SizeOf(n, x)
             /\ Placed(n, x) /\ Kept(n, x) /\ SizeOf(n, x) \in Nat \ {0}
             /\ blocks[x] \in Nat
  <2>1. Live(n + 1)' = Live(n + 1) /\ \A y \in Live(n + 1) : SizeOf(n + 1, y)' = SizeOf(n + 1, y)
    BY <1>1, LiveKept
  <2>2. x \in Ids /\ trace[n + 1].index # x
    BY <1>1, <1>5, <2>1 DEF Live
  <2>3. x \in Live(n) /\ SizeOf(n + 1, x) = SizeOf(n, x)
    BY <2>1, <2>2, <1>5, LiveNext
  <2>4. Placed(n, x) /\ Kept(n, x)
    BY <1>1, <2>3 DEF IInv, BlocksOK, GetsBlock
  <2>5. SizeOf(n, x) \in Nat \ {0}
    BY <1>1, <2>3, LiveSizes, SizesPositive
  <2> QED BY <1>1, <1>5, <2>1, <2>2, <2>3, <2>4, <2>5
<1>6. blocks'[x0] = r.p /\ (x0 \in Live(n + 1)' => SizeOf(n + 1, x0)' = z)
  <2>1. Live(n + 1)' = Live(n + 1) /\ \A y \in Live(n + 1) : SizeOf(n + 1, y)' = SizeOf(n + 1, y)
    BY <1>1, LiveKept
  <2>2. SizeOf(n + 1, x0) = z
    BY <1>1, LiveNext
  <2> QED BY <1>1, <2>1, <2>2
<1>7. ASSUME NEW x \in Live(n + 1)' PROVE Placed(n + 1, x)' /\ Kept(n + 1, x)'
  <2>1. CASE x = x0
    <3>1. blocks'[x] - SIZE_T_SIZE = heap.brk
      BY <1>2, <1>3, <1>6, <2>1
    <3>2. Placed(n + 1, x)'
      BY <1>2, <1>3, <1>6, <2>1, <3>1 DEF Placed
    <3>3. Kept(n + 1, x)'
      BY <1>1, <1>4, <1>6, <2>1, <3>1 DEF Kept
    <3> QED BY <3>2, <3>3
  <2>2. CASE x # x0
    <3> DEFINE v == SizeOf(n, x)
               p == blocks[x]
    <3>1. /\ blocks'[x] = p /\ SizeOf(n + 1, x)' = v /\ p \in Nat /\ v \in Nat \ {0}
          /\ p % ALIGNMENT = 0 /\ p - SIZE_T_SIZE >= mem_start_brk /\ p + v <= heap.brk
          /\ heap.mem[p - SIZE_T_SIZE] = v
          /\ phase = "valid" => \A a \in p..(p + v - 1) : heap.mem[a] = Fill(x)
      BY <1>5, <2>2 DEF Placed, Kept
    <3> HIDE DEF v, p
    <3>2. p - SIZE_T_SIZE \in mem_start_brk..(heap.brk - 1)
      BY <1>2, <3>1
    <3>3. \A a \in p..(p + v - 1) : a \in mem_start_brk..(heap.brk - 1)
      BY <1>2, <3>1
    <3>4. Placed(n + 1, x)'
      <4>1. p + v <= heap'.brk
        BY <1>2, <1>3, <3>1
      <4> QED BY <3>1, <4>1 DEF Placed
    <3>5. Kept(n + 1, x)'
      BY <1>1, <1>4, <3>1, <3>2, <3>3 DEF Kept
    <3> QED BY <3>4, <3>5
  <2> QED BY <2>1, <2>2
<1>8. ASSUME NEW x \in Live(n + 1)', NEW y \in Live(n + 1)', x # y PROVE Apart(n + 1, x, y)'
  <2>1. ASSUME NEW u \in Live(n + 1)', u # x0
        PROVE  blocks'[u] + SizeOf(n + 1, u)' <= blocks'[x0] - SIZE_T_SIZE
    <3>1. blocks'[x0] - SIZE_T_SIZE = heap.brk
      BY <1>2, <1>3, <1>6
    <3> QED BY <1>5, <2>1, <3>1 DEF Placed
  <2>2. CASE x = x0
    BY <1>8, <2>1, <2>2 DEF Apart
  <2>3. CASE y = x0
    BY <1>8, <2>1, <2>3 DEF Apart
  <2>4. CASE x # x0 /\ y # x0
    <3>1. x \in Live(n) /\ y \in Live(n)
      BY <1>5, <2>4
    <3>2. Apart(n, x, y)
      BY <1>1, <1>8, <3>1 DEF IInv, BlocksOK, GetsBlock
    <3>3. /\ blocks'[x] = blocks[x] /\ SizeOf(n + 1, x)' = SizeOf(n, x)
          /\ blocks'[y] = blocks[y] /\ SizeOf(n + 1, y)' = SizeOf(n, y)
      BY <1>5, <2>4
    <3> QED BY <3>2, <3>3 DEF Apart
  <2> QED BY <2>2, <2>3, <2>4
<1> QED BY <1>1, <1>7, <1>8 DEF BlocksOK

\* Nothing else moves a block.
LEMMA BlocksFree ==
    ASSUME IInv, Frees, NEW n \in Nat, n = i - 1
    PROVE  BlocksOK'
<1>1. /\ i' - 1 = n + 1 /\ n + 1 \in Nat /\ n \in 0..Len(trace)
      /\ trace' = trace /\ phase' = phase /\ heap' = heap /\ blocks' = blocks
      /\ op = trace[n + 1] /\ op.type = "FREE"
  BY RequestIs DEF IInv, TypeOK, Frees
<1>2. ASSUME NEW x \in Live(n + 1)'
      PROVE  x \in Live(n) /\ SizeOf(n + 1, x)' = SizeOf(n, x)
  <2>1. Live(n + 1)' = Live(n + 1) /\ \A y \in Live(n + 1) : SizeOf(n + 1, y)' = SizeOf(n + 1, y)
    BY <1>1, LiveKept
  <2>2. x \in Ids
    BY <2>1 DEF Live
  <2>3. trace[n + 1].index # x
    BY <1>1, <1>2, <2>1, <2>2, LiveNext
  <2> QED BY <1>1, <1>2, <2>1, <2>2, <2>3, LiveNext
<1>3. ASSUME NEW x \in Live(n)
      PROVE  Placed(n, x) /\ Kept(n, x) /\ \A y \in Live(n) \ {x} : Apart(n, x, y)
  BY <1>1, <1>3 DEF IInv, BlocksOK, Frees
<1>4. ASSUME NEW x \in Live(n + 1)' PROVE Placed(n + 1, x)' /\ Kept(n + 1, x)'
  BY <1>1, <1>2, <1>3 DEF Placed, Kept
<1>5. ASSUME NEW x \in Live(n + 1)', NEW y \in Live(n + 1)', x # y PROVE Apart(n + 1, x, y)'
  BY <1>1, <1>2, <1>3, <1>5 DEF Apart
<1> QED BY <1>1, <1>4, <1>5 DEF BlocksOK

LEMMA BlocksStart == ASSUME i' = 1 PROVE BlocksOK'
<1>1. Live(0)' = {}
  <2>1. ASSUME NEW x PROVE LastRequest(0, x)' = 0
    <3>1. Last(trace', 0, x) \in 0..0
      BY LastIs
    <3> QED BY <3>1 DEF Last, LastRequest
  <2> QED BY <2>1 DEF Live
<1>2. i' - 1 = 0
  OBVIOUS
<1> QED BY <1>1, <1>2 DEF BlocksOK

LEMMA BlocksIdle == ASSUME BlocksOK, Idle PROVE BlocksOK'
<1>1. /\ i' = i /\ phase' = phase /\ heap' = heap /\ blocks' = blocks /\ trace' = trace
      /\ InPass' = InPass
  BY DEF Idle, InPass
<1>2. ASSUME NEW n PROVE Live(n)' = Live(n) /\ \A x : SizeOf(n, x)' = SizeOf(n, x)
  BY <1>1 DEF Live, SizeOf, LastRequest
<1>3. ASSUME NEW n, NEW x PROVE (Placed(n, x)' <=> Placed(n, x)) /\ (Kept(n, x)' <=> Kept(n, x))
  BY <1>1, <1>2 DEF Placed, Kept
<1>4. ASSUME NEW n, NEW x, NEW y PROVE Apart(n, x, y)' <=> Apart(n, x, y)
  BY <1>1, <1>2 DEF Apart
<1> QED BY <1>1, <1>2, <1>3, <1>4 DEF BlocksOK

\* The record of the breaks grows by one in eval_mm_valid,
LEMMA BreaksGet ==
    ASSUME IInv, NEW r, GetsBlock(r), NEW n \in Nat, n = i - 1
    PROVE  BreaksOK'
<1>1. /\ i = n + 1 /\ i' - 1 = n + 1 /\ n + 1 \in 1..Len(trace) /\ Len(trace) \in Nat
      /\ trace' = trace /\ phase' = phase /\ InPass /\ InPass'
      /\ op = trace[n + 1] /\ op.type # "FREE"
  BY RequestIs DEF IInv, TypeOK, GetsBlock, InPass
<1>2. PICK brk \in [0..Len(trace) -> Nat] :
           Breaks(brk, IF phase = "valid" THEN n ELSE Len(trace)) /\ heap.brk = brk[n]
  BY <1>1 DEF IInv, BreaksOK
<1>3. /\ newsize(op.size) >= 0 /\ heap'.brk = heap.brk + newsize(op.size)
      /\ heap'.brk <= mem_max_addr /\ heap'.brk \in Nat
  BY HeapNumbers DEF GetsBlock, GivesBlock, Aligned, Heaps
<1>4. CASE phase = "valid"
  <2>1. PICK b \in [0..Len(trace) -> Nat] :
             b[n + 1] = heap'.brk /\ \A k \in 0..n : b[k] = brk[k]
    <3> DEFINE c == [brk EXCEPT ![n + 1] = heap'.brk]
    <3>1. /\ c \in [0..Len(trace) -> Nat] /\ c[n + 1] = heap'.brk
          /\ \A k \in 0..n : c[k] = brk[k]
      BY <1>1, <1>2, <1>3
    <3> HIDE DEF c
    <3> QED BY <3>1
  <2>2. /\ b[0] = mem_start_brk
        /\ \A k \in 1..n : k - 1 \in 0..n /\ b[k] = brk[k] /\ b[k - 1] = brk[k - 1]
    BY <1>2, <1>4, <2>1 DEF Breaks
  <2>3. Breaks(b, n)
    BY <1>2, <1>4, <2>2 DEF Breaks
  <2>4. Breaks(b, n + 1)
    <3>1. \A k \in 1..(n + 1) : k \in 1..n \/ (k = n + 1 /\ k - 1 = n)
      OBVIOUS
    <3> QED BY <1>1, <1>2, <1>3, <2>1, <2>3, <3>1 DEF Breaks
  <2>5. Breaks(b, n + 1)'
    BY <1>1, <2>4 DEF Breaks
  <2> QED BY <1>1, <1>4, <2>1, <2>5 DEF BreaksOK
<1>5. CASE phase # "valid"
  <2>1. brk[n + 1] = brk[(n + 1) - 1] + newsize(op.size) /\ (n + 1) - 1 = n
    BY <1>1, <1>2, <1>5 DEF Breaks
  <2>2. heap'.brk = brk[n + 1]
    BY <1>2, <1>3, <2>1
  <2>3. Breaks(brk, Len(trace))'
    BY <1>1, <1>2, <1>5 DEF Breaks
  <2> QED BY <1>1, <1>2, <1>5, <2>2, <2>3 DEF BreaksOK
<1> QED BY <1>4, <1>5

LEMMA BreaksFree ==
    ASSUME IInv, Frees, NEW n \in Nat, n = i - 1
    PROVE  BreaksOK'
<1>1. /\ i = n + 1 /\ i' - 1 = n + 1 /\ n + 1 \in 1..Len(trace) /\ Len(trace) \in Nat
      /\ trace' = trace /\ phase' = phase /\ heap' = heap /\ InPass /\ InPass'
      /\ op = trace[n + 1] /\ op.type = "FREE"
  BY RequestIs DEF IInv, TypeOK, Frees, InPass
<1>2. PICK brk \in [0..Len(trace) -> Nat] :
           Breaks(brk, IF phase = "valid" THEN n ELSE Len(trace)) /\ heap.brk = brk[n]
  BY <1>1 DEF IInv, BreaksOK
<1>4. CASE phase = "valid"
  <2> DEFINE b == [brk EXCEPT ![n + 1] = brk[n]]
  <2>1. /\ b \in [0..Len(trace) -> Nat] /\ b[n + 1] = brk[n]
        /\ \A k \in 0..n : b[k] = brk[k]
    BY <1>1, <1>2
  <2> HIDE DEF b
  <2>2. /\ b[0] = mem_start_brk
        /\ \A k \in 1..n : k - 1 \in 0..n /\ b[k] = brk[k] /\ b[k - 1] = brk[k - 1]
    BY <1>2, <1>4, <2>1 DEF Breaks
  <2>3. Breaks(b, n)
    BY <1>2, <1>4, <2>2 DEF Breaks
  <2>4. Breaks(b, n + 1)
    <3>1. \A k \in 1..(n + 1) : k \in 1..n \/ (k = n + 1 /\ k - 1 = n)
      OBVIOUS
    <3> QED BY <1>1, <1>2, <2>1, <2>3, <3>1 DEF Breaks
  <2>5. Breaks(b, n + 1)'
    BY <1>1, <2>4 DEF Breaks
  <2> QED BY <1>1, <1>2, <1>4, <2>1, <2>5 DEF BreaksOK
<1>5. CASE phase # "valid"
  <2>1. brk[n + 1] = brk[(n + 1) - 1] /\ (n + 1) - 1 = n
    BY <1>1, <1>2, <1>5 DEF Breaks
  <2>3. Breaks(brk, Len(trace))'
    BY <1>1, <1>2, <1>5 DEF Breaks
  <2> QED BY <1>1, <1>2, <1>5, <2>1, <2>3 DEF BreaksOK
<1> QED BY <1>4, <1>5

\* and it is complete when the later passes start.
LEMMA BreaksStart == ASSUME IInv, Starts PROVE BreaksOK'
<1>1. /\ i' - 1 = 0 /\ trace' = trace /\ heap'.brk = mem_start_brk /\ Len(trace) \in Nat
      /\ mem_start_brk \in Nat
  BY HeapNumbers DEF IInv, TypeOK, Starts, mem_reset_brk, AnyHeaps
<1>2. CASE phase' = "valid"
  <2>1. PICK b \in [0..Len(trace) -> Nat] : b[0] = mem_start_brk
    <3> DEFINE c == [k \in 0..Len(trace) |-> mem_start_brk]
    <3>1. c \in [0..Len(trace) -> Nat] /\ c[0] = mem_start_brk
      BY <1>1
    <3> HIDE DEF c
    <3> QED BY <3>1
  <2>2. Breaks(b, 0)'
    BY <2>1 DEF Breaks
  <2> QED BY <1>1, <1>2, <2>1, <2>2 DEF BreaksOK
<1>3. CASE phase' # "valid" /\ InPass /\ i > Len(trace)
  <2>1. PICK brk \in [0..Len(trace) -> Nat] :
             Breaks(brk, IF phase = "valid" THEN i - 1 ELSE Len(trace))
    BY <1>3 DEF IInv, BreaksOK
  <2>2. i - 1 = Len(trace)
    BY <1>3 DEF IInv, TypeOK
  <2>3. Breaks(brk, Len(trace))
    BY <2>1, <2>2
  <2>4. Breaks(brk, Len(trace))' /\ brk[0] = mem_start_brk
    BY <1>1, <2>3 DEF Breaks
  <2> QED BY <1>1, <1>3, <2>1, <2>4 DEF BreaksOK
<1> QED BY <1>2, <1>3 DEF Starts

LEMMA BreaksIdle == ASSUME BreaksOK, Idle PROVE BreaksOK'
BY DEF BreaksOK, Idle, InPass, Breaks

LEMMA NextType == ASSUME IInv, [Next]_vars PROVE TypeOK'
<1>0. /\ heap \in AnyHeaps /\ phase \in Phases /\ trace \in Seq(Requests) /\ i \in Nat \ {0}
      /\ (InPass => Aligned(heap)) /\ (InPass => i <= Len(trace) + 1)
      /\ blocks \in [Ids -> Nat] /\ errors \in Nat /\ Len(trace) \in Nat
  BY DEF IInv, TypeOK
<1>h. Heaps \subseteq AnyHeaps
  BY HeapNumbers DEF Heaps, AnyHeaps
<1>1. ASSUME NEW r, GetsBlock(r) PROVE TypeOK'
  <2>0. Aligned(heap)
    BY <1>0, <1>1 DEF GetsBlock
  <2>1. op.index \in Ids /\ op.size \in Sizes
    BY <1>0, <1>1, RequestIs DEF IInv, GetsBlock
  <2>2. r.p = heap.brk + SIZE_T_SIZE /\ Aligned(r.heap)
    BY <1>1 DEF GetsBlock, GivesBlock
  <2>3. r.p \in Nat
    BY <2>0, <2>2, HeapNumbers, HeaderFits, SMTT(30) DEF Aligned, Heaps
  <2>4. blocks' \in [Ids -> Nat]
    BY <1>0, <1>1, <2>1, <2>3 DEF GetsBlock
  <2>5. Aligned(heap') /\ heap' \in AnyHeaps
    BY <1>h, <1>1, <2>2 DEF GetsBlock, Aligned
  <2>6. i' = i + 1 /\ i <= Len(trace) /\ phase' = phase /\ trace' = trace /\ errors' = errors
    BY <1>1 DEF GetsBlock
  <2> QED BY <1>0, <2>4, <2>5, <2>6 DEF TypeOK
<1>2. ASSUME Frees PROVE TypeOK'
  BY <1>0, <1>2 DEF Frees, TypeOK
<1>3. ASSUME Starts PROVE TypeOK'
  <2>1. Aligned(heap') /\ heap' \in AnyHeaps
    <3>1. heap' = [heap EXCEPT !.brk = mem_start_brk]
      BY <1>3 DEF Starts, mem_reset_brk
    <3>2. mem_start_brk \in mem_start_brk..mem_max_addr
      BY HeapNumbers
    <3>3. heap' \in Heaps /\ heap'.brk = mem_start_brk
      BY <1>0, <3>1, <3>2 DEF Heaps, AnyHeaps
    <3> QED BY <1>h, <3>3, HeapNumbers DEF Aligned
  <2>2. phase' \in Phases /\ i' = 1 /\ trace' = trace /\ blocks' = blocks /\ errors' = errors
    BY <1>3 DEF Starts, Phases
  <2> QED BY <1>0, <2>1, <2>2 DEF TypeOK
<1>4. ASSUME Ends PROVE TypeOK'
  <2>1. phase' = "read" /\ "read" \in Phases /\ ~InPass'
    BY <1>4 DEF Ends, Phases, InPass
  <2>2. blocks' \in [Ids -> Nat] /\ trace' \in Seq(Requests) /\ errors' \in Nat
    BY <1>0, <1>4 DEF Ends, NULL
  <2> QED BY <1>4, <2>1, <2>2 DEF Ends, TypeOK
<1>5. ASSUME NEW o \in Requests, Reads(o) PROVE TypeOK'
  <2>1. ~InPass' /\ trace' \in Seq(Requests)
    BY <1>0, <1>5 DEF Reads, InPass
  <2> QED BY <1>0, <1>5, <2>1 DEF Reads, TypeOK
<1>6. ASSUME Idle PROVE TypeOK'
  BY <1>6 DEF IInv, Idle, TypeOK, InPass
<1> QED BY <1>1, <1>2, <1>3, <1>4, <1>5, <1>6, Steps

LEMMA InitInv == ASSUME Init PROVE IInv
<1>1. heap \in AnyHeaps
  <2>1. mem_start_brk \in 0..mem_max_addr
    BY HeapNumbers
  <2> QED BY <2>1 DEF Init, mem_init, AnyHeaps, Unwritten
<1>2. ~InPass /\ phase \in Phases
  BY DEF Init, InPass, Phases
<1> QED BY <1>1, <1>2 DEF Init, IInv, TypeOK, TraceOK, BlocksOK, BreaksOK, NULL

LEMMA NextInv == ASSUME IInv, [Next]_vars PROVE IInv'
<1>0. TypeOK' /\ TypeOK /\ TraceOK /\ BlocksOK /\ BreaksOK
  BY NextType DEF IInv
<1>1. ASSUME NEW r, GetsBlock(r) PROVE TraceOK' /\ BlocksOK' /\ BreaksOK'
  <2>1. PICK n \in Nat : n = i - 1
    BY <1>0 DEF TypeOK
  <2>2. trace' = trace
    BY <1>1 DEF GetsBlock
  <2> QED BY <1>0, <1>1, <2>1, <2>2, TraceStays, BlocksGet, BreaksGet
<1>2. ASSUME Frees PROVE TraceOK' /\ BlocksOK' /\ BreaksOK'
  <2>1. PICK n \in Nat : n = i - 1
    BY <1>0 DEF TypeOK
  <2>2. trace' = trace
    BY <1>2 DEF Frees
  <2> QED BY <1>0, <1>2, <2>1, <2>2, TraceStays, BlocksFree, BreaksFree
<1>3. ASSUME Starts PROVE TraceOK' /\ BlocksOK' /\ BreaksOK'
  <2>1. trace' = trace /\ i' = 1
    BY <1>3 DEF Starts
  <2> QED BY <1>0, <1>3, <2>1, TraceStays, BlocksStart, BreaksStart
<1>4. ASSUME Ends PROVE TraceOK' /\ BlocksOK' /\ BreaksOK'
  <2>1. ~InPass' /\ Len(trace') = 0
    BY <1>4 DEF Ends, InPass
  <2> QED BY <2>1 DEF TraceOK, BlocksOK, BreaksOK
<1>5. ASSUME NEW o \in Requests, Reads(o) PROVE TraceOK' /\ BlocksOK' /\ BreaksOK'
  <2>1. ~InPass'
    BY <1>5 DEF Reads, InPass
  <2>2. trace \in Seq(Requests)
    BY <1>0 DEF TypeOK
  <2> QED BY <1>0, <1>5, <2>1, <2>2, TraceRead DEF BlocksOK, BreaksOK
<1>6. ASSUME Idle PROVE TraceOK' /\ BlocksOK' /\ BreaksOK'
  <2>1. trace' = trace
    BY <1>6 DEF Idle
  <2> QED BY <1>0, <1>6, <2>1, TraceStays, BlocksIdle, BreaksIdle
<1> QED BY <1>0, <1>1, <1>2, <1>3, <1>4, <1>5, <1>6, Steps DEF IInv

LEMMA Invariant == Spec => []IInv
BY InitInv, NextInv, PTL DEF Spec

----------------------------------------------------------------------------
(* What it means.                                                          *)

\* In every pass the blocks the trace has allocated and not freed are aligned
\* and inside the heap, and no two of them share a byte, header or payload
\* (mm_malloc and mm_realloc, mm.c:59-97).
THEOREM BlocksStayDisjoint == Spec => []BlocksDisjoint
<1>1. ASSUME IInv PROVE BlocksDisjoint
  <2> SUFFICES ASSUME InPass, NEW x \in Live(i - 1)
               PROVE  /\ blocks[x] % ALIGNMENT = 0
                      /\ Block(x) \subseteq mem_heap_lo..mem_heap_hi(heap)
                      /\ \A y \in Live(i - 1) \ {x} : Block(x) \cap Block(y) = {}
    BY DEF BlocksDisjoint
  <2>1. /\ SIZE_T_SIZE \in Nat \ {0} /\ mem_start_brk \in Int /\ heap.brk \in Int
        /\ i - 1 \in 0..Len(trace) /\ trace \in Seq(Requests)
    BY <1>1, HeapNumbers, HeaderFits DEF IInv, TypeOK, Aligned, Heaps
  <2>2. ASSUME NEW u \in Live(i - 1)
        PROVE  blocks[u] \in Int /\ SizeOf(i - 1, u) \in Nat \ {0}
    <3>1. u \in Ids /\ SizeOf(i - 1, u) \in Nat \ {0}
      BY <2>1, LiveSizes, SizesPositive
    <3> QED BY <1>1, <3>1 DEF IInv, TypeOK
  <2>3. Placed(i - 1, x) /\ \A y \in Live(i - 1) \ {x} : Apart(i - 1, x, y)
    BY <1>1 DEF IInv, BlocksOK
  <2>4. Block(x) \subseteq mem_heap_lo..mem_heap_hi(heap)
    <3> DEFINE p == blocks[x]
               v == SizeOf(i - 1, x)
    <3>1. p \in Int /\ v \in Nat /\ p - SIZE_T_SIZE >= mem_start_brk /\ p + v <= heap.brk
      BY <2>2, <2>3 DEF Placed
    <3> HIDE DEF p, v
    <3>2. ((p - SIZE_T_SIZE)..(p + v - 1)) \subseteq (mem_start_brk..(heap.brk - 1))
      BY <2>1, <3>1
    <3> QED BY <3>2 DEF Block, p, v, mem_heap_lo, mem_heap_hi
  <2>5. ASSUME NEW y \in Live(i - 1) \ {x} PROVE Block(x) \cap Block(y) = {}
    <3>1. Apart(i - 1, x, y)
      BY <2>3
    <3> DEFINE p == blocks[x] - SIZE_T_SIZE
               q == blocks[y] - SIZE_T_SIZE
               c == blocks[x] + SizeOf(i - 1, x)
               d == blocks[y] + SizeOf(i - 1, y)
    <3>2. p \in Int /\ q \in Int /\ c \in Int /\ d \in Int
      BY <2>1, <2>2, SMTT(30)
    <3>3. c <= q \/ d <= p
      BY <3>1 DEF Apart
    <3>4. Block(x) = p..(c - 1) /\ Block(y) = q..(d - 1)
      BY <2>1, <2>2, SMTT(30) DEF Block
    <3> HIDE DEF p, q, c, d
    <3>5. (p..(c - 1)) \cap (q..(d - 1)) = {}
      BY <3>2, <3>3
    <3> QED BY <3>4, <3>5
  <2> QED BY <2>3, <2>4, <2>5 DEF Placed
<1> QED BY <1>1, Invariant, PTL

\* The size stays in the header of a block, and in eval_mm_valid the fill in its
\* payload, until the trace frees it, whatever is allocated, moved and filled in
\* between (mm.c:59-97; memset in eval_mm_valid, mdriver.c:623-662).
THEOREM ContentsStay == Spec => []ContentsKept
<1>1. ASSUME IInv PROVE ContentsKept
  BY <1>1 DEF IInv, BlocksOK, Kept, ContentsKept, Payload
<1> QED BY <1>1, Invariant, PTL

\* No request fails in eval_mm_util or eval_mm_speed that eval_mm_valid has
\* accepted: the app_errors of these passes are not reached on mm.c
\* (mdriver.c:698-826).
THEOREM PassesStayAgreed == Spec => []PassesAgree
<1>1. ASSUME IInv PROVE PassesAgree
  <2> SUFFICES ASSUME phase \in {"util", "speed"}, i <= Len(trace)
               PROVE  /\ op.type = "ALLOC" => malloc.p # NULL
                      /\ op.type = "REALLOC" => realloc.p # NULL
    BY DEF PassesAgree
  <2>1. InPass /\ phase # "valid"
    BY DEF InPass
  <2>2. op.type # "FREE" => Fits(heap, op.size)
    BY <1>1, <2>1, PassFits
  <2>3. op.type = "ALLOC" => malloc.p # NULL
    BY <1>1, <2>1, <2>2, CallGives DEF Gives
  <2>4. op.type = "REALLOC" => realloc.p # NULL
    BY <1>1, <2>1, <2>2, CallGives DEF Gives
  <2> QED BY <2>3, <2>4
<1> QED BY <1>1, Invariant, PTL

\* "In this model, the heap cannot be shrunk" (memlib.c:56), but for one case: a
\* request moves the break down only if its size, rounded up, is a positive int
\* that carries the break past the address space (mem_sbrk, memlib.c:62-67); and
\* then eval_mm_valid refuses the block at once (add_range, mdriver.c:399-404).
THEOREM BreakFalls == Spec => BreakFallsOnlyByWrap
<1>1. ASSUME IInv, [Next]_vars
      PROVE  [heap'.brk < heap.brk /\ (i' = i + 1 \/ errors' # errors) =>
                  /\ errors' # errors
                  /\ op.type # "FREE"
                  /\ newsize(op.size) >= 0 /\ heap.brk + newsize(op.size) >= 2^W]_vars
  <2> SUFFICES ASSUME heap'.brk < heap.brk, i' = i + 1 \/ errors' # errors
               PROVE  /\ errors' # errors /\ op.type # "FREE"
                      /\ newsize(op.size) >= 0 /\ heap.brk + newsize(op.size) >= 2^W
    OBVIOUS
  <2>1. TypeOK /\ i \in Nat \ {0} /\ heap.brk \in Int
    BY <1>1, HeapNumbers DEF IInv, TypeOK, AnyHeaps
  <2>2. ASSUME NEW r, GetsBlock(r) PROVE FALSE
    <3>1. newsize(op.size) \in Nat
      BY <2>1, <2>2, RequestIs, BlockFits DEF GetsBlock, GivesBlock
    <3> QED BY <2>1, <2>2, <3>1 DEF GetsBlock, GivesBlock
  <2>3. ~Frees
    BY <2>1 DEF Frees
  <2>4. ~Starts
    BY <2>1 DEF Starts
  <2>5. CASE Ends
    BY <2>5 DEF Ends
  <2>6. ASSUME NEW o \in Requests, Reads(o) PROVE FALSE
    BY <2>1, <2>6 DEF Reads
  <2>7. ~Idle
    BY <2>1 DEF Idle
  <2> QED BY <1>1, <2>2, <2>3, <2>4, <2>5, <2>6, <2>7, Steps
<1> QED BY <1>1, Invariant, PTL DEF Spec, BreakFallsOnlyByWrap

----------------------------------------------------------------------------
(* The range list, of any allocator.                                       *)

\* The range of the payload of x, in blocks b and with sizes z.
Ranges == [lo : Int, hi : Int]
Span(b, z, x) == [lo |-> b[x], hi |-> b[x] + z[x] - 1]

\* rs holds the payloads of the ids in L, each once.
Lists(rs, L, b, z) ==
    /\ rs \in Seq(Ranges)
    /\ \A k \in 1..Len(rs) : \E x \in L : rs[k] = Span(b, z, x)
    /\ \A x \in L : \E k \in 1..Len(rs) : rs[k] = Span(b, z, x)
    /\ \A j, k \in 1..Len(rs) : rs[j].lo = rs[k].lo => j = k
    /\ \A x, y \in L : b[x] = b[y] => x = y
    /\ IsFiniteSet(L) /\ Len(rs) = Cardinality(L)

\* The sequence without its k-th element.
LEMMA RemoveAtIs ==
    ASSUME NEW T, NEW s \in Seq(T), NEW k \in 1..Len(s)
    PROVE  /\ S!RemoveAt(s, k) \in Seq(T) /\ Len(S!RemoveAt(s, k)) = Len(s) - 1
           /\ \A j \in 1..(Len(s) - 1) :
                  S!RemoveAt(s, k)[j] = IF j < k THEN s[j] ELSE s[j + 1]
<1> DEFINE a == SubSeq(s, 1, k - 1)
           c == SubSeq(s, k + 1, Len(s))
           n == Len(s)
<1>1. n \in Nat /\ k \in Int /\ 1 <= k /\ k <= n /\ \A j \in 1..n : s[j] \in T
  BY ElementOfSeq
<1>2. a \in Seq(T) /\ Len(a) = k - 1 /\ \A j \in 1..(k - 1) : a[j] = s[j]
  <2>1. \A j \in 1..(k - 1) : s[j] \in T
    BY <1>1
  <2>2. /\ a \in Seq(T) /\ Len(a) = IF 1 <= k - 1 THEN (k - 1) - 1 + 1 ELSE 0
        /\ \A j \in 1..((k - 1) - 1 + 1) : a[j] = s[1 + j - 1]
    BY <1>1, <2>1, SubSeqProperties
  <2> QED BY <1>1, <2>2
<1>3. c \in Seq(T) /\ Len(c) = n - k /\ \A j \in 1..(n - k) : c[j] = s[k + j]
  <2>1. \A j \in (k + 1)..n : s[j] \in T
    BY <1>1
  <2>2. /\ c \in Seq(T) /\ Len(c) = IF k + 1 <= n THEN n - (k + 1) + 1 ELSE 0
        /\ \A j \in 1..(n - (k + 1) + 1) : c[j] = s[(k + 1) + j - 1]
    BY <1>1, <2>1, SubSeqProperties
  <2>3. ASSUME NEW j \in 1..(n - k) PROVE c[j] = s[k + j]
    <3>1. j \in 1..(n - (k + 1) + 1) /\ (k + 1) + j - 1 = k + j
      BY <1>1
    <3> QED BY <2>2, <3>1
  <2> QED BY <1>1, <2>2, <2>3
<1> HIDE DEF a, c
<1>4. /\ a \o c \in Seq(T) /\ Len(a \o c) = (k - 1) + (n - k)
      /\ \A j \in 1..((k - 1) + (n - k)) : (a \o c)[j] = IF j <= k - 1 THEN a[j] ELSE c[j - (k - 1)]
  <2>1. /\ a \in Seq(T) /\ Len(a) = k - 1
        /\ c \in Seq(T) /\ Len(c) = n - k
    BY <1>2, <1>3
  <2>2. /\ a \o c \in Seq(T) /\ Len(a \o c) = Len(a) + Len(c)
        /\ \A j \in 1..(Len(a) + Len(c)) :
               (a \o c)[j] = IF j <= Len(a) THEN a[j] ELSE c[j - Len(a)]
    BY <2>1, ConcatProperties
  <2> HIDE DEF n
  <2> QED BY ONLY <2>1, <2>2
<1>5. S!RemoveAt(s, k) = a \o c
  BY DEF S!RemoveAt, a, c
<1>6. ASSUME NEW j \in 1..(n - 1) PROVE (a \o c)[j] = IF j < k THEN s[j] ELSE s[j + 1]
  <2>1. j \in 1..((k - 1) + (n - k)) /\ j \in Int
    BY <1>1
  <2>2. CASE j < k
    <3>1. j <= k - 1 /\ j \in 1..(k - 1)
      BY <1>1, <2>1, <2>2
    <3> QED BY <1>2, <1>4, <2>1, <2>2, <3>1
  <2>3. CASE ~(j < k)
    <3>1. ~(j <= k - 1) /\ j - (k - 1) \in 1..(n - k) /\ k + (j - (k - 1)) = j + 1
      BY <1>1, <2>1, <2>3
    <3> QED BY <1>3, <1>4, <2>1, <2>3, <3>1
  <2> QED BY <2>2, <2>3
<1>7. (k - 1) + (n - k) = n - 1
  BY <1>1
<1> QED BY <1>4, <1>5, <1>6, <1>7

\* remove_range finds the one range that starts at lo.
LEMMA RemoveRangeIs ==
    ASSUME NEW rs, NEW lo, NEW k \in 1..Len(rs), rs[k].lo = lo,
           \A j \in 1..Len(rs) : rs[j].lo = lo => j = k
    PROVE  remove_range(rs, lo) = S!RemoveAt(rs, k)
<1> DEFINE I == {j \in 1..Len(rs) : rs[j].lo = lo}
<1>1. I = {k}
  OBVIOUS
<1>2. S!SelectInSeq(rs, LAMBDA r : r.lo = lo) = IF I # {} THEN S!Min(I) ELSE 0
  BY DEF S!SelectInSeq
<1> HIDE DEF I
<1>3. S!Min(I) = k
  BY <1>1 DEF S!Min
<1>4. k # 0 /\ I # {}
  BY <1>1
<1> QED BY <1>2, <1>3, <1>4 DEF remove_range

\* It takes x off the list.
LEMMA ListsRemove ==
    ASSUME NEW rs, NEW L, NEW b, NEW z, Lists(rs, L, b, z), NEW x \in L
    PROVE  Lists(remove_range(rs, b[x]), L \ {x}, b, z)
<1> DEFINE n == Len(rs)
           out == remove_range(rs, b[x])
           M == L \ {x}
<1>1. PICK k \in 1..n : rs[k] = Span(b, z, x)
  BY DEF Lists
<1>2. rs[k].lo = b[x] /\ \A j \in 1..n : rs[j].lo = b[x] => j = k
  BY <1>1 DEF Span, Lists
<1>3. out = S!RemoveAt(rs, k)
  BY <1>2, RemoveRangeIs
<1>4. rs \in Seq(Ranges) /\ n \in Nat
  BY DEF Lists
<1>5. /\ out \in Seq(Ranges) /\ Len(out) = n - 1
      /\ \A j \in 1..(n - 1) : out[j] = IF j < k THEN rs[j] ELSE rs[j + 1]
  BY <1>3, <1>4, RemoveAtIs
<1> DEFINE from(j) == IF j < k THEN j ELSE j + 1
<1>6. \A j \in 1..(n - 1) : from(j) \in 1..n /\ from(j) # k /\ out[j] = rs[from(j)]
  BY <1>4, <1>5
<1>7. \A j, l \in 1..(n - 1) : from(j) = from(l) => j = l
  BY <1>4
<1>8. \A l \in 1..n : l # k => \E j \in 1..(n - 1) : from(j) = l
  <2> SUFFICES ASSUME NEW l \in 1..n, l # k PROVE \E j \in 1..(n - 1) : from(j) = l
    OBVIOUS
  <2>1. CASE l < k
    <3>1. l \in 1..(n - 1) /\ from(l) = l
      BY <1>4, <2>1
    <3> QED BY <3>1
  <2>2. CASE l > k
    <3>1. l - 1 \in 1..(n - 1) /\ from(l - 1) = l
      BY <1>4, <2>2
    <3> QED BY <3>1
  <2> QED BY <1>4, <2>1, <2>2
<1> HIDE DEF out, from, n
<1>9. ASSUME NEW j \in 1..(n - 1) PROVE \E y \in M : out[j] = Span(b, z, y)
  <2>1. PICK y \in L : rs[from(j)] = Span(b, z, y)
    BY <1>6 DEF Lists, n
  <2>2. y # x
    <3> SUFFICES ASSUME y = x PROVE FALSE
      OBVIOUS
    <3>1. rs[from(j)].lo = b[x]
      BY <2>1 DEF Span
    <3> QED BY <1>2, <1>6, <3>1
  <2> QED BY <1>6, <2>1, <2>2
<1>10. ASSUME NEW y \in M PROVE \E j \in 1..(n - 1) : out[j] = Span(b, z, y)
  <2>1. PICK l \in 1..n : rs[l] = Span(b, z, y)
    BY DEF Lists, n
  <2>2. l # k
    <3> SUFFICES ASSUME l = k PROVE FALSE
      OBVIOUS
    <3>1. b[y] = b[x]
      BY <1>2, <2>1 DEF Span
    <3> QED BY <3>1 DEF Lists
  <2>3. PICK j \in 1..(n - 1) : from(j) = l
    BY <1>8, <2>2
  <2> QED BY <1>6, <2>1, <2>3
<1>11. ASSUME NEW j \in 1..(n - 1), NEW l \in 1..(n - 1), out[j].lo = out[l].lo PROVE j = l
  <2>1. \A u, v \in 1..n : rs[u].lo = rs[v].lo => u = v
    BY DEF Lists, n
  <2>2. rs[from(j)].lo = rs[from(l)].lo /\ from(j) \in 1..n /\ from(l) \in 1..n
    BY <1>6, <1>11
  <2>3. from(j) = from(l)
    BY <2>1, <2>2
  <2> QED BY <1>7, <2>3
<1>12. IsFiniteSet(M) /\ Len(out) = Cardinality(M)
  <2>1. IsFiniteSet(L) /\ n = Cardinality(L)
    BY DEF Lists, n
  <2> QED BY <1>5, <2>1, FS_RemoveElement
<1>13. \A y, w \in M : b[y] = b[w] => y = w
  BY DEF Lists
<1> QED BY <1>5, <1>9, <1>10, <1>11, <1>12, <1>13 DEF Lists, out

\* add_range puts x on the list.
LEMMA ListsAdd ==
    ASSUME NEW rs, NEW L, NEW b, NEW z, Lists(rs, L, b, z), NEW x, x \notin L,
           NEW c, NEW w, \A y \in L : c[y] = b[y] /\ w[y] = z[y],
           Span(c, w, x) \in Ranges, \A k \in 1..Len(rs) : rs[k].lo # c[x]
    PROVE  Lists(<<Span(c, w, x)>> \o rs, L \cup {x}, c, w)
<1> DEFINE n == Len(rs)
           new == Span(c, w, x)
           out == <<new>> \o rs
           M == L \cup {x}
<1>1. rs \in Seq(Ranges) /\ n \in Nat
  BY DEF Lists
<1>2. <<new>> \in Seq(Ranges) /\ Len(<<new>>) = 1 /\ <<new>>[1] = new
  OBVIOUS
<1>3. /\ out \in Seq(Ranges) /\ Len(out) = 1 + n
      /\ \A j \in 1..(1 + n) : out[j] = IF j <= 1 THEN <<new>>[j] ELSE rs[j - 1]
  <2> HIDE DEF new
  <2> QED BY <1>1, <1>2, ConcatProperties
<1> HIDE DEF out, n
<1>4. /\ Len(out) = n + 1 /\ out[1] = new /\ 1 \in 1..(n + 1)
      /\ \A j \in 1..n : j + 1 \in 1..(n + 1) /\ out[j + 1] = rs[j]
      /\ \A j \in 1..(n + 1) : j # 1 => j - 1 \in 1..n /\ out[j] = rs[j - 1]
  BY <1>1, <1>2, <1>3
<1>5. \A y \in L : Span(c, w, y) = Span(b, z, y)
  BY DEF Span
<1>6. ASSUME NEW j \in 1..(n + 1) PROVE \E y \in M : out[j] = Span(c, w, y)
  <2>1. CASE j = 1
    BY <1>4, <2>1
  <2>2. CASE j # 1
    <3>1. PICK y \in L : rs[j - 1] = Span(b, z, y)
      BY <1>4, <2>2 DEF Lists, n
    <3> QED BY <1>4, <1>5, <2>2, <3>1
  <2> QED BY <2>1, <2>2
<1>7. ASSUME NEW y \in M PROVE \E j \in 1..(n + 1) : out[j] = Span(c, w, y)
  <2>1. CASE y = x
    BY <1>4, <2>1
  <2>2. CASE y \in L
    <3>1. PICK j \in 1..n : rs[j] = Span(b, z, y)
      BY <2>2 DEF Lists, n
    <3> QED BY <1>4, <1>5, <2>2, <3>1
  <2> QED BY <2>1, <2>2
<1>8. out[1].lo = c[x]
  BY <1>4 DEF Span
<1>9. ASSUME NEW j \in 1..(n + 1), NEW l \in 1..(n + 1), out[j].lo = out[l].lo PROVE j = l
  <2>0. \A v \in 1..n : rs[v].lo # c[x]
    BY DEF n
  <2>1. CASE j = 1 /\ l # 1
    <3>1. rs[l - 1].lo = c[x] /\ l - 1 \in 1..n
      BY <1>4, <1>8, <1>9, <2>1
    <3> QED BY <2>0, <3>1
  <2>2. CASE j # 1 /\ l = 1
    <3>1. rs[j - 1].lo = c[x] /\ j - 1 \in 1..n
      BY <1>4, <1>8, <1>9, <2>2
    <3> QED BY <2>0, <3>1
  <2>3. CASE j # 1 /\ l # 1
    <3>1. \A u, v \in 1..n : rs[u].lo = rs[v].lo => u = v
      BY DEF Lists, n
    <3>2. rs[j - 1].lo = rs[l - 1].lo /\ j - 1 \in 1..n /\ l - 1 \in 1..n
      BY <1>4, <1>9, <2>3
    <3>3. j - 1 = l - 1
      BY <3>1, <3>2
    <3> QED BY <1>1, <3>3
  <2> QED BY <2>1, <2>2, <2>3
<1>10. ASSUME NEW y \in L PROVE c[y] # c[x]
  <2>1. PICK k \in 1..n : rs[k] = Span(b, z, y)
    BY DEF Lists, n
  <2>2. rs[k].lo = c[y]
    BY <2>1 DEF Span
  <2> QED BY <2>2 DEF n
<1>11. \A y, v \in M : c[y] = c[v] => y = v
  BY <1>10 DEF Lists
<1>12. IsFiniteSet(M) /\ n + 1 = Cardinality(M)
  BY FS_AddElement DEF Lists, n
<1> QED BY <1>3, <1>4, <1>6, <1>7, <1>9, <1>11, <1>12 DEF Lists, out

\* Only the sizes of what is listed matter.
LEMMA ListsSame ==
    ASSUME NEW rs, NEW L, NEW b, NEW z, Lists(rs, L, b, z), NEW w, \A y \in L : z[y] = w[y]
    PROVE  Lists(rs, L, b, w)
<1>1. \A y \in L : Span(b, w, y) = Span(b, z, y)
  BY DEF Span
<1> QED BY <1>1 DEF Lists

\* A list of nothing.
LEMMA ListsNothing == ASSUME NEW b, NEW z PROVE Lists(<<>>, {}, b, z)
BY FS_EmptySet DEF Lists

----------------------------------------------------------------------------
(* What eval_mm_valid does to the list.                                    *)

\* The sizes asked for after n requests.
Asked(n) == [x \in Ids |-> SizeOf(n, x)]

RangesOK == phase = "valid" => Lists(ranges, Live(i - 1), blocks, Asked(i - 1))

\* The state of the driver, on any allocator.
DriverOK ==
    /\ phase \in Phases
    /\ trace \in Seq(Requests)
    /\ i \in Nat \ {0} /\ (InPass => i <= Len(trace) + 1)
    /\ blocks \in [Ids -> Int]
    /\ TraceOK

\* A range that passes the tests of add_range does not wrap around.
LEMMA RangeFits ==
    ASSUME NEW rs, NEW h, h.brk \in Int, h.brk <= mem_max_addr, NEW p, NEW n \in Sizes,
           RangeOK(rs, h, p, n)
    PROVE  /\ p \in Int /\ n \in Nat \ {0} /\ range_t(p, n) = [lo |-> p, hi |-> p + n - 1]
           /\ mem_start_brk <= p /\ p + n <= h.brk /\ p % ALIGNMENT = 0
           /\ \A k \in 1..Len(rs) : {p, p + n - 1} \cap (rs[k].lo..rs[k].hi) = {}
<1> DEFINE H == 2^(W - 1)
           M == 2^W
           e == p + n - 1
<1>1. /\ H \in Nat \ {0} /\ M \in Nat \ {0} /\ M = H + H
      /\ mem_start_brk \in Nat \ {0} /\ mem_max_addr = mem_start_brk + MAX_HEAP
      /\ MAX_HEAP \in Nat /\ MAX_HEAP < H /\ mem_max_addr < M
  BY Halves, HeapAssumption DEF mem_max_addr
<1>2. n \in Nat \ {0} /\ n <= H - 1
  BY <1>1, RequestsAssumption
<1>3. p \in mem_start_brk..(h.brk - 1) /\ e % M \in mem_start_brk..(h.brk - 1)
  BY DEF RangeOK, range_t, mem_heap_lo, mem_heap_hi
<1>4. p \in Int /\ mem_start_brk <= p /\ p <= h.brk - 1
  BY <1>1, <1>3
<1> HIDE DEF H, M
<1>5. e \in Nat
  BY <1>1, <1>2, <1>4
<1>6. CASE e < M
  <2>1. e % M = e
    BY <1>1, <1>5, <1>6
  <2> HIDE DEF e
  <2>2. range_t(p, n) = [lo |-> p, hi |-> e] /\ e <= h.brk - 1
    BY <1>1, <1>3, <2>1 DEF range_t, e, M
  <2> QED BY <1>2, <1>4, <2>2 DEF RangeOK, e
<1>7. CASE e >= M
  <2>1. M * 1 = M /\ e < M + M
    BY <1>1, <1>2, <1>4
  <2>2. e % M = e - M
    <3> HIDE DEF e
    <3>1. M * 1 <= e /\ e < M * 1 + M
      BY <1>1, <1>5, <1>7, <2>1
    <3>2. e % M = e - M * 1
      BY <1>1, <1>5, <3>1, Remainder
    <3> QED BY <2>1, <3>2
  <2>3. e - M < mem_start_brk
    BY <1>1, <1>2, <1>4
  <2>4. e - M >= mem_start_brk
    <3> HIDE DEF e
    <3> QED BY <1>1, <1>3, <1>5, <2>2
  <2> QED BY <1>1, <1>5, <2>3, <2>4
<1> QED BY <1>1, <1>5, <1>6, <1>7, SMTT(30)

\* With both its ends outside a payload, a new one is apart from it or around it.
LEMMA EndsOutside ==
    ASSUME NEW p \in Int, NEW n \in Nat \ {0}, NEW q \in Int, NEW m \in Nat \ {0},
           {p, p + n - 1} \cap (q..(q + m - 1)) = {}
    PROVE  \/ (p..(p + n - 1)) \cap (q..(q + m - 1)) = {}
           \/ (q..(q + m - 1)) \subseteq ((p + 1)..(p + n - 2))
<1>1. p < q \/ q + m - 1 < p
  OBVIOUS
<1>2. p + n - 1 < q \/ q + m - 1 < p + n - 1
  <2> DEFINE e == p + n - 1
             R == q..(q + m - 1)
  <2>1. e \in Int /\ e = p + n - 1 /\ e \in {p, e} /\ {p, e} \cap R = {}
    OBVIOUS
  <2>2. e \notin R
    BY ONLY <2>1
  <2> HIDE DEF e
  <2>3. e < q \/ q + m - 1 < e
    BY <2>1, <2>2
  <2> QED BY <2>1, <2>3
<1> QED BY <1>1, <1>2

LEMMA LiveStays ==
    ASSUME trace' = trace, NEW n \in Nat
    PROVE  /\ Live(n)' = Live(n) /\ Asked(n)' = Asked(n)
           /\ \A x : SizeOf(n, x)' = SizeOf(n, x)
<1>1. \A x : LastRequest(n, x)' = LastRequest(n, x)
  BY DEF LastRequest
<1> QED BY <1>1 DEF Live, SizeOf, Asked

\* The ids after the next request.
LEMMA LiveAfter ==
    ASSUME NEW n \in Nat, NEW x \in Ids, trace[n + 1].index = x
    PROVE  /\ Live(n + 1) = IF trace[n + 1].type = "FREE" THEN Live(n) \ {x} ELSE Live(n) \cup {x}
           /\ Asked(n + 1)[x] = trace[n + 1].size
           /\ \A y \in Ids \ {x} : SizeOf(n + 1, y) = SizeOf(n, y) /\ Asked(n + 1)[y] = Asked(n)[y]
<1>1. \A m \in Nat : Live(m) \subseteq Ids
  BY DEF Live
<1>2. \A y \in Ids \ {x} : (y \in Live(n + 1) <=> y \in Live(n)) /\ SizeOf(n + 1, y) = SizeOf(n, y)
  BY LiveNext
<1>3. (x \in Live(n + 1) <=> trace[n + 1].type # "FREE") /\ SizeOf(n + 1, x) = trace[n + 1].size
  BY LiveNext
<1> DEFINE k == n + 1
<1>4. k \in Nat
  OBVIOUS
<1>5. Live(k) \subseteq Ids /\ Live(n) \subseteq Ids
  BY <1>1, <1>4
<1>6. /\ \A y \in Ids \ {x} : (y \in Live(k) <=> y \in Live(n)) /\ SizeOf(k, y) = SizeOf(n, y)
      /\ (x \in Live(k) <=> trace[k].type # "FREE") /\ SizeOf(k, x) = trace[k].size
  BY <1>2, <1>3
<1> HIDE DEF k
<1>7. Live(k) = IF trace[k].type = "FREE" THEN Live(n) \ {x} ELSE Live(n) \cup {x}
  <2>1. CASE trace[k].type = "FREE"
    BY <1>5, <1>6, <2>1
  <2>2. CASE trace[k].type # "FREE"
    BY <1>5, <1>6, <2>2
  <2> QED BY <2>1, <2>2
<1>8. /\ Asked(k)[x] = trace[k].size
      /\ \A y \in Ids \ {x} : SizeOf(k, y) = SizeOf(n, y) /\ Asked(k)[y] = Asked(n)[y]
  BY <1>6 DEF Asked
<1> QED BY <1>7, <1>8 DEF k

\* A block that passes the tests is put on the list, in place of the one that
\* was moved.
LEMMA RangesAccept ==
    ASSUME DriverOK, RangesOK, OverlapsAreNested, phase = "valid", i <= Len(trace),
           op.type # "FREE", NEW r, r.heap.brk \in Int, r.heap.brk <= mem_max_addr, NEW rs,
           rs = IF op.type = "ALLOC" THEN ranges ELSE remove_range(ranges, blocks[op.index]),
           RangeOK(rs, r.heap, r.p, op.size), ranges' = add_range(rs, r.p, op.size),
           blocks' = [blocks EXCEPT ![op.index] = r.p], i' = i + 1, trace' = trace,
           phase' = phase
    PROVE  RangesOK' /\ OverlapsAreNested'
<1>0. PICK n \in Nat : n = i - 1
  BY DEF DriverOK
<1>1. PICK x \in Ids : x = op.index
  BY OpIs DEF DriverOK
<1>2. PICK p : p = r.p
  OBVIOUS
<1>3. PICK m \in Sizes : m = op.size
  BY OpIs DEF DriverOK
<1>4. /\ i = n + 1 /\ i' - 1 = n + 1 /\ n + 1 \in 1..Len(trace) /\ op = trace[n + 1]
      /\ n \in 0..Len(trace) /\ n + 1 \in 0..Len(trace)
  BY <1>0, OpIs DEF DriverOK
<1>5. /\ p \in Int /\ m \in Nat \ {0} /\ range_t(p, m) = [lo |-> p, hi |-> p + m - 1]
      /\ \A k \in 1..Len(rs) : {p, p + m - 1} \cap (rs[k].lo..rs[k].hi) = {}
  <2> PICK h : h = r.heap
    OBVIOUS
  <2>1. h.brk \in Int /\ h.brk <= mem_max_addr /\ RangeOK(rs, h, p, m)
    BY <1>2, <1>3
  <2> QED BY <2>1, RangeFits, ZenonT(30)
<1> DEFINE L == Live(n) \ {x}
<1>6. Lists(ranges, Live(n), blocks, Asked(n))
  BY <1>0 DEF RangesOK
<1>7. Lists(rs, L, blocks, Asked(n))
  <2>1. CASE op.type = "ALLOC"
    <3>1. x \notin Live(n)
      BY <1>0, <1>1, <1>4, <2>1 DEF DriverOK, TraceOK
    <3>2. L = Live(n) /\ rs = ranges
      BY <2>1, <3>1
    <3> QED BY <1>6, <3>2
  <2>2. CASE op.type # "ALLOC"
    <3>1. x \in Live(n)
      BY <1>0, <1>1, <1>4, <2>2 DEF DriverOK, TraceOK
    <3>2. rs = remove_range(ranges, blocks[x])
      BY <1>1, <2>2
    <3> QED BY <1>6, <3>1, <3>2, ListsRemove, ZenonT(30)
  <2> QED BY <2>1, <2>2
<1>8. Live(n + 1) = L \cup {x} /\ x \notin L
  BY <1>1, <1>4, LiveAfter
<1>9. /\ Live(n + 1)' = Live(n + 1) /\ Asked(n + 1)' = Asked(n + 1)
      /\ \A y : SizeOf(n + 1, y)' = SizeOf(n + 1, y)
  <2> PICK k \in Nat : k = n + 1
    OBVIOUS
  <2>1. /\ Live(k)' = Live(k) /\ Asked(k)' = Asked(k)
        /\ \A y : SizeOf(k, y)' = SizeOf(k, y)
    BY LiveStays
  <2> QED BY <2>1
<1>10. /\ \A y \in L : y \in Ids /\ blocks'[y] = blocks[y] /\ Asked(n + 1)[y] = Asked(n)[y]
       /\ blocks'[x] = p /\ Asked(n + 1)[x] = m /\ \A y \in Ids : Asked(n + 1)[y] = SizeOf(n + 1, y)
  <2>1. L \subseteq Ids \ {x}
    BY DEF Live
  <2>2. blocks' = [blocks EXCEPT ![x] = p] /\ blocks \in [Ids -> Int]
    BY <1>1, <1>2 DEF DriverOK
  <2>3. \A y \in Ids \ {x} : Asked(n + 1)[y] = Asked(n)[y]
    BY <1>1, <1>4, LiveAfter
  <2>4. Asked(n + 1)[x] = m
    BY <1>1, <1>3, <1>4, LiveAfter
  <2> QED BY <2>1, <2>2, <2>3, <2>4 DEF Asked
<1>11. ASSUME NEW y \in L
       PROVE  /\ blocks[y] \in Int /\ Asked(n)[y] \in Nat \ {0}
              /\ {p, p + m - 1} \cap (blocks[y]..(blocks[y] + Asked(n)[y] - 1)) = {}
  <2>1. y \in Ids /\ SizeOf(n, y) \in Sizes
    BY <1>4, LiveSizes DEF DriverOK
  <2>2. blocks[y] \in Int /\ Asked(n)[y] \in Nat \ {0}
    BY <2>1, SizesPositive DEF DriverOK, Asked
  <2>3. PICK k \in 1..Len(rs) : rs[k] = Span(blocks, Asked(n), y)
    BY <1>7 DEF Lists
  <2>4. rs[k].lo = blocks[y] /\ rs[k].hi = blocks[y] + Asked(n)[y] - 1
    BY <2>3 DEF Span
  <2> QED BY <1>5, <2>2, <2>4
<1> DEFINE c == blocks'
           w == Asked(n + 1)
<1>12. Lists(ranges', Live(n + 1), blocks', Asked(n + 1))
  <2>1. Span(c, w, x) = [lo |-> p, hi |-> p + m - 1] /\ Span(c, w, x) \in Ranges
    BY <1>5, <1>10 DEF Span, Ranges
  <2>2. ASSUME NEW k \in 1..Len(rs) PROVE rs[k].lo # c[x]
    <3>1. PICK y \in L : rs[k] = Span(blocks, Asked(n), y)
      BY <1>7 DEF Lists
    <3>2. rs[k].lo = blocks[y]
      BY <3>1 DEF Span
    <3>3. blocks[y] # p
      <4>1. blocks[y] \in blocks[y]..(blocks[y] + Asked(n)[y] - 1)
        BY <1>11
      <4> QED BY <1>11, <4>1
    <3> QED BY <1>10, <3>2, <3>3
  <2>3. ranges' = <<Span(c, w, x)>> \o rs
    BY <1>2, <1>3, <1>5, <2>1 DEF add_range
  <2>4. \A y \in L : c[y] = blocks[y] /\ w[y] = Asked(n)[y]
    BY <1>10
  <2> HIDE DEF c, w, L
  <2>5. Lists(<<Span(c, w, x)>> \o rs, L \cup {x}, c, w)
    BY <1>7, <1>8, <2>1, <2>2, <2>4, ListsAdd
  <2> QED BY <1>8, <2>3, <2>5 DEF c, w
<1>13. RangesOK'
  BY <1>4, <1>9, <1>12 DEF RangesOK
<1> DEFINE bytes(y) == c[y]..(c[y] + w[y] - 1)
           inside(y) == (c[y] + 1)..(c[y] + w[y] - 2)
<1>14. ASSUME NEW y \in L
       PROVE  bytes(x) \cap bytes(y) = {} \/ bytes(y) \subseteq inside(x)
  <2>1. /\ c[x] = p /\ w[x] = m /\ c[y] = blocks[y] /\ w[y] = Asked(n)[y]
        /\ c[y] \in Int /\ w[y] \in Nat \ {0}
    BY <1>10, <1>11
  <2>2. {p, p + m - 1} \cap (c[y]..(c[y] + w[y] - 1)) = {}
    BY <1>11, <2>1
  <2> HIDE DEF c, w
  <2> QED BY <1>5, <2>1, <2>2, EndsOutside
<1>15. ASSUME NEW y \in L, NEW v \in L, y # v
       PROVE  \/ bytes(y) \cap bytes(v) = {}
              \/ bytes(y) \subseteq inside(v) \/ bytes(v) \subseteq inside(y)
  <2>1. /\ c[y] = blocks[y] /\ w[y] = SizeOf(n, y) /\ c[v] = blocks[v] /\ w[v] = SizeOf(n, v)
        /\ y \in Live(i - 1) /\ v \in Live(i - 1)
    BY <1>0, <1>10 DEF Asked
  <2> HIDE DEF c, w
  <2> QED BY <1>0, <1>15, <2>1 DEF OverlapsAreNested, Payload
<1>16. \A y, v \in Live(n + 1) : \/ y = v \/ bytes(y) \cap bytes(v) = {}
                                 \/ bytes(y) \subseteq inside(v) \/ bytes(v) \subseteq inside(y)
  <2> HIDE DEF bytes, inside
  <2> SUFFICES ASSUME NEW y \in Live(n + 1), NEW v \in Live(n + 1), y # v
               PROVE  \/ bytes(y) \cap bytes(v) = {}
                      \/ bytes(y) \subseteq inside(v) \/ bytes(v) \subseteq inside(y)
    OBVIOUS
  <2>1. CASE y = x
    BY <1>8, <1>14, <2>1
  <2>2. CASE v = x
    BY <1>8, <1>14, <2>2
  <2>3. CASE y \in L /\ v \in L
    BY <1>15, <2>3
  <2> QED BY <1>8, <2>1, <2>2, <2>3
<1>17. OverlapsAreNested'
  <2>1. \A y \in Live(n + 1) : w[y] = SizeOf(n + 1, y)'
    BY <1>9, <1>10 DEF Live
  <2> HIDE DEF w
  <2> QED BY <1>4, <1>9, <1>16, <2>1 DEF OverlapsAreNested, Payload
<1> QED BY <1>13, <1>17

LEMMA RangesFree ==
    ASSUME DriverOK, RangesOK, OverlapsAreNested, phase = "valid", i <= Len(trace),
           op.type = "FREE", ranges' = remove_range(ranges, blocks[op.index]),
           blocks' = blocks, i' = i + 1, trace' = trace, phase' = phase
    PROVE  RangesOK' /\ OverlapsAreNested'
<1>0. PICK n \in Nat : n = i - 1
  BY DEF DriverOK
<1>1. PICK x \in Ids : x = op.index
  BY OpIs DEF DriverOK
<1>2. PICK k \in Nat : k = n + 1
  OBVIOUS
<1>3. i' - 1 = k /\ i - 1 = n /\ i = k /\ op = trace[k] /\ i \in 1..Len(trace)
  BY <1>0, <1>2, OpIs DEF DriverOK
<1>4. x \in Live(n)
  BY <1>1, <1>3 DEF DriverOK, TraceOK
<1>5. Lists(ranges', Live(n) \ {x}, blocks, Asked(n))
  BY <1>1, <1>3, <1>4, ListsRemove DEF RangesOK
<1>6. /\ Live(k) = Live(n) \ {x}
      /\ \A y \in Ids \ {x} : SizeOf(k, y) = SizeOf(n, y) /\ Asked(k)[y] = Asked(n)[y]
  <2>1. trace[n + 1].index = x /\ trace[n + 1].type = "FREE"
    BY <1>1, <1>2, <1>3
  <2>2. /\ Live(n + 1) = Live(n) \ {x}
        /\ \A y \in Ids \ {x} : SizeOf(n + 1, y) = SizeOf(n, y) /\ Asked(n + 1)[y] = Asked(n)[y]
    BY <2>1, LiveAfter
  <2> QED BY <1>2, <2>2
<1>7. Live(k)' = Live(k) /\ Asked(k)' = Asked(k) /\ \A y : SizeOf(k, y)' = SizeOf(k, y)
  BY LiveStays
<1>8. \A y \in Live(k) : y \in Live(n) /\ SizeOf(k, y)' = SizeOf(n, y) /\ Asked(k)[y] = Asked(n)[y]
  <2>1. Live(n) \subseteq Ids
    BY DEF Live
  <2> QED BY <1>6, <1>7, <2>1
<1>9. Lists(ranges', Live(k), blocks, Asked(k))
  <2>1. Lists(ranges', Live(k), blocks, Asked(n))
    BY <1>5, <1>6
  <2>2. \A y \in Live(k) : Asked(n)[y] = Asked(k)[y]
    BY <1>8
  <2> QED BY <2>1, <2>2, ListsSame
<1>10. RangesOK'
  BY <1>3, <1>7, <1>9 DEF RangesOK
<1>11. OverlapsAreNested'
  BY <1>3, <1>7, <1>8 DEF OverlapsAreNested, Payload
<1> QED BY <1>10, <1>11

LEMMA RangesStart == ASSUME ranges' = <<>>, i' = 1 PROVE RangesOK' /\ OverlapsAreNested'
<1>1. Live(0)' = {}
  <2>1. ASSUME NEW x PROVE LastRequest(0, x)' = 0
    <3>1. Last(trace', 0, x) \in 0..0
      BY LastIs
    <3> QED BY <3>1 DEF Last, LastRequest
  <2> QED BY <2>1 DEF Live
<1>2. i' - 1 = 0
  OBVIOUS
<1>3. Lists(<<>>, {}, blocks', Asked(0)')
  BY ListsNothing
<1> QED BY <1>1, <1>2, <1>3 DEF RangesOK, OverlapsAreNested

----------------------------------------------------------------------------
(* The steps of eval_mm_valid, whatever the allocator returns.             *)

ValidInv == DriverOK /\ RangesOK /\ OverlapsAreNested

\* A request has been served,
LEMMA DriverServes ==
    ASSUME DriverOK, InPass, i <= Len(trace), i' = i + 1, UNCHANGED <<phase, trace>>,
           blocks' \in [Ids -> Int]
    PROVE  DriverOK'
BY TraceStays DEF DriverOK, InPass

\* a trace has ended.
LEMMA DriverEnds ==
    ASSUME ValidInv, phase' = "read", trace' = <<>>, i' = 1, blocks' = [x \in Ids |-> NULL]
    PROVE  ValidInv'
<1>1. TraceOK' /\ trace' \in Seq(Requests) /\ blocks' \in [Ids -> Int]
  BY DEF TraceOK, NULL
<1> QED BY <1>1 DEF ValidInv, DriverOK, RangesOK, OverlapsAreNested, InPass, Phases

LEMMA ReadValid == ASSUME ValidInv, NEW o \in Requests, ReadRequest(o) PROVE ValidInv'
<1>1. Reads(o) /\ trace \in Seq(Requests) /\ TraceOK
  BY DEF ReadRequest, Reads, ValidInv, DriverOK, recordVars
<1>2. TraceOK' /\ trace' \in Seq(Requests)
  BY <1>1, TraceRead DEF Reads
<1> QED
  BY <1>1, <1>2 DEF Reads, ValidInv, DriverOK, RangesOK, OverlapsAreNested, InPass

LEMMA StartsValid == ASSUME ValidInv, StartValid PROVE ValidInv'
<1>1. trace' = trace /\ blocks' = blocks /\ i' = 1 /\ ranges' = <<>> /\ phase' = "valid"
  BY DEF StartValid, recordVars
<1>2. TraceOK'
  BY <1>1, TraceStays DEF ValidInv, DriverOK
<1>3. DriverOK'
  BY <1>1, <1>2 DEF ValidInv, DriverOK, InPass, Phases
<1> QED BY <1>1, <1>3, RangesStart DEF ValidInv

\* A block is accepted.
LEMMA AcceptValid ==
    ASSUME ValidInv, phase = "valid", i <= Len(trace), op.type # "FREE",
           NEW r, r.heap.brk \in Int, r.heap.brk <= mem_max_addr, NEW rs,
           rs = IF op.type = "ALLOC" THEN ranges ELSE remove_range(ranges, blocks[op.index]),
           RangeOK(rs, r.heap, r.p, op.size), Accept(rs, r)
    PROVE  ValidInv'
<1>1. /\ ranges' = add_range(rs, r.p, op.size) /\ blocks' = [blocks EXCEPT ![op.index] = r.p]
      /\ i' = i + 1 /\ trace' = trace /\ phase' = phase
  BY DEF Accept, Remember, passVars
<1>2. r.p \in Int
  <2>1. r.p \in mem_start_brk..(r.heap.brk - 1)
    BY DEF RangeOK, mem_heap_lo, mem_heap_hi
  <2> QED BY <2>1
<1>3. blocks' \in [Ids -> Int]
  BY <1>1, <1>2 DEF ValidInv, DriverOK
<1>4. DriverOK'
  BY <1>1, <1>3, DriverServes DEF ValidInv, InPass
<1>5. RangesOK' /\ OverlapsAreNested'
  BY <1>1, RangesAccept DEF ValidInv
<1> QED BY <1>4, <1>5 DEF ValidInv

LEMMA AllocValid ==
    ASSUME ValidInv, NEW r, r.heap.brk \in Int, r.heap.brk <= mem_max_addr, ValidAlloc(r)
    PROVE  ValidInv'
<1>1. phase = "valid" /\ i <= Len(trace) /\ op.type = "ALLOC"
  BY DEF ValidAlloc, Request
<1>2. CASE Reject(ranges, r)
  BY <1>2, DriverEnds DEF Reject, NextTrace
<1>3. CASE RangeOK(ranges, r.heap, r.p, op.size) /\ Accept(ranges, r)
  BY <1>1, <1>3, AcceptValid
<1> QED BY <1>2, <1>3 DEF ValidAlloc

LEMMA ReallocValid ==
    ASSUME ValidInv, NEW r, r.heap.brk \in Int, r.heap.brk <= mem_max_addr, ValidRealloc(r)
    PROVE  ValidInv'
<1> DEFINE rs == remove_range(ranges, blocks[op.index])
<1>1. phase = "valid" /\ i <= Len(trace) /\ op.type = "REALLOC"
  BY DEF ValidRealloc, Request
<1>2. ASSUME NEW R, Reject(R, r) PROVE ValidInv'
  BY <1>2, DriverEnds DEF Reject, NextTrace
<1>3. CASE RangeOK(rs, r.heap, r.p, op.size) /\ Accept(rs, r)
  BY <1>1, <1>3, AcceptValid
<1> QED BY <1>2, <1>3 DEF ValidRealloc

LEMMA FreeValid == ASSUME ValidInv, NEW h, ValidFree(h) PROVE ValidInv'
<1>1. /\ phase = "valid" /\ i <= Len(trace) /\ op.type = "FREE"
      /\ ranges' = remove_range(ranges, blocks[op.index]) /\ blocks' = blocks
      /\ i' = i + 1 /\ trace' = trace /\ phase' = phase
  BY DEF ValidFree, Request, passVars, recordVars
<1>2. DriverOK'
  BY <1>1, DriverServes DEF ValidInv, InPass, DriverOK
<1>3. RangesOK' /\ OverlapsAreNested'
  BY <1>1, RangesFree DEF ValidInv
<1> QED BY <1>2, <1>3 DEF ValidInv

----------------------------------------------------------------------------
(* Any allocator.                                                          *)

AnyInv == ValidInv /\ \E b, m : heap = [brk |-> b, mem |-> m]

LEMMA InitAny == ASSUME Init PROVE AnyInv
<1>1. trace = <<>> /\ trace \in Seq(Requests) /\ phase = "read" /\ i = 1 /\ blocks \in [Ids -> Int]
  BY DEF Init, NULL
<1>2. TraceOK
  BY <1>1 DEF TraceOK
<1>3. \E b, m : heap = [brk |-> b, mem |-> m]
  BY DEF Init, mem_init
<1>4. DriverOK
  BY <1>1, <1>2 DEF DriverOK, Phases, InPass
<1>5. RangesOK /\ OverlapsAreNested
  BY <1>1 DEF RangesOK, OverlapsAreNested
<1> QED BY <1>3, <1>4, <1>5 DEF AnyInv, ValidInv

LEMMA NextAnyInv == ASSUME AnyInv, [AnyNext]_vars PROVE AnyInv'
<1>0. ValidInv
  BY DEF AnyInv
<1>1. PICK b, m : heap = [brk |-> b, mem |-> m]
  BY DEF AnyInv
<1> DEFINE Shaped(h) == \E c, n : h = [brk |-> c, mem |-> n]
           AtEnd(r) == Shaped(r.heap) /\ r.heap.brk = mem_max_addr
<1>2. Full = [brk |-> mem_max_addr, mem |-> m]
  BY <1>1 DEF Full
<1>3. \A r \in AnyReturn : AtEnd(r)
  <2>1. ASSUME NEW p PROVE AtEnd(Returns(p, Full))
    BY <1>2 DEF Returns
  <2> HIDE DEF AtEnd
  <2> QED BY <2>1 DEF AnyReturn
<1>4. \A r \in AnyMove : AtEnd(r)
  <2>1. ASSUME NEW n, NEW p PROVE AtEnd(Returns(p, [Full EXCEPT !.mem = n]))
    <3>1. [Full EXCEPT !.mem = n] = [brk |-> mem_max_addr, mem |-> n]
      BY <1>2
    <3> QED BY <3>1 DEF Returns
  <2> HIDE DEF AtEnd
  <2> QED BY <1>3, <2>1 DEF AnyMove
<1>5. mem_max_addr \in Int
  BY HeapNumbers
<1>6. ASSUME NEW r, AtEnd(r) PROVE r.heap.brk \in Int /\ r.heap.brk <= mem_max_addr
  BY <1>5, <1>6
<1>7. ASSUME NEW rs, NEW r, Shaped(r.heap), Accept(rs, r) \/ Reject(rs, r) PROVE Shaped(heap')
  <2>1. PICK c, n : r.heap = [brk |-> c, mem |-> n]
    BY <1>7
  <2>2. CASE Accept(rs, r)
    <3>1. heap' = [brk |-> c, mem |-> Filled(n, r.p, Fill(op.index), op.size)]
      BY <2>1, <2>2 DEF Accept
    <3> QED BY <3>1
  <2>3. CASE Reject(rs, r)
    BY <2>1, <2>3 DEF Reject
  <2> QED BY <1>7, <2>2, <2>3
<1> HIDE DEF Shaped
<1>8. ASSUME NEW o \in Requests, ReadRequest(o) PROVE ValidInv' /\ Shaped(heap')
  BY <1>0, <1>1, <1>8, ReadValid DEF ReadRequest, Shaped
<1>9. CASE StartValid
  <2>1. heap' = [brk |-> mem_start_brk, mem |-> m]
    BY <1>1, <1>9 DEF StartValid, mem_reset_brk
  <2> QED BY <1>0, <1>9, <2>1, StartsValid DEF AnyInv
<1>10. ASSUME NEW r \in AnyReturn, ValidAlloc(r) PROVE ValidInv' /\ Shaped(heap')
  <2>1. AtEnd(r)
    BY <1>3
  <2>2. ValidInv'
    BY <1>0, <1>6, <1>10, <2>1, AllocValid
  <2>3. \E rs : Accept(rs, r) \/ Reject(rs, r)
    BY <1>10 DEF ValidAlloc
  <2> QED BY <1>7, <2>1, <2>2, <2>3
<1>11. ASSUME NEW r \in AnyMove, ValidRealloc(r) PROVE ValidInv' /\ Shaped(heap')
  <2>1. AtEnd(r)
    BY <1>4
  <2>2. ValidInv'
    BY <1>0, <1>6, <1>11, <2>1, ReallocValid
  <2>3. \E rs : Accept(rs, r) \/ Reject(rs, r)
    BY <1>11 DEF ValidRealloc
  <2> QED BY <1>7, <2>1, <2>2, <2>3
<1>12. CASE ValidFree(Full)
  <2>1. heap' = Full
    BY <1>12 DEF ValidFree
  <2> QED BY <1>0, <1>2, <1>12, <2>1, FreeValid DEF AnyInv
<1>13. CASE UNCHANGED vars
  <2>1. UNCHANGED <<phase, trace, i, blocks, ranges, heap>>
    BY <1>13 DEF vars
  <2>2. TraceOK'
    BY <1>0, <2>1, TraceStays DEF ValidInv, DriverOK
  <2>3. \A n \in Nat : /\ Live(n)' = Live(n) /\ Asked(n)' = Asked(n)
                       /\ \A x : SizeOf(n, x)' = SizeOf(n, x)
    BY <2>1, LiveStays
  <2> PICK n \in Nat : n = i - 1
    BY <1>0 DEF ValidInv, DriverOK
  <2>5. i' - 1 = n /\ i - 1 = n
    BY <2>1
  <2>6. DriverOK'
    BY <1>0, <2>1, <2>2 DEF ValidInv, DriverOK, InPass
  <2>7. RangesOK'
    BY <1>0, <2>1, <2>3, <2>5 DEF ValidInv, RangesOK
  <2>8. OverlapsAreNested'
    BY <1>0, <2>1, <2>3, <2>5 DEF ValidInv, OverlapsAreNested, Payload
  <2> QED BY <1>0, <1>1, <2>1, <2>6, <2>7, <2>8 DEF AnyInv, ValidInv
<1> QED
  BY <1>8, <1>9, <1>10, <1>11, <1>12, <1>13 DEF AnyNext, AnyInv, Shaped

LEMMA AnyInvariant == AnySpec => []AnyInv
BY InitAny, NextAnyInv, PTL DEF AnySpec

\* While eval_mm_valid runs, on any allocator, the range list holds exactly the
\* payloads the trace has allocated and not freed, each once: the tests of
\* add_range make the low ends distinct, by which remove_range finds its range
\* (add_range and remove_range, mdriver.c:381-449).
THEOREM RangesStayTrue == AnySpec => []RangesAgree
<1>1. ASSUME AnyInv PROVE RangesAgree
  <2> SUFFICES ASSUME phase = "valid"
               PROVE  /\ S!ToSet(ranges) =
                             {[lo |-> blocks[x], hi |-> blocks[x] + SizeOf(i - 1, x) - 1] : x \in Live(i - 1)}
                      /\ Len(ranges) = Cardinality(Live(i - 1))
    BY DEF RangesAgree
  <2> DEFINE L == Live(i - 1)
             z == Asked(i - 1)
  <2>1. Lists(ranges, L, blocks, z)
    BY <1>1 DEF AnyInv, ValidInv, RangesOK
  <2>2. \A x \in L : Span(blocks, z, x) = [lo |-> blocks[x], hi |-> blocks[x] + SizeOf(i - 1, x) - 1]
    BY DEF Span, Asked, Live
  <2>3. S!ToSet(ranges) = {ranges[k] : k \in 1..Len(ranges)}
    BY DEF S!ToSet
  <2> HIDE DEF L, z
  <2>4. {ranges[k] : k \in 1..Len(ranges)} = {Span(blocks, z, x) : x \in L}
    BY <2>1, SMTT(30) DEF Lists
  <2>5. Len(ranges) = Cardinality(L)
    BY <2>1 DEF Lists
  <2>6. {Span(blocks, z, x) : x \in L} =
            {[lo |-> blocks[x], hi |-> blocks[x] + SizeOf(i - 1, x) - 1] : x \in L}
    BY <2>2
  <2> QED BY <2>3, <2>4, <2>5, <2>6 DEF L
<1> QED BY <1>1, AnyInvariant, PTL

\* Of any allocator: two payloads that eval_mm_valid has accepted share bytes only
\* if one lies strictly inside the other, although add_range compares no more
\* than the two ends of the new payload with those listed (mdriver.c:381-429).
THEOREM OverlapsStayNested == AnySpec => []OverlapsAreNested
BY AnyInvariant, PTL DEF AnyInv, ValidInv

----------------------------------------------------------------------------
(* What eval_mm_util counts.                                               *)

\* A trace allocates finitely many ids, of sizes that are numbers.
LEMMA LiveFinite ==
    ASSUME trace \in Seq(Requests), NEW n \in 0..Len(trace)
    PROVE  /\ n \in Nat /\ IsFiniteSet(Live(n)) /\ Live(n) \subseteq Ids
           /\ \A x \in Live(n) : Asked(n)[x] = SizeOf(n, x) /\ Asked(n)[x] \in Nat \ {0}
<1> DEFINE T == {m \in Nat : m <= Len(trace) => IsFiniteSet(Live(m))}
<1>1. 0 \in T
  BY LiveFirst, FS_EmptySet
<1>2. ASSUME NEW m \in Nat, m \in T PROVE m + 1 \in T
  <2> SUFFICES ASSUME m + 1 <= Len(trace) PROVE IsFiniteSet(Live(m + 1))
    OBVIOUS
  <2>1. m + 1 \in 1..Len(trace) /\ IsFiniteSet(Live(m))
    BY <1>2
  <2>2. PICK x \in Ids : x = trace[m + 1].index
    BY <2>1 DEF Requests
  <2>3. Live(m + 1) = IF trace[m + 1].type = "FREE" THEN Live(m) \ {x} ELSE Live(m) \cup {x}
    BY <2>2, LiveAfter
  <2>4. IsFiniteSet(Live(m) \ {x}) /\ IsFiniteSet(Live(m) \cup {x})
    <3> PICK A : A = Live(m)
      OBVIOUS
    <3>1. IsFiniteSet(A)
      BY <2>1
    <3>2. IsFiniteSet(A \ {x}) /\ IsFiniteSet(A \cup {x})
      BY <3>1, FS_AddElement, FS_RemoveElement
    <3> QED BY <3>2
  <2> QED BY <2>3, <2>4
<1> HIDE DEF T
<1>3. n \in T
  BY <1>1, <1>2, SetInduction
<1>4. \A x \in Live(n) : x \in Ids /\ SizeOf(n, x) \in Nat \ {0}
  BY LiveSizes, SizesPositive
<1> QED BY <1>3, <1>4 DEF T, Asked, Live

\* The bytes asked for by what is allocated after n requests,
Total(n) == SumOf(Asked(n), Live(n))

LEMMA TotalType ==
    ASSUME trace \in Seq(Requests), NEW n \in 0..Len(trace)
    PROVE  Total(n) \in Int
<1> PICK f, L : f = Asked(n) /\ L = Live(n)
  OBVIOUS
<1>1. IsFiniteSet(L) /\ \A x \in L : f[x] \in Int
  BY LiveFinite
<1>2. SumOf(f, L) \in Int
  BY <1>1, SumIs
<1> QED BY <1>2 DEF Total

\* and after one more.
LEMMA TotalNext ==
    ASSUME trace \in Seq(Requests), TraceOK, NEW n \in Nat, n + 1 <= Len(trace),
           NEW o, o = trace[n + 1]
    PROVE  Total(n + 1) = CASE o.type = "ALLOC" -> Total(n) + o.size
                            [] o.type = "REALLOC" -> Total(n) - SizeOf(n, o.index) + o.size
                            [] o.type = "FREE" -> Total(n) - SizeOf(n, o.index)
<1>1. n + 1 \in 1..Len(trace) /\ n \in 0..Len(trace)
  OBVIOUS
<1>2. o \in Requests
  BY <1>1
<1>3. PICK x \in Ids : x = o.index
  BY <1>2 DEF Requests
<1>4. o.type \in {"ALLOC", "REALLOC", "FREE"} /\ o.size \in Int
  BY <1>2, SizesPositive DEF Requests
<1>5. PICK f, g, A, B : f = Asked(n) /\ g = Asked(n + 1) /\ A = Live(n) /\ B = Live(n + 1)
  OBVIOUS
<1>6. o.type = "ALLOC" <=> x \notin A
  <2>1. (n + 1) - 1 = n
    OBVIOUS
  <2> QED BY <1>1, <1>3, <1>5, <2>1 DEF TraceOK
<1>7. IsFiniteSet(A) /\ A \subseteq Ids /\ \A y \in A : f[y] = SizeOf(n, y) /\ f[y] \in Int
  BY <1>1, <1>5, LiveFinite
<1> DEFINE L == A \ {x}
<1>8. /\ B = IF o.type = "FREE" THEN L ELSE A \cup {x}
      /\ g[x] = o.size /\ \A y \in Ids \ {x} : g[y] = f[y]
  <2>1. trace[n + 1].index = x
    BY <1>3
  <2> QED BY <1>5, <2>1, LiveAfter
<1>9. IsFiniteSet(L) /\ x \notin L /\ \A y \in L : f[y] \in Int /\ g[y] = f[y]
  BY <1>7, <1>8, FS_RemoveElement
<1>10. A \cup {x} = L \cup {x} /\ (x \notin A => A = L) /\ (x \in A => A = L \cup {x})
  OBVIOUS
<1> HIDE DEF L
<1>11. SumOf(g, L) = SumOf(f, L) /\ SumOf(f, L) \in Int
  BY <1>9, SumSame, SumIs
<1>12. SumOf(g, L \cup {x}) = o.size + SumOf(g, L)
  BY <1>4, <1>8, <1>9, SumAdd
<1>13. x \in A => SumOf(f, A) = SizeOf(n, x) + SumOf(f, L) /\ SizeOf(n, x) \in Int
  <2> SUFFICES ASSUME x \in A
               PROVE  SumOf(f, A) = SizeOf(n, x) + SumOf(f, L) /\ SizeOf(n, x) \in Int
    OBVIOUS
  <2>1. f[x] \in Int /\ f[x] = SizeOf(n, x)
    BY <1>7
  <2>2. SumOf(f, L \cup {x}) = f[x] + SumOf(f, L)
    BY <1>9, <2>1, SumAdd
  <2> QED BY <1>10, <2>1, <2>2
<1>14. Total(n) = SumOf(f, A) /\ Total(n + 1) = SumOf(g, B)
  BY <1>5 DEF Total
<1>15. CASE o.type = "ALLOC"
  BY <1>4, <1>6, <1>8, <1>10, <1>11, <1>12, <1>14, <1>15
<1>16. CASE o.type = "REALLOC"
  <2>1. SumOf(f, A) = SizeOf(n, x) + SumOf(f, L) /\ SizeOf(n, x) \in Int
    BY <1>6, <1>13, <1>16
  <2>2. SumOf(g, B) = o.size + SumOf(f, L)
    BY <1>8, <1>10, <1>11, <1>12, <1>16
  <2> QED BY <1>3, <1>4, <1>11, <1>14, <1>16, <2>1, <2>2
<1>17. CASE o.type = "FREE"
  <2>1. SumOf(f, A) = SizeOf(n, x) + SumOf(f, L) /\ SizeOf(n, x) \in Int
    BY <1>6, <1>13, <1>17
  <2>2. SumOf(g, B) = SumOf(f, L)
    BY <1>8, <1>11, <1>17
  <2> QED BY <1>3, <1>11, <1>14, <1>17, <2>1, <2>2
<1> QED BY <1>4, <1>15, <1>16, <1>17

\* block_sizes holds the sizes, the total is that of what is allocated, its
\* highest value the highest there was, and the blocks are in the heap.
SizesOK ==
    /\ block_sizes \in [Ids -> Nat]
    /\ phase \in {"valid", "util"} =>
           \A x \in Live(i - 1) : block_sizes[x] = SizeOf(i - 1, x)
TotalsOK ==
    phase = "util" =>
        /\ total_size = Total(i - 1)
        /\ \E n \in 0..(i - 1) : max_total_size = Total(n)
        /\ \A n \in 0..(i - 1) : Total(n) <= max_total_size
        /\ max_total_size <= heap.brk - mem_start_brk
UtilInv == SizesOK /\ TotalsOK

LEMMA SizesServe ==
    ASSUME IInv, SizesOK, phase \in {"valid", "util"}, i <= Len(trace), i' = i + 1,
           UNCHANGED <<trace, phase>>,
           block_sizes' = IF op.type = "FREE" THEN block_sizes
                          ELSE [block_sizes EXCEPT ![op.index] = op.size]
    PROVE  SizesOK'
<1>0. PICK n \in Nat : i = n + 1
  <2>1. i - 1 \in Nat /\ i = (i - 1) + 1
    BY DEF IInv, TypeOK
  <2> QED BY <2>1
<1>1. PICK k \in Nat : k = n + 1
  OBVIOUS
<1>2. PICK x \in Ids : x = op.index
  BY RequestIs DEF IInv
<1>3. i' - 1 = k /\ i - 1 = n /\ i = k /\ op = trace[k] /\ trace[n + 1] = op
  BY <1>0, <1>1 DEF op
<1>4. op.type # "FREE" => op.size \in Nat
  BY RequestIs DEF IInv
<1>5. /\ Live(n + 1) = IF trace[n + 1].type = "FREE" THEN Live(n) \ {x} ELSE Live(n) \cup {x}
      /\ Asked(n + 1)[x] = trace[n + 1].size
      /\ \A y \in Ids \ {x} : SizeOf(n + 1, y) = SizeOf(n, y) /\ Asked(n + 1)[y] = Asked(n)[y]
  <2>1. trace[n + 1].index = x
    BY <1>2, <1>3
  <2> QED BY <2>1, LiveAfter
<1>6. /\ Live(k) = IF op.type = "FREE" THEN Live(n) \ {x} ELSE Live(n) \cup {x}
      /\ SizeOf(k, x) = op.size /\ \A y \in Ids \ {x} : SizeOf(k, y) = SizeOf(n, y)
  BY <1>1, <1>3, <1>5 DEF Asked
<1>7. Live(k)' = Live(k) /\ \A y : SizeOf(k, y)' = SizeOf(k, y)
  BY LiveStays
<1>8. block_sizes' \in [Ids -> Nat]
  BY <1>2, <1>4 DEF SizesOK
<1>9. ASSUME NEW y \in Live(k) PROVE block_sizes'[y] = SizeOf(k, y)
  <2>1. y \in Ids /\ block_sizes \in [Ids -> Nat]
    BY DEF Live, SizesOK
  <2>2. CASE y = x
    BY <1>2, <1>6, <1>9, <2>1, <2>2
  <2>3. CASE y # x
    <3>1. y \in Live(n) /\ SizeOf(k, y) = SizeOf(n, y)
      BY <1>6, <1>9, <2>1, <2>3
    <3>2. block_sizes[y] = SizeOf(n, y)
      BY <1>3, <3>1 DEF SizesOK
    <3> QED BY <1>2, <2>1, <2>3, <3>1, <3>2
  <2> QED BY <2>2, <2>3
<1> QED BY <1>3, <1>7, <1>8, <1>9 DEF SizesOK

LEMMA SizesStart == ASSUME SizesOK, i' = 1, block_sizes' = block_sizes PROVE SizesOK'
<1>1. Live(0)' = {}
  <2>1. ASSUME NEW x PROVE LastRequest(0, x)' = 0
    <3>1. Last(trace', 0, x) \in 0..0
      BY LastIs
    <3> QED BY <3>1 DEF Last, LastRequest
  <2> QED BY <2>1 DEF Live
<1>2. i' - 1 = 0
  OBVIOUS
<1> QED BY <1>1, <1>2 DEF SizesOK

\* A request of eval_mm_util that changes the totals as it should.
LEMMA TotalsServe ==
    ASSUME IInv, TotalsOK, phase = "util", i <= Len(trace), i' = i + 1, trace' = trace,
           total_size' = Total(i),
           max_total_size' \in {max_total_size, total_size'},
           max_total_size' >= max_total_size, max_total_size' >= total_size',
           max_total_size' <= heap'.brk - mem_start_brk
    PROVE  TotalsOK'
<1>0. PICK n \in Nat : i = n + 1
  <2>1. i - 1 \in Nat /\ i = (i - 1) + 1
    BY DEF IInv, TypeOK
  <2> QED BY <2>1
<1>1. PICK j \in Nat : j = n + 1
  OBVIOUS
<1>2. i' - 1 = j /\ i - 1 = n /\ i = j /\ j <= Len(trace) /\ trace \in Seq(Requests)
  BY <1>0, <1>1 DEF IInv, TypeOK
<1>3. \A m \in Nat : Total(m)' = Total(m)
  <2> TAKE m \in Nat
  <2>1. Live(m)' = Live(m) /\ Asked(m)' = Asked(m)
    BY LiveStays
  <2> QED BY <2>1 DEF Total
<1>4. /\ \A m \in 0..j : m \in Nat /\ (m \in 0..n \/ m = j)
      /\ j \in 0..j /\ \A m \in 0..n : m \in 0..j /\ m \in Nat
  BY <1>1
<1>5. \A m \in 0..j : Total(m) \in Int
  <2> TAKE m \in 0..j
  <2>1. m \in 0..Len(trace)
    BY <1>1, <1>2
  <2> QED BY <1>2, <2>1, TotalType
<1>6. PICK k \in 0..n : max_total_size = Total(k)
  BY <1>2 DEF TotalsOK
<1>7. max_total_size \in Int /\ total_size' \in Int /\ max_total_size' \in Int
  BY <1>2, <1>4, <1>5, <1>6
<1>8. \A m \in 0..n : Total(m) <= max_total_size
  BY <1>2 DEF TotalsOK
<1>9. \E m \in 0..j : max_total_size' = Total(m)'
  BY <1>2, <1>3, <1>4, <1>6
<1>10. ASSUME NEW m \in 0..j PROVE Total(m)' <= max_total_size'
  <2>1. Total(m)' = Total(m) /\ Total(m) \in Int
    BY <1>3, <1>4, <1>5
  <2>2. CASE m = j
    BY <1>2, <2>1, <2>2
  <2>3. CASE m \in 0..n
    BY <1>7, <1>8, <2>1, <2>3
  <2> QED BY <1>4, <2>2, <2>3
<1>11. total_size' = Total(j)'
  BY <1>2, <1>3
<1> QED BY <1>2, <1>9, <1>10, <1>11 DEF TotalsOK

\* It starts with nothing.
LEMMA TotalsStart ==
    ASSUME IInv, i' = 1, total_size' = 0, max_total_size' = 0, heap' = mem_reset_brk(heap)
    PROVE  TotalsOK'
<1>1. Live(0)' = {}
  <2>1. ASSUME NEW x PROVE LastRequest(0, x)' = 0
    <3>1. Last(trace', 0, x) \in 0..0
      BY LastIs
    <3> QED BY <3>1 DEF Last, LastRequest
  <2> QED BY <2>1 DEF Live
<1>2. Total(0)' = 0
  BY <1>1, SumEmpty DEF Total
<1>3. heap'.brk = mem_start_brk /\ mem_start_brk \in Int
  BY HeapNumbers DEF IInv, TypeOK, AnyHeaps, mem_reset_brk
<1>4. i' - 1 = 0 /\ \A n \in 0..0 : n = 0
  OBVIOUS
<1>5. 0 \in 0..0
  OBVIOUS
<1> QED BY <1>2, <1>3, <1>4, <1>5 DEF TotalsOK

\* A step of eval_mm_util: the break rises by no less than the total does.
LEMMA UtilServes ==
    ASSUME IInv, UtilInv, phase = "util", i <= Len(trace), i' = i + 1, UNCHANGED <<trace, phase>>,
           block_sizes' = IF op.type = "FREE" THEN block_sizes
                          ELSE [block_sizes EXCEPT ![op.index] = op.size],
           NEW d, d = CASE op.type = "ALLOC" -> op.size
                        [] op.type = "REALLOC" -> op.size - block_sizes[op.index]
                        [] op.type = "FREE" -> 0 - block_sizes[op.index],
           total_size' = total_size + d,
           max_total_size' = F!Max({max_total_size, total_size'}),
           heap'.brk \in Int, heap'.brk >= heap.brk, heap'.brk >= heap.brk + d
    PROVE  UtilInv'
<1>0. PICK n \in Nat : i = n + 1
  <2>1. i - 1 \in Nat /\ i = (i - 1) + 1
    BY DEF IInv, TypeOK
  <2> QED BY <2>1
<1>1. i - 1 = n /\ n + 1 <= Len(trace) /\ trace \in Seq(Requests) /\ TraceOK
  BY <1>0 DEF IInv, TypeOK
<1>2. PICK x \in Ids : x = op.index
  BY RequestIs DEF IInv
<1>3. op.type \in {"ALLOC", "REALLOC", "FREE"} /\ (op.type # "FREE" => op.size \in Nat)
  BY RequestIs DEF IInv
<1>4. op = trace[n + 1] /\ i \in 1..Len(trace)
  BY <1>0, RequestIs DEF IInv, op
<1>5. op.type # "ALLOC" => x \in Live(n)
  BY <1>1, <1>2, <1>4 DEF TraceOK
<1>6. op.type # "ALLOC" => block_sizes[x] = SizeOf(n, x)
  BY <1>1, <1>5 DEF UtilInv, SizesOK
<1>7. block_sizes[x] \in Nat
  BY DEF UtilInv, SizesOK
<1>8. Total(n + 1) = CASE op.type = "ALLOC" -> Total(n) + op.size
                       [] op.type = "REALLOC" -> Total(n) - SizeOf(n, op.index) + op.size
                       [] op.type = "FREE" -> Total(n) - SizeOf(n, op.index)
  BY <1>1, <1>4, TotalNext
<1>9. /\ total_size = Total(n) /\ total_size <= max_total_size
      /\ max_total_size <= heap.brk - mem_start_brk
      /\ \E k \in 0..n : max_total_size = Total(k)
  <2>1. n \in 0..n
    OBVIOUS
  <2> QED BY <1>1, <2>1 DEF UtilInv, TotalsOK
<1>10. total_size \in Int /\ max_total_size \in Int
  <2>1. \A k \in 0..n : k \in 0..Len(trace)
    BY <1>1
  <2>2. \A k \in 0..n : Total(k) \in Int
    BY <1>1, <2>1, TotalType
  <2>3. n \in 0..n
    OBVIOUS
  <2> QED BY <1>9, <2>2, <2>3
<1>11. d \in Int /\ total_size' \in Int /\ total_size' = total_size + d
  <2>1. d \in Int
    BY <1>2, <1>3, <1>7
  <2>2. total_size' = total_size + d
    OBVIOUS
  <2> QED BY ONLY <1>10, <2>1, <2>2
<1>12. total_size' = Total(n + 1)
  <2>1. CASE op.type = "ALLOC"
    BY <1>8, <1>9, <2>1
  <2>2. CASE op.type = "REALLOC"
    <3>1. block_sizes[x] = SizeOf(n, x) /\ Total(n) \in Int /\ op.size \in Int
      BY <1>3, <1>6, <1>9, <1>10, <2>2
    <3> QED BY <1>2, <1>7, <1>8, <1>9, <2>2, <3>1
  <2>3. CASE op.type = "FREE"
    <3>1. block_sizes[x] = SizeOf(n, x) /\ Total(n) \in Int
      BY <1>6, <1>9, <1>10, <2>3
    <3> QED BY <1>2, <1>7, <1>8, <1>9, <2>3, <3>1
  <2> QED BY <1>3, <2>1, <2>2, <2>3
<1>13. /\ max_total_size' \in {max_total_size, total_size'}
       /\ max_total_size' >= max_total_size /\ max_total_size' >= total_size'
  <2> PICK a, c : a = max_total_size /\ c = total_size'
    OBVIOUS
  <2>1. a \in Int /\ c \in Int
    BY <1>10, <1>11
  <2>2. \E e \in {a, c} : \A y \in {a, c} : e >= y
    <3>1. CASE a >= c
      BY ONLY <2>1, <3>1
    <3>2. CASE c >= a
      BY ONLY <2>1, <3>2
    <3> QED BY ONLY <2>1, <3>1, <3>2
  <2>3. F!Max({a, c}) \in {a, c} /\ \A y \in {a, c} : F!Max({a, c}) >= y
    BY <2>2 DEF F!Max
  <2> QED BY <2>3
<1>14. max_total_size' <= heap'.brk - mem_start_brk
  <2>1. heap.brk \in Int /\ mem_start_brk \in Int
    BY HeapNumbers DEF IInv, TypeOK, AnyHeaps
  <2> PICK e, b : e = heap'.brk /\ b = heap.brk
    OBVIOUS
  <2>2. e \in Int /\ e >= b /\ e >= b + d /\ b \in Int
    BY <2>1
  <2>3. total_size + d <= e - mem_start_brk /\ max_total_size <= e - mem_start_brk
    BY ONLY <1>9, <1>10, <1>11, <2>1, <2>2, b = heap.brk
  <2> QED BY <1>11, <1>13, <2>3
<1>15. total_size' = Total(i)
  BY <1>0, <1>12
<1> QED BY <1>13, <1>14, <1>15, SizesServe, TotalsServe DEF UtilInv

\* The totals are numbers.
LEMMA UtilNumbers ==
    ASSUME IInv, TotalsOK, phase = "util"
    PROVE  total_size \in Int /\ max_total_size \in Int /\ total_size <= max_total_size
<1> PICK n \in Nat : n = i - 1
  BY DEF IInv, TypeOK
<1>1. trace \in Seq(Requests) /\ \A k \in 0..n : k \in 0..Len(trace)
  BY DEF IInv, TypeOK, InPass
<1>2. n \in 0..n /\ \A k \in 0..n : Total(k) \in Int
  BY <1>1, TotalType
<1> QED BY <1>2 DEF TotalsOK

\* Outside eval_mm_util there is nothing to count.
LEMMA TotalsElse == ASSUME phase' # "util" PROVE TotalsOK'
BY DEF TotalsOK

LEMMA UtilNext == ASSUME IInv, UtilInv, [Next]_vars PROVE UtilInv'
<1>0. SizesOK /\ TotalsOK /\ block_sizes \in [Ids -> Nat]
  BY DEF UtilInv, SizesOK
<1>1. ASSUME NEW rs, NEW r, Reject(rs, r) PROVE UtilInv'
  <2>1. phase' = "read" /\ block_sizes' = [x \in Ids |-> 0]
    BY <1>1 DEF Reject, NextTrace
  <2>2. SizesOK'
    BY <2>1 DEF SizesOK
  <2> QED BY <2>1, <2>2, TotalsElse DEF UtilInv
<1>2. ASSUME phase = "valid", i <= Len(trace), op.type # "FREE", NEW rs, NEW r, Accept(rs, r)
      PROVE  UtilInv'
  <2>1. /\ i' = i + 1 /\ trace' = trace /\ phase' = phase
        /\ block_sizes' = [block_sizes EXCEPT ![op.index] = op.size]
    BY <1>2 DEF Accept, passVars, Remember
  <2>2. SizesOK'
    BY <1>0, <1>2, <2>1, SizesServe
  <2> QED BY <1>2, <2>1, <2>2, TotalsElse DEF UtilInv
<1>3. ASSUME phase = "util", i <= Len(trace), op.type # "FREE", NEW r, r.p # NULL,
             r = IF op.type = "ALLOC" THEN malloc ELSE realloc,
             heap' = r.heap, Remember(r.p),
             Account(IF op.type = "ALLOC" THEN op.size ELSE op.size - block_sizes[op.index])
      PROVE  UtilInv'
  <2>1. /\ i' = i + 1 /\ trace' = trace /\ phase' = phase
        /\ block_sizes' = [block_sizes EXCEPT ![op.index] = op.size]
        /\ total_size' = total_size + (IF op.type = "ALLOC" THEN op.size
                                       ELSE op.size - block_sizes[op.index])
        /\ max_total_size' = F!Max({max_total_size, total_size'})
    BY <1>3 DEF Account, passVars, Remember
  <2>2. /\ op.type \in {"ALLOC", "REALLOC"} /\ op.index \in Ids /\ op.size \in Sizes
        /\ op.size \in Nat
    BY <1>3, RequestIs DEF IInv
  <2>3. GivesBlock(heap, op.size, r)
    <3>1. (op.type = "ALLOC" /\ r = malloc) \/ (op.type = "REALLOC" /\ r = realloc)
      BY <1>3, <2>2
    <3> QED BY <1>3, <2>2, <3>1, CallGives, PassFits DEF InPass, Gives
  <2>4. newsize(op.size) \in Nat /\ newsize(op.size) >= op.size + SIZE_T_SIZE
    BY <2>2, <2>3, BlockFits DEF GivesBlock
  <2>5. heap.brk \in Int /\ heap'.brk = heap.brk + newsize(op.size) /\ block_sizes[op.index] \in Nat
    BY <1>0, <1>3, <2>2, <2>3, HeapNumbers DEF IInv, TypeOK, AnyHeaps, GivesBlock
  <2> PICK d : d = IF op.type = "ALLOC" THEN op.size ELSE op.size - block_sizes[op.index]
    OBVIOUS
  <2>6. d = CASE op.type = "ALLOC" -> op.size
              [] op.type = "REALLOC" -> op.size - block_sizes[op.index]
              [] op.type = "FREE" -> 0 - block_sizes[op.index]
    BY <2>2
  <2>7. heap'.brk \in Int /\ heap'.brk >= heap.brk /\ heap'.brk >= heap.brk + d
    <3> PICK s, w, b, e : s = op.size /\ w = newsize(op.size) /\ b = heap.brk
                          /\ e = block_sizes[op.index]
      OBVIOUS
    <3>1. s \in Nat /\ w \in Nat /\ b \in Int /\ e \in Nat /\ w >= s + SIZE_T_SIZE
          /\ heap'.brk = b + w /\ SIZE_T_SIZE \in Nat
      BY <2>2, <2>4, <2>5, HeaderFits
    <3>2. d \in Int /\ d <= s
      BY <3>1
    <3>3. b + w \in Int /\ b + w >= b /\ b + w >= b + d
      BY ONLY <3>1, <3>2
    <3> QED BY <3>1, <3>3
  <2>8. total_size' = total_size + d
    BY <2>1
  <2> QED BY <1>3, <2>1, <2>6, <2>7, <2>8, UtilServes
<1>4. ASSUME NEW o \in Requests, ReadRequest(o) PROVE UtilInv'
  <2>1. phase' = "read" /\ block_sizes' = block_sizes
    BY <1>4 DEF ReadRequest, recordVars
  <2> QED BY <1>0, <2>1 DEF UtilInv, SizesOK, TotalsOK
<1>5. CASE StartValid
  <2>1. phase' = "valid" /\ block_sizes' = block_sizes /\ i' = 1
    BY <1>5 DEF StartValid, recordVars
  <2> QED BY <1>0, <2>1, SizesStart, TotalsElse DEF UtilInv
<1>6. CASE StartUtil
  <2>1. /\ block_sizes' = block_sizes /\ i' = 1 /\ heap' = mem_reset_brk(heap)
        /\ total_size' = 0 /\ max_total_size' = 0
    BY <1>6 DEF StartUtil, recordVars
  <2> QED BY <1>0, <2>1, SizesStart, TotalsStart DEF UtilInv
<1>7. CASE StartSpeed
  <2>1. phase' = "speed" /\ block_sizes' = block_sizes
    BY <1>7 DEF StartSpeed, recordVars
  <2> QED BY <1>0, <2>1 DEF UtilInv, SizesOK, TotalsOK
<1>8. CASE EndSpeed
  <2>1. phase' = "read" /\ block_sizes' = [x \in Ids |-> 0]
    BY <1>8 DEF EndSpeed, NextTrace
  <2>2. SizesOK'
    BY <2>1 DEF SizesOK
  <2> QED BY <2>1, <2>2, TotalsElse DEF UtilInv
<1>9. CASE ValidAlloc(malloc)
  <2>1. phase = "valid" /\ i <= Len(trace) /\ op.type # "FREE"
    BY <1>9 DEF ValidAlloc, Request
  <2> QED BY <1>1, <1>2, <1>9, <2>1 DEF ValidAlloc
<1>10. CASE ValidRealloc(realloc)
  <2>1. phase = "valid" /\ i <= Len(trace) /\ op.type # "FREE"
    BY <1>10 DEF ValidRealloc, Request
  <2> QED BY <1>1, <1>2, <1>10, <2>1 DEF ValidRealloc
<1>11. CASE ValidFree(free)
  <2>1. /\ phase = "valid" /\ i <= Len(trace) /\ op.type = "FREE"
        /\ i' = i + 1 /\ trace' = trace /\ phase' = phase /\ block_sizes' = block_sizes
    BY <1>11 DEF ValidFree, Request, passVars, recordVars
  <2>2. SizesOK'
    BY <1>0, <2>1, SizesServe
  <2> QED BY <2>1, <2>2, TotalsElse DEF UtilInv
<1>12. CASE UtilAlloc(malloc)
  BY <1>3, <1>12 DEF UtilAlloc, Request
<1>13. CASE UtilRealloc(realloc)
  BY <1>3, <1>13 DEF UtilRealloc, Request
<1>14. CASE UtilFree(free)
  <2>1. /\ phase = "util" /\ i <= Len(trace) /\ op.type = "FREE"
        /\ i' = i + 1 /\ trace' = trace /\ phase' = phase /\ block_sizes' = block_sizes
        /\ heap' = heap /\ total_size' = total_size - block_sizes[op.index]
        /\ max_total_size' = max_total_size
    BY <1>14 DEF UtilFree, Request, passVars, recordVars, free, mm_free
  <2>2. op.index \in Ids /\ block_sizes[op.index] \in Nat /\ heap.brk \in Int
    BY <1>0, <2>1, RequestIs, HeapNumbers DEF IInv, TypeOK, AnyHeaps
  <2> PICK d : d = 0 - block_sizes[op.index]
    OBVIOUS
  <2>3. d = CASE op.type = "ALLOC" -> op.size
              [] op.type = "REALLOC" -> op.size - block_sizes[op.index]
              [] op.type = "FREE" -> 0 - block_sizes[op.index]
    BY <2>1
  <2>4. total_size \in Int /\ max_total_size \in Int /\ total_size <= max_total_size
    BY <1>0, <2>1, UtilNumbers
  <2>5. total_size' = total_size + d /\ heap'.brk \in Int /\ heap'.brk >= heap.brk
        /\ heap'.brk >= heap.brk + d
    <3> PICK b : b = heap.brk
      OBVIOUS
    <3>1. d \in Int /\ d <= 0 /\ b \in Int /\ heap'.brk = b
      BY <2>1, <2>2
    <3>2. b >= b + d
      BY ONLY <3>1
    <3>3. total_size' = total_size + d
      BY <2>1, <2>2, <2>4
    <3> QED BY <3>1, <3>2, <3>3
  <2>6. max_total_size' = F!Max({max_total_size, total_size'})
    <3> PICK a, c : a = max_total_size /\ c = total_size'
      OBVIOUS
    <3>1. a \in Int /\ c \in Int /\ c <= a
      BY <2>1, <2>2, <2>4, SMTT(30)
    <3>2. a \in {a, c} /\ \A y \in {a, c} : a >= y
      BY <3>1
    <3>3. F!Max({a, c}) \in {a, c} /\ \A y \in {a, c} : F!Max({a, c}) >= y
      BY <3>2 DEF F!Max
    <3>4. F!Max({a, c}) = a
      BY <3>1, <3>3
    <3> QED BY <2>1, <3>4
  <2> QED BY <2>1, <2>3, <2>5, <2>6, UtilServes
<1>15. CASE SpeedStep
  <2>1. phase' = "speed" /\ block_sizes' = block_sizes
    BY <1>15 DEF SpeedStep, Request, SpeedCall, SpeedFree, passVars, recordVars
  <2> QED BY <1>0, <2>1 DEF UtilInv, SizesOK, TotalsOK
<1>16. CASE UNCHANGED vars
  <2>1. UNCHANGED <<phase, trace, i, heap, block_sizes, total_size, max_total_size>>
    BY <1>16 DEF vars, totals
  <2>2. \A n \in Nat : /\ Live(n)' = Live(n) /\ Asked(n)' = Asked(n)
                       /\ \A x : SizeOf(n, x)' = SizeOf(n, x)
    BY <2>1, LiveStays
  <2>3. \A n \in Nat : Total(n)' = Total(n)
    BY <2>2 DEF Total
  <2> PICK k \in Nat : k = i - 1
    BY DEF IInv, TypeOK
  <2>4. i' - 1 = k /\ i - 1 = k /\ \A n \in 0..k : n \in Nat
    BY <2>1
  <2>5. SizesOK'
    BY <1>0, <2>1, <2>2, <2>4 DEF SizesOK
  <2>6. TotalsOK'
    BY <1>0, <2>1, <2>3, <2>4 DEF TotalsOK
  <2> QED BY <2>5, <2>6 DEF UtilInv
<1> QED
  BY <1>4, <1>5, <1>6, <1>7, <1>8, <1>9, <1>10, <1>11, <1>12, <1>13, <1>14, <1>15, <1>16
     DEF Next, MainStep, ValidStep, UtilStep

LEMMA UtilInvariant == Spec => []UtilInv
<1>1. ASSUME Init PROVE UtilInv
  BY <1>1 DEF Init, UtilInv, SizesOK, TotalsOK
<1> QED BY <1>1, Invariant, UtilNext, PTL DEF Spec

\* The sum of the property is Total.
LEMMA TotalIs ==
    ASSUME trace \in Seq(Requests), NEW n \in 0..Len(trace)
    PROVE  F!MapThenSumSet(LAMBDA x : SizeOf(n, x), Live(n)) = Total(n)
<1> PICK f, L : f = Asked(n) /\ L = Live(n)
  OBVIOUS
<1>1. IsFiniteSet(L) /\ \A x \in L : f[x] = SizeOf(n, x) /\ f[x] \in Int
  BY LiveFinite
<1> DEFINE I(it) == it = [s \in SUBSET L |->
                             IF s = {} THEN 0
                             ELSE LET x == CHOOSE x \in s : TRUE IN SizeOf(n, x) + it[s \ {x}]]
<1>2. ASSUME NEW it PROVE SumsUp(it, f, L) <=> I(it)
  <2>1. \A s \in SUBSET L : s # {} => f[Chosen(s)] = SizeOf(n, Chosen(s))
    BY <1>1 DEF Chosen
  <2>2. [s \in SUBSET L |-> IF s = {} THEN 0 ELSE f[Chosen(s)] + it[s \ {Chosen(s)}]] =
        [s \in SUBSET L |-> IF s = {} THEN 0 ELSE SizeOf(n, Chosen(s)) + it[s \ {Chosen(s)}]]
    BY <2>1
  <2> QED BY <2>2 DEF SumsUp, Chosen
<1>3. F!MapThenSumSet(LAMBDA x : SizeOf(n, x), L) = (CHOOSE it : I(it))[L]
  BY DEF F!MapThenSumSet, F!MapThenFoldSet
<1> HIDE DEF I
<1>4. (CHOOSE it : I(it)) = (CHOOSE it : SumsUp(it, f, L))
  BY <1>2
<1> QED BY <1>3, <1>4 DEF Total, SumOf

\* eval_mm_util counts the bytes asked for by the blocks that are allocated, its
\* hwm is the highest such number, and it is no higher than the heap: the
\* utilisation that it returns is at most 1 (eval_mm_util, mdriver.c:698-778).
THEOREM UtilizationStaysExact == Spec => []UtilizationExact
<1>1. ASSUME IInv, UtilInv PROVE UtilizationExact
  <2> DEFINE Sum(n) == F!MapThenSumSet(LAMBDA x : SizeOf(n, x), Live(n))
  <2> SUFFICES ASSUME phase = "util"
               PROVE  /\ total_size = Sum(i - 1)
                      /\ max_total_size = F!Max({Sum(n) : n \in 0..(i - 1)})
                      /\ max_total_size <= mem_heapsize(heap)
    BY DEF UtilizationExact
  <2> PICK k \in Nat : k = i - 1
    BY <1>1 DEF IInv, TypeOK
  <2>1. trace \in Seq(Requests) /\ \A n \in 0..k : n \in 0..Len(trace)
    BY <1>1 DEF IInv, TypeOK, InPass
  <2>2. \A n \in 0..k : Sum(n) = Total(n) /\ Total(n) \in Int
    BY <2>1, TotalIs, TotalType
  <2> HIDE DEF Sum
  <2>3. /\ total_size = Total(k) /\ \E n \in 0..k : max_total_size = Total(n)
        /\ \A n \in 0..k : Total(n) <= max_total_size
        /\ max_total_size <= heap.brk - mem_start_brk
    BY <1>1 DEF UtilInv, TotalsOK
  <2> DEFINE V == {Sum(n) : n \in 0..k}
  <2>4. max_total_size \in V /\ \A v \in V : v \in Int /\ max_total_size >= v
    BY <2>2, <2>3
  <2>5. F!Max(V) = max_total_size
    <3> HIDE DEF V
    <3>1. F!Max(V) \in V /\ \A v \in V : F!Max(V) >= v
      BY <2>4 DEF F!Max
    <3> QED BY <2>4, <3>1
  <2>6. k \in 0..k
    OBVIOUS
  <2> QED BY <2>2, <2>3, <2>5, <2>6 DEF mem_heapsize
<1> QED BY <1>1, Invariant, UtilInvariant, PTL

----------------------------------------------------------------------------
(* What eval_mm_valid finds fault with.                                    *)

\* The range list on mm.c.
LEMMA RangesNext == ASSUME IInv, ValidInv, [Next]_vars PROVE ValidInv'
<1>0. IInv'
  BY NextInv
<1>1. DriverOK'
  <2>1. \A b : b \in [Ids -> Nat] => b \in [Ids -> Int]
    OBVIOUS
  <2> QED BY <1>0, <2>1 DEF IInv, TypeOK, DriverOK
<1>2. ASSUME phase' # "valid" PROVE ValidInv'
  BY <1>1, <1>2 DEF ValidInv, RangesOK, OverlapsAreNested
<1>3. ASSUME InPass, i <= Len(trace), NEW r,
             (op.type = "ALLOC" /\ r = malloc) \/ (op.type = "REALLOC" /\ r = realloc)
      PROVE  r.heap.brk \in Int /\ r.heap.brk <= mem_max_addr
  <2>1. Gives(heap, op.size, r) /\ heap \in Heaps
    BY <1>3, CallGives, PassHeap DEF IInv
  <2>2. r.heap \in Heaps \/ r.heap \in AnyHeaps
    BY <2>1 DEF Gives, GivesBlock, Aligned, Wraps
  <2> QED BY <2>2, HeapNumbers DEF Heaps, AnyHeaps
<1>4. CASE StartValid
  BY <1>4, StartsValid
<1>5. CASE ValidAlloc(malloc)
  <2>1. InPass /\ i <= Len(trace) /\ op.type = "ALLOC"
    BY <1>5 DEF ValidAlloc, Request, InPass
  <2>2. malloc.heap.brk \in Int /\ malloc.heap.brk <= mem_max_addr
    BY <1>3, <2>1
  <2> QED BY <1>5, <2>2, AllocValid
<1>6. CASE ValidRealloc(realloc)
  <2>1. InPass /\ i <= Len(trace) /\ op.type = "REALLOC"
    BY <1>6 DEF ValidRealloc, Request, InPass
  <2>2. realloc.heap.brk \in Int /\ realloc.heap.brk <= mem_max_addr
    BY <1>3, <2>1
  <2> QED BY <1>6, <2>2, ReallocValid
<1>7. CASE ValidFree(free)
  BY <1>7, FreeValid
<1>8. CASE UtilStep \/ SpeedStep
  <2>1. phase' \in {"util", "speed"}
    BY <1>8 DEF UtilStep, SpeedStep, UtilAlloc, UtilRealloc, UtilFree, SpeedCall, SpeedFree,
                Account, Request, passVars
  <2> QED BY <1>2, <2>1
<1>9. CASE StartUtil \/ StartSpeed \/ EndSpeed
  <2>1. phase' # "valid"
    BY <1>9 DEF StartUtil, StartSpeed, EndSpeed, NextTrace
  <2> QED BY <1>2, <2>1
<1>10. ASSUME NEW o \in Requests, ReadRequest(o) PROVE ValidInv'
  BY <1>10, ReadValid
<1>11. CASE UNCHANGED vars
  <2>1. UNCHANGED <<phase, trace, i, blocks, ranges>>
    BY <1>11 DEF vars
  <2>2. \A n \in Nat : /\ Live(n)' = Live(n) /\ Asked(n)' = Asked(n)
                       /\ \A x : SizeOf(n, x)' = SizeOf(n, x)
    BY <2>1, LiveStays
  <2> PICK n \in Nat : n = i - 1
    BY DEF IInv, TypeOK
  <2>3. i' - 1 = n /\ i - 1 = n
    BY <2>1
  <2>4. RangesOK'
    BY <2>1, <2>2, <2>3 DEF ValidInv, RangesOK
  <2>5. OverlapsAreNested'
    BY <2>1, <2>2, <2>3 DEF ValidInv, OverlapsAreNested, Payload
  <2> QED BY <1>1, <2>4, <2>5 DEF ValidInv
<1> QED
  BY <1>4, <1>5, <1>6, <1>7, <1>8, <1>9, <1>10, <1>11 DEF Next, MainStep, ValidStep

\* A block that mm.c gives passes the tests of add_range.
LEMMA RangePasses ==
    ASSUME IInv, ValidInv, phase = "valid", i <= Len(trace), op.type # "FREE",
           NEW r, GivesBlock(heap, op.size, r), NEW rs,
           rs = IF op.type = "ALLOC" THEN ranges ELSE remove_range(ranges, blocks[op.index])
    PROVE  RangeOK(rs, r.heap, r.p, op.size)
<1> PICK n \in Nat : n = i - 1
  BY DEF IInv, TypeOK
<1> PICK x \in Ids, z \in Sizes : x = op.index /\ z = op.size
  BY RequestIs DEF IInv
<1>1. n \in 0..Len(trace) /\ trace \in Seq(Requests) /\ i \in 1..Len(trace) /\ op = trace[i]
  BY RequestIs DEF IInv, TypeOK
<1>2. Lists(ranges, Live(n), blocks, Asked(n))
  BY DEF ValidInv, RangesOK
<1>3. \A k \in 1..Len(rs) : \E y \in Live(n) : rs[k] = Span(blocks, Asked(n), y)
  <2>1. CASE op.type = "ALLOC"
    BY <1>2, <2>1 DEF Lists
  <2>2. CASE op.type # "ALLOC"
    <3>1. x \in Live(n)
      BY <1>1, <2>2 DEF IInv, TraceOK
    <3>2. Lists(rs, Live(n) \ {x}, blocks, Asked(n))
      BY <1>2, <2>2, <3>1, ListsRemove
    <3> QED BY <3>2 DEF Lists
  <2> QED BY <2>1, <2>2
<1>4. \A y \in Live(n) : /\ blocks[y] \in Int /\ blocks[y] + Asked(n)[y] <= heap.brk
                         /\ Asked(n)[y] \in Nat \ {0}
  <2> TAKE y \in Live(n)
  <2>1. Placed(n, y) /\ blocks \in [Ids -> Nat]
    BY DEF IInv, TypeOK, BlocksOK, InPass
  <2>2. Asked(n)[y] = SizeOf(n, y) /\ Asked(n)[y] \in Nat \ {0} /\ y \in Ids
    BY <1>1, LiveFinite
  <2> QED BY <2>1, <2>2 DEF Placed
<1> PICK b, c, p : b = heap.brk /\ c = r.heap.brk /\ p = r.p
  OBVIOUS
<1>5. /\ z \in Nat \ {0} /\ newsize(z) \in Nat /\ newsize(z) >= z + SIZE_T_SIZE
      /\ p = b + SIZE_T_SIZE /\ c = b + newsize(z) /\ c <= mem_max_addr
      /\ b \in Nat /\ b >= mem_start_brk /\ b % ALIGNMENT = 0
      /\ mem_start_brk \in Nat /\ mem_max_addr \in Nat /\ mem_max_addr < 2^W /\ 2^W \in Nat \ {0}
      /\ SIZE_T_SIZE \in Nat \ {0} /\ SIZE_T_SIZE % ALIGNMENT = 0
  <2>1. Aligned(heap) /\ GivesBlock(heap, z, r)
    BY PassHeap DEF IInv, InPass
  <2>2. b \in mem_start_brk..mem_max_addr /\ b % ALIGNMENT = 0
    BY <2>1 DEF Aligned, Heaps
  <2> QED BY <2>1, <2>2, BlockFits, HeapNumbers, HeaderFits, SMTT(30) DEF GivesBlock
<1>6. p \in Nat /\ p > b /\ p + z <= c /\ p + z - 1 \in Nat /\ p + z - 1 < 2^W
  <2> PICK w, m : w = newsize(z) /\ m = 2^W
    OBVIOUS
  <2>1. /\ z \in Nat \ {0} /\ w \in Nat /\ w >= z + SIZE_T_SIZE
        /\ p = b + SIZE_T_SIZE /\ c = b + w /\ c <= mem_max_addr
        /\ b \in Nat /\ mem_max_addr \in Nat /\ mem_max_addr < m /\ m \in Nat
        /\ SIZE_T_SIZE \in Nat \ {0}
    BY <1>5
  <2>2. p \in Nat /\ p > b /\ p + z <= c /\ p + z - 1 \in Nat /\ p + z - 1 < m
    BY ONLY <2>1
  <2> QED BY <2>2
<1>7. range_t(p, z).hi = p + z - 1
  <2> PICK e, m : e = p + z - 1 /\ m = 2^W
    OBVIOUS
  <2>1. e \in Nat /\ m \in Nat \ {0} /\ e < m
    BY <1>5, <1>6
  <2>2. e % m = e
    BY ONLY <2>1
  <2> QED BY <2>2 DEF range_t
<1>8. p % ALIGNMENT = 0
  <2>1. b \in Int /\ SIZE_T_SIZE \in Int
    BY <1>5
  <2>2. (b + SIZE_T_SIZE) % ALIGNMENT = 0
    BY <1>5, <2>1, AlignedSum
  <2> QED BY <1>5, <2>2
<1>9. {p, p + z - 1} \subseteq mem_heap_lo..mem_heap_hi(r.heap)
  <2> PICK s, w : s = mem_start_brk /\ w = newsize(z)
    OBVIOUS
  <2>1. w \in Nat /\ c = b + w /\ b \in Nat /\ b >= s /\ s \in Nat /\ z \in Nat \ {0}
    BY <1>5
  <2>2. p \in s..(c - 1) /\ p + z - 1 \in s..(c - 1)
    BY ONLY <1>6, <2>1
  <2> QED BY <2>2 DEF mem_heap_lo, mem_heap_hi
<1>10. ASSUME NEW k \in 1..Len(rs) PROVE {p, p + z - 1} \cap (rs[k].lo..rs[k].hi) = {}
  <2> PICK y \in Live(n) : rs[k] = Span(blocks, Asked(n), y)
    BY <1>3
  <2> PICK q, v : q = blocks[y] /\ v = Asked(n)[y]
    OBVIOUS
  <2>1. rs[k].lo = q /\ rs[k].hi = q + v - 1
    BY DEF Span
  <2>2. q \in Int /\ v \in Nat /\ q + v <= b
    BY <1>4
  <2>3. {p, p + z - 1} \cap (q..(q + v - 1)) = {}
    BY ONLY <1>5, <1>6, <2>2
  <2> QED BY <2>1, <2>3
<1> QED BY <1>7, <1>8, <1>9, <1>10 DEF RangeOK

\* The block r has the first n bytes of what h holds from ptr on, but for those
\* from old on.
HasData(r, h, ptr, n, old) == \A j \in Nat : j < n /\ j < old => r.heap.mem[r.p + j] = h.mem[ptr + j]

\* mm_realloc copies what fits of the old block.
LEMMA ReallocCopies ==
    ASSUME NEW h, Aligned(h), NEW n \in Sizes, NEW ptr \in Int,
           ptr - SIZE_T_SIZE \in mem_start_brk..(h.brk - 1),
           NEW old \in Nat, h.mem[ptr - SIZE_T_SIZE] = old, ptr + old <= h.brk,
           NEW r, r = mm_realloc(h, ptr, n), Fits(h, n)
    PROVE  HasData(r, h, ptr, n, old)
<1> PICK g : g = mm_malloc(h, n)
  OBVIOUS
<1>1. GivesBlock(h, n, g) /\ g.p # NULL
  BY MallocGives DEF Gives
<1>2. r.p = g.p
  BY <1>1 DEF mm_realloc, mm_free, Returns
<1>3. g.heap.mem[ptr - SIZE_T_SIZE] = old
  BY <1>1 DEF GivesBlock
<1> PICK copySize : copySize = IF n < old THEN n ELSE old
  OBVIOUS
<1>4. r.heap = [g.heap EXCEPT !.mem = Copied(@, g.p, ptr, copySize)]
  BY <1>1, <1>3 DEF mm_realloc, mm_free, Returns
<1>5. r.heap.mem = Copied(g.heap.mem, g.p, ptr, copySize)
  BY <1>1, <1>4 DEF GivesBlock, Aligned, Heaps
<1> PICK b : b = h.brk
  OBVIOUS
<1>6. /\ b \in Nat /\ mem_start_brk \in Nat /\ mem_max_addr \in Nat /\ n \in Nat \ {0}
      /\ g.p = b + SIZE_T_SIZE /\ b + newsize(n) <= mem_max_addr /\ b >= mem_start_brk
      /\ SIZE_T_SIZE \in Nat \ {0} /\ newsize(n) \in Nat /\ newsize(n) >= n + SIZE_T_SIZE
  BY <1>1, BlockFits, HeapNumbers, HeaderFits DEF GivesBlock, Aligned, Heaps
<1> SUFFICES ASSUME NEW j \in Nat, j < n, j < old
             PROVE  r.heap.mem[r.p + j] = h.mem[ptr + j]
  BY DEF HasData
<1> PICK a, q, w : a = g.p + j /\ q = ptr + j /\ w = newsize(n)
  OBVIOUS
<1>7. a \in mem_start_brk..(mem_max_addr - 1)
  BY <1>6
<1>8. a \in g.p..(g.p + copySize - 1) /\ a - g.p = j
  BY <1>6
<1>9. Copied(g.heap.mem, g.p, ptr, copySize)[a] = g.heap.mem[q]
  BY <1>7, <1>8 DEF Copied, Addresses
<1>10. q \in mem_start_brk..(b - 1)
  BY <1>6
<1> QED BY <1>1, <1>2, <1>5, <1>9, <1>10 DEF GivesBlock

\* No fill of these ids is read as another number.
SmallFills == \A x \in Ids : x % 256 < 128

\* What mm_realloc gives holds the data of the old block.
LEMMA DataPasses ==
    ASSUME IInv, UtilInv, SmallFills, phase = "valid", i <= Len(trace), op.type = "REALLOC",
           NEW r, r = realloc, Fits(heap, op.size)
    PROVE  DataKept(r)
<1> PICK n \in Nat : n = i - 1
  BY DEF IInv, TypeOK
<1> PICK x \in Ids, z \in Sizes : x = op.index /\ z = op.size
  BY RequestIs DEF IInv
<1>1. n \in 0..Len(trace) /\ trace \in Seq(Requests) /\ i \in 1..Len(trace) /\ op = trace[i]
  BY RequestIs DEF IInv, TypeOK
<1>2. x \in Live(n)
  BY <1>1 DEF IInv, TraceOK
<1> PICK p, old, b : p = blocks[x] /\ old = SizeOf(n, x) /\ b = heap.brk
  OBVIOUS
<1>3. /\ p \in Nat /\ old \in Nat \ {0} /\ block_sizes[x] = old /\ z \in Nat \ {0}
      /\ p - SIZE_T_SIZE >= mem_start_brk /\ p + old <= b
      /\ heap.mem[p - SIZE_T_SIZE] = old
      /\ \A a \in p..(p + old - 1) : heap.mem[a] = Fill(x)
      /\ b \in Nat /\ mem_start_brk \in Nat /\ SIZE_T_SIZE \in Nat \ {0} /\ Aligned(heap)
  <2>1. Placed(n, x) /\ Kept(n, x)
    BY <1>2 DEF IInv, BlocksOK, InPass
  <2>2. old \in Nat \ {0}
    BY <1>1, <1>2, LiveSizes, SizesPositive
  <2>3. block_sizes[x] = old
    BY <1>2 DEF UtilInv, SizesOK
  <2>4. p \in Nat /\ Aligned(heap)
    BY DEF IInv, TypeOK, InPass
  <2>5. b \in Nat
    BY <2>4, HeapNumbers DEF Aligned, Heaps
  <2> QED
    BY <2>1, <2>2, <2>3, <2>4, <2>5, HeapNumbers, HeaderFits, SizesPositive DEF Placed, Kept
<1>4. p \in Int /\ p - SIZE_T_SIZE \in mem_start_brk..(b - 1)
  BY <1>3, SMTT(30)
<1>5. \A j \in Nat : j < z /\ j < old => r.heap.mem[r.p + j] = heap.mem[p + j]
  <2> PICK h : h = heap
    OBVIOUS
  <2>1. /\ Aligned(h) /\ p - SIZE_T_SIZE \in mem_start_brk..(h.brk - 1) /\ old \in Nat
        /\ h.mem[p - SIZE_T_SIZE] = old /\ p + old <= h.brk /\ r = mm_realloc(h, p, z)
    BY <1>3, <1>4 DEF realloc
  <2>2. HasData(r, h, p, z, old)
    BY <1>4, <2>1, ReallocCopies
  <2> QED BY <2>2 DEF HasData
<1>6. F!Min({z, old}) \in {z, old} /\ F!Min({z, old}) <= z /\ F!Min({z, old}) <= old
  <2>1. \E e \in {z, old} : \A y \in {z, old} : e <= y
    <3>1. CASE z <= old
      BY ONLY <1>3, <3>1
    <3>2. CASE old <= z
      BY ONLY <1>3, <3>2
    <3> QED BY ONLY <1>3, <3>1, <3>2
  <2>2. F!Min({z, old}) \in {z, old} /\ \A y \in {z, old} : F!Min({z, old}) <= y
    BY <2>1 DEF F!Min
  <2> QED BY <2>2
<1> PICK v : v = F!Min({z, old})
  OBVIOUS
<1>7. v \in Nat /\ v <= z /\ v <= old
  BY <1>3, <1>6
<1>8. ASSUME NEW j \in 0..(v - 1) PROVE Char(r.heap.mem[r.p + j]) = Fill(x)
  <2>1. j \in Nat /\ j < z /\ j < old /\ p + j \in p..(p + old - 1)
    <3>1. p \in Nat /\ old \in Nat /\ z \in Nat
      BY <1>3
    <3> QED BY ONLY <1>7, <1>8, <3>1
  <2>2. r.heap.mem[r.p + j] = Fill(x)
    BY <1>3, <1>5, <2>1
  <2>3. Fill(x) \in Int /\ Fill(x) < 128
    BY RequestsAssumption DEF SmallFills, Fill
  <2> QED BY <2>2, <2>3 DEF Char
<1> QED BY <1>3, <1>8 DEF DataKept

\* What a request costs: the block for it, as a size_t.
Cost(k) == IF trace[k].type = "FREE" THEN 0 ELSE ALIGN(trace[k].size + SIZE_T_SIZE)

LEMMA CostIs ==
    ASSUME trace \in Seq(Requests), NEW k \in 1..Len(trace)
    PROVE  /\ Cost(k) \in Nat
           /\ trace[k].type # "FREE" =>
                  /\ newsize(trace[k].size) >= 0 => Cost(k) = newsize(trace[k].size)
                  /\ ~(newsize(trace[k].size) >= 0) => Cost(k) > MAX_HEAP
<1>1. CASE trace[k].type = "FREE"
  BY <1>1 DEF Cost
<1>2. CASE trace[k].type # "FREE"
  <2> PICK n : n = trace[k].size
    OBVIOUS
  <2> PICK H, M, m : H = 2^(W - 1) /\ M = 2^W /\ m = n + SIZE_T_SIZE
    OBVIOUS
  <2>1. n \in Sizes
    BY <1>2 DEF Requests
  <2>2. /\ H \in Nat \ {0} /\ M = H + H /\ n \in Nat \ {0} /\ n < H
        /\ ALIGNMENT \in Nat \ {0} /\ SIZE_T_SIZE \in Nat \ {0} /\ SIZE_T_SIZE + ALIGNMENT <= H
        /\ MAX_HEAP \in Nat /\ MAX_HEAP < H
    <3>1. n \in 1..(H - 1) /\ H \in Nat
      BY <2>1, Halves, RequestsAssumption
    <3>2. n \in Nat \ {0} /\ n < H
      BY <3>1
    <3> QED BY <3>2, Halves, AlignmentAssumption, HeaderFits, HeapAssumption
  <2>3. m \in Nat /\ m < M /\ m + (ALIGNMENT - 1) \in Nat /\ m + (ALIGNMENT - 1) < M
    BY ONLY <2>2, m = n + SIZE_T_SIZE
  <2>4. m % M = m /\ (m + (ALIGNMENT - 1)) % M = m + (ALIGNMENT - 1)
    BY ONLY <2>2, <2>3
  <2> PICK u : u = Down(m + (ALIGNMENT - 1))
    OBVIOUS
  <2>5. u \in Nat
    BY <2>3, DownIs
  <2>6. ALIGN(m) = u /\ newsize(n) = ToInt(u)
    BY <2>4 DEF ALIGN, newsize
  <2>7. Cost(k) = u
    BY <1>2, <2>6 DEF Cost
  <2>8. newsize(n) = IF u < H THEN u ELSE u - M
    BY <2>6 DEF ToInt
  <2>9. u < M
    <3>1. u <= m + (ALIGNMENT - 1)
      BY <2>3, DownIs
    <3> QED BY ONLY <2>2, <2>3, <2>5, <3>1
  <2>10. /\ newsize(n) >= 0 => u = newsize(n)
         /\ ~(newsize(n) >= 0) => u > MAX_HEAP
    BY ONLY <2>2, <2>5, <2>8, <2>9
  <2> QED BY <2>5, <2>7, <2>10
<1> QED BY <1>1, <1>2

\* What the first n requests cost.
Costs == [k \in 1..Len(trace) |-> Cost(k)]

LEMMA CostsNext ==
    ASSUME trace \in Seq(Requests), NEW n \in Nat, n + 1 <= Len(trace)
    PROVE  /\ SumOf(Costs, 1..n) \in Int
           /\ SumOf(Costs, 1..(n + 1)) = Cost(n + 1) + SumOf(Costs, 1..n)
<1> PICK f : f = Costs
  OBVIOUS
<1>1. Len(trace) \in Nat /\ n + 1 \in 1..Len(trace) /\ \A k \in 1..n : k \in 1..Len(trace)
  OBVIOUS
<1>2. (\A k \in 1..n : f[k] \in Int) /\ f[n + 1] = Cost(n + 1) /\ f[n + 1] \in Int
  BY <1>1, CostIs DEF Costs
<1> PICK A, k : A = 1..n /\ k = n + 1
  OBVIOUS
<1>3. 1..(n + 1) = A \cup {k} /\ k \notin A /\ IsFiniteSet(A)
  <2>1. 1..(n + 1) = (1..n) \cup {n + 1} /\ n + 1 \notin 1..n
    OBVIOUS
  <2>2. IsFiniteSet(1..n)
    BY FS_Interval
  <2> QED BY <2>1, <2>2
<1>4. /\ SumOf(f, A) \in Int /\ SumOf(f, A \cup {k}) = f[k] + SumOf(f, A)
  BY <1>2, <1>3, SumIs, SumAdd
<1> QED BY <1>2, <1>3, <1>4

\* All of it is below the break.
LEMMA CostsSpent ==
    ASSUME trace \in Seq(Requests), NEW n \in Nat, n <= Len(trace),
           NEW brk \in [0..Len(trace) -> Nat], Breaks(brk, n)
    PROVE  brk[n] = mem_start_brk + SumOf(Costs, 1..n)
<1> DEFINE T == {k \in Nat : k <= n => brk[k] = mem_start_brk + SumOf(Costs, 1..k)}
<1>1. 0 \in T
  <2>1. SumOf(Costs, {}) = 0 /\ 1..0 = {}
    BY SumEmpty
  <2>2. brk[0] = mem_start_brk /\ mem_start_brk \in Int
    BY HeapNumbers DEF Breaks
  <2> QED BY <2>1, <2>2
<1>2. ASSUME NEW k \in Nat, k \in T PROVE k + 1 \in T
  <2> SUFFICES ASSUME k + 1 <= n PROVE brk[k + 1] = mem_start_brk + SumOf(Costs, 1..(k + 1))
    OBVIOUS
  <2>1. brk[k] = mem_start_brk + SumOf(Costs, 1..k)
    BY <1>2
  <2>2. k + 1 \in 1..n /\ k + 1 <= Len(trace) /\ (k + 1) - 1 = k
    OBVIOUS
  <2> PICK j : j = k + 1
    OBVIOUS
  <2>3. /\ SumOf(Costs, 1..k) \in Int
        /\ SumOf(Costs, 1..(k + 1)) = Cost(k + 1) + SumOf(Costs, 1..k)
    BY <2>2, CostsNext
  <2>4. IF trace[j].type = "FREE" THEN brk[j] = brk[j - 1]
        ELSE newsize(trace[j].size) >= 0 /\ brk[j] = brk[j - 1] + newsize(trace[j].size)
    BY <2>2 DEF Breaks
  <2>5. j \in 1..Len(trace) /\ j - 1 = k
    BY <2>2
  <2>6. Cost(j) \in Nat /\ mem_start_brk \in Int
    BY <2>5, CostIs, HeapNumbers
  <2>7. brk[j] = brk[k] + Cost(j)
    <3>1. CASE trace[j].type = "FREE"
      <4>1. Cost(j) = 0 /\ brk[j] = brk[k] /\ brk[k] \in Nat
        BY <2>1, <2>3, <2>4, <2>5, <3>1 DEF Cost
      <4> QED BY <4>1
    <3>2. CASE trace[j].type # "FREE"
      <4>1. Cost(j) = newsize(trace[j].size)
        BY <2>4, <2>5, <3>2, CostIs
      <4> QED BY <2>4, <2>5, <3>2, <4>1
    <3> QED BY <3>1, <3>2
  <2> QED BY <2>1, <2>3, <2>6, <2>7
<1> HIDE DEF T
<1>3. n \in T
  BY <1>1, <1>2, SetInduction
<1> QED BY <1>3 DEF T

\* The sum of the property is that of the costs.
LEMMA CostsAre ==
    ASSUME trace \in Seq(Requests), NEW n \in 1..Len(trace)
    PROVE  F!MapThenSumSet(LAMBDA k : IF trace[k].type = "FREE" THEN 0
                                      ELSE ALIGN(trace[k].size + SIZE_T_SIZE), 1..n) =
           SumOf(Costs, 1..n)
<1> PICK f, L : f = Costs /\ L = 1..n
  OBVIOUS
<1>1. \A k \in L : f[k] = Cost(k)
  BY DEF Costs
<1> DEFINE I(it) == it = [s \in SUBSET L |->
                             IF s = {} THEN 0
                             ELSE LET x == CHOOSE x \in s : TRUE
                                  IN  (IF trace[x].type = "FREE" THEN 0
                                       ELSE ALIGN(trace[x].size + SIZE_T_SIZE)) + it[s \ {x}]]
<1>2. ASSUME NEW it PROVE SumsUp(it, f, L) <=> I(it)
  <2>1. \A s \in SUBSET L : s # {} => f[Chosen(s)] = Cost(Chosen(s))
    BY <1>1 DEF Chosen
  <2>2. [s \in SUBSET L |-> IF s = {} THEN 0 ELSE f[Chosen(s)] + it[s \ {Chosen(s)}]] =
        [s \in SUBSET L |-> IF s = {} THEN 0 ELSE Cost(Chosen(s)) + it[s \ {Chosen(s)}]]
    BY <2>1
  <2> QED BY <2>2 DEF SumsUp, Chosen, Cost
<1>3. F!MapThenSumSet(LAMBDA k : IF trace[k].type = "FREE" THEN 0
                                 ELSE ALIGN(trace[k].size + SIZE_T_SIZE), L) =
      (CHOOSE it : I(it))[L]
  BY DEF F!MapThenSumSet, F!MapThenFoldSet
<1> HIDE DEF I
<1>4. (CHOOSE it : I(it)) = (CHOOSE it : SumsUp(it, f, L))
  BY <1>2
<1> QED BY <1>3, <1>4 DEF SumOf

\* Where a block does not fit, what the trace has asked for does not.
LEMMA FullHeap ==
    ASSUME IInv, phase = "valid", i <= Len(trace), op.type # "FREE", ~Fits(heap, op.size)
    PROVE  SumOf(Costs, 1..i) > MAX_HEAP
<1> PICK n \in Nat : i = n + 1
  <2>1. i - 1 \in Nat /\ i = (i - 1) + 1
    BY DEF IInv, TypeOK
  <2> QED BY <2>1
<1>1. /\ trace \in Seq(Requests) /\ n + 1 <= Len(trace) /\ n <= Len(trace) /\ i - 1 = n
      /\ i \in 1..Len(trace) /\ op = trace[i] /\ Aligned(heap)
  BY RequestIs DEF IInv, TypeOK, InPass
<1> PICK brk \in [0..Len(trace) -> Nat] : Breaks(brk, n) /\ heap.brk = brk[n]
  BY <1>1 DEF IInv, BreaksOK, InPass
<1>2. heap.brk = mem_start_brk + SumOf(Costs, 1..n)
  BY <1>1, CostsSpent
<1>3. /\ SumOf(Costs, 1..n) \in Int
      /\ SumOf(Costs, 1..(n + 1)) = Cost(n + 1) + SumOf(Costs, 1..n)
  BY <1>1, CostsNext
<1>4. Cost(i) \in Nat /\ (newsize(op.size) >= 0 => Cost(i) = newsize(op.size))
      /\ (~(newsize(op.size) >= 0) => Cost(i) > MAX_HEAP)
  BY <1>1, CostIs
<1>5. heap.brk \in Int /\ heap.brk >= mem_start_brk /\ mem_start_brk \in Int /\ MAX_HEAP \in Nat
  BY <1>1, HeapNumbers, HeapAssumption DEF Aligned, Heaps
<1> PICK s, c, b, m : /\ s = SumOf(Costs, 1..n) /\ c = Cost(i) /\ b = heap.brk
                      /\ m = mem_start_brk
  OBVIOUS
<1>6. /\ s \in Int /\ c \in Nat /\ b = m + s /\ b \in Int /\ b >= m /\ m \in Int /\ MAX_HEAP \in Nat
      /\ SumOf(Costs, 1..i) = c + s
  BY <1>2, <1>3, <1>4, <1>5
<1>7. c > MAX_HEAP \/ b + c > m + MAX_HEAP
  <2>1. CASE newsize(op.size) >= 0
    <3>1. c = newsize(op.size)
      BY <1>4, <2>1
    <3>2. ~(b + c <= mem_max_addr)
      BY <2>1, <3>1 DEF Fits
    <3>3. mem_max_addr = m + MAX_HEAP
      BY DEF mem_max_addr
    <3> QED BY ONLY <1>6, <3>2, <3>3
  <2>2. CASE ~(newsize(op.size) >= 0)
    BY <1>4, <2>2
  <2> QED BY <2>1, <2>2
<1>8. c + s > MAX_HEAP
  BY ONLY <1>6, <1>7
<1> QED BY <1>6, <1>8

\* eval_mm_valid finds fault with mm.c only when the heap is full: the blocks of
\* all requests so far, none of them reused, do not fit.  No block that fits
\* fails a test of add_range, none that is moved loses its data, and the one that
\* add_range refuses because the break has wrapped does not fit either
\* (eval_mm_valid, mdriver.c:577-685).  The fills are those that a signed char
\* reads back; of the others the test of the data fails whatever mm.c does.
THEOREM RejectsStayFull == ASSUME SmallFills PROVE Spec => RejectsOnlyFull
<1>1. ASSUME IInv, UtilInv, ValidInv, [Next]_vars
      PROVE  [errors' # errors =>
                  LET Wanted == F!MapThenSumSet(LAMBDA k : IF trace[k].type = "FREE" THEN 0
                                                           ELSE ALIGN(trace[k].size + SIZE_T_SIZE),
                                                1..i)
                  IN  Wanted > MAX_HEAP]_vars
  <2> SUFFICES ASSUME errors' # errors
               PROVE  F!MapThenSumSet(LAMBDA k : IF trace[k].type = "FREE" THEN 0
                                                 ELSE ALIGN(trace[k].size + SIZE_T_SIZE), 1..i)
                          > MAX_HEAP
    OBVIOUS
  <2>1. ASSUME phase = "valid", i <= Len(trace), op.type # "FREE", ~Fits(heap, op.size)
        PROVE  F!MapThenSumSet(LAMBDA k : IF trace[k].type = "FREE" THEN 0
                                          ELSE ALIGN(trace[k].size + SIZE_T_SIZE), 1..i)
                   > MAX_HEAP
    <3>1. SumOf(Costs, 1..i) > MAX_HEAP
      BY <1>1, <2>1, FullHeap
    <3>2. trace \in Seq(Requests) /\ i \in 1..Len(trace)
      BY <1>1, <2>1 DEF IInv, TypeOK
    <3> PICK n \in 1..Len(trace) : n = i
      BY <3>2
    <3>3. F!MapThenSumSet(LAMBDA k : IF trace[k].type = "FREE" THEN 0
                                     ELSE ALIGN(trace[k].size + SIZE_T_SIZE), 1..n) =
          SumOf(Costs, 1..n)
      BY <3>2, CostsAre
    <3> QED BY <3>1, <3>3
  <2>2. CASE ValidAlloc(malloc)
    <3>1. phase = "valid" /\ i <= Len(trace) /\ op.type = "ALLOC" /\ InPass
      BY <2>2 DEF ValidAlloc, Request, InPass
    <3>2. ~Accept(ranges, malloc)
      BY DEF Accept
    <3>3. malloc.p = NULL \/ ~RangeOK(ranges, malloc.heap, malloc.p, op.size)
      BY <2>2, <3>2 DEF ValidAlloc
    <3>4. Fits(heap, op.size) => malloc.p # NULL /\ GivesBlock(heap, op.size, malloc)
      BY <1>1, <3>1, CallGives DEF Gives
    <3>5. ~Fits(heap, op.size)
      BY <1>1, <3>1, <3>3, <3>4, RangePasses
    <3> QED BY <2>1, <3>1, <3>5
  <2>3. CASE ValidRealloc(realloc)
    <3> PICK rs : rs = remove_range(ranges, blocks[op.index])
      OBVIOUS
    <3>1. phase = "valid" /\ i <= Len(trace) /\ op.type = "REALLOC" /\ InPass
      BY <2>3 DEF ValidRealloc, Request, InPass
    <3>2. ~Accept(rs, realloc)
      BY DEF Accept
    <3>3. realloc.p = NULL \/ ~RangeOK(rs, realloc.heap, realloc.p, op.size) \/ ~DataKept(realloc)
      BY <2>3, <3>2 DEF ValidRealloc
    <3>4. Fits(heap, op.size) => realloc.p # NULL /\ GivesBlock(heap, op.size, realloc)
      BY <1>1, <3>1, CallGives DEF Gives
    <3>5. Fits(heap, op.size) => DataKept(realloc)
      BY <1>1, <3>1, DataPasses
    <3>6. ~Fits(heap, op.size)
      BY <1>1, <3>1, <3>3, <3>4, <3>5, RangePasses
    <3> QED BY <2>1, <3>1, <3>6
  <2>4. Next
    BY <1>1 DEF vars
  <2>5. ~MainStep
    BY DEF MainStep, ReadRequest, StartValid, StartUtil, StartSpeed, EndSpeed
  <2>6. ~ValidFree(free) /\ ~UtilStep /\ ~SpeedStep
    BY DEF ValidFree, UtilStep, UtilAlloc, UtilRealloc, UtilFree, Account, SpeedStep, SpeedCall, SpeedFree
  <2> QED BY <2>2, <2>3, <2>4, <2>5, <2>6 DEF Next, ValidStep
<1>2. ASSUME Init PROVE ValidInv
  BY <1>2, InitAny DEF AnyInv
<1>3. Spec => []ValidInv
  BY <1>2, Invariant, RangesNext, PTL DEF Spec
<1> QED BY <1>1, <1>3, Invariant, UtilInvariant, PTL DEF Spec, RejectsOnlyFull
=============================================================================
