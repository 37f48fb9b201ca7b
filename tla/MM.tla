--------------------------------- MODULE MM ---------------------------------
(***************************************************************************)
(* The allocator (06-malloc-lab/mm.c): a block is a header with its size,  *)
(* then the payload.  Nothing is reused: mm_free does nothing.  A call     *)
(* gives the pointer returned and the heap after it.                       *)
(***************************************************************************)
EXTENDS MemLib

CONSTANTS
    ALIGNMENT,
    SizeT               \* sizeof(size_t)

ASSUME AlignmentAssumption ==
    /\ ALIGNMENT \in Nat \ {0} /\ mem_start_brk % ALIGNMENT = 0
    /\ 2^(W - 1) % ALIGNMENT = 0
    /\ SizeT \in Nat \ {0} /\ SizeT + ALIGNMENT < 2^(W - 1)
    /\ mem_max_addr + SizeT + ALIGNMENT <= 2^W

Returns(p, h) == [p |-> p, heap |-> h]

\* Arithmetic of size_t.
Down(n) == (n \div ALIGNMENT) * ALIGNMENT
ALIGN(n) == Down((n + (ALIGNMENT - 1)) % 2^W)
SIZE_T_SIZE == ALIGN(SizeT)

\* A size_t as an int.
ToInt(n) == IF n < 2^(W - 1) THEN n ELSE n - 2^W

\* m with n bytes v from p on, and with n bytes from q on copied to p.  (Bytes
\* beyond the heap, which a block may have that mem_sbrk has let pass although
\* the sum wrapped, are left out.)
Filled(m, p, v, n) == [a \in Addresses |-> IF a \in p..(p + n - 1) THEN v ELSE m[a]]
Copied(m, p, q, n) ==
    [a \in Addresses |-> IF a \in p..(p + n - 1) THEN m[q + (a - p)] ELSE m[a]]

newsize(size) == ToInt(ALIGN((size + SIZE_T_SIZE) % 2^W))

\* Fault: the size is rounded down.
mm_malloc_RoundsDown(h, size) ==
    LET rounded == ToInt(Down((size + SIZE_T_SIZE) % 2^W))
        h1 == mem_sbrk(h, rounded)
    IN  IF sbrkFails(h, rounded) THEN Returns(NULL, h)
        ELSE Returns(h.brk + SIZE_T_SIZE,
                     [h1 EXCEPT !.mem = Filled(@, h.brk, size, SizeT)])

mm_malloc(h, size) ==
    LET h1 == mem_sbrk(h, newsize(size))
    IN  IF sbrkFails(h, newsize(size)) THEN Returns(NULL, h)
        ELSE Returns(h.brk + SIZE_T_SIZE,
                     [h1 EXCEPT !.mem = Filled(@, h.brk, size, SizeT)])

mm_free(h, ptr) == h

\* Fault: a block is kept if the rounded size fits, its header forgotten.
mm_realloc_ForgetsHeader(h, ptr, size) ==
    IF ALIGN(size) <= ALIGN(h.mem[ptr - SIZE_T_SIZE] + SIZE_T_SIZE)
    THEN Returns(ptr, h)
    ELSE LET r == mm_malloc(h, size)
         IN  IF r.p = NULL THEN r
             ELSE Returns(r.p, [r.heap EXCEPT !.mem = Copied(@, r.p, ptr, h.mem[ptr - SIZE_T_SIZE])])

mm_realloc(h, ptr, size) ==
    LET r == mm_malloc(h, size)
        old == r.heap.mem[ptr - SIZE_T_SIZE]
        copySize == IF size < old THEN size ELSE old
    IN  IF r.p = NULL THEN r
        ELSE Returns(r.p, mm_free([r.heap EXCEPT !.mem = Copied(@, r.p, ptr, copySize)], ptr))
=============================================================================
