------------------------------- MODULE MemLib -------------------------------
(***************************************************************************)
(* The simulated heap (06-malloc-lab/memlib.c).  A heap is a record of     *)
(* brk, the address after its last byte, and mem, what the bytes hold.     *)
(* Addresses have W bits (the Makefile builds with -m32).                  *)
(***************************************************************************)
EXTENDS Integers

CONSTANTS
    W,                  \* bits of an address, an int and a size_t
    mem_start_brk,      \* what mem_init has got from the system's malloc
    MAX_HEAP            \* bytes of it

mem_max_addr == mem_start_brk + MAX_HEAP

ASSUME WAssumption == W \in Nat \ {0}
ASSUME HeapAssumption ==
    /\ mem_start_brk \in Nat \ {0} /\ MAX_HEAP \in Nat \ {0}
    /\ mem_max_addr < 2^W /\ MAX_HEAP < 2^(W - 1)

Addresses == mem_start_brk..(mem_max_addr - 1)
NULL == 0

\* No byte that the program writes.
Unwritten == -1

mem_init == [brk |-> mem_start_brk, mem |-> [a \in Addresses |-> Unwritten]]

\* Fault: the break stays where the last trace has left it.
mem_reset_brk_Stays(h) == h

\* The bytes stay as they are.
mem_reset_brk(h) == [h EXCEPT !.brk = mem_start_brk]

\* Fault: a negative increment is not refused.
sbrkFails_NoSign(h, incr) == (h.brk + incr) % 2^W > mem_max_addr

\* mem_sbrk returns -1.  A sum of pointer and int is taken modulo the size of an address.
sbrkFails(h, incr) == incr < 0 \/ (h.brk + incr) % 2^W > mem_max_addr

\* The heap after a successful call, which returns the old break.
mem_sbrk(h, incr) == [h EXCEPT !.brk = (@ + incr) % 2^W]

mem_heap_lo == mem_start_brk
mem_heap_hi(h) == h.brk - 1
mem_heapsize(h) == h.brk - mem_start_brk
=============================================================================
