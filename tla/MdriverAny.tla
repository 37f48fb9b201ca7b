----------------------------- MODULE MdriverAny -----------------------------
(***************************************************************************)
(* eval_mm_valid on an allocator that may return any block, good or bad.   *)
(* The break is at the end of the heap; realloc copies or does not.        *)
(***************************************************************************)
EXTENDS Mdriver

Full == [heap EXCEPT !.brk = mem_max_addr]
AnyReturn == {Returns(p, Full) : p \in Addresses \cup {NULL}}
AnyMove ==
    LET n == F!Min({op.size, block_sizes[op.index]})
    IN  AnyReturn \cup
        {Returns(p, [Full EXCEPT !.mem = Copied(@, p, blocks[op.index], n)]) : p \in Addresses}

AnyNext ==
    \/ \E o \in Requests : ReadRequest(o)
    \/ StartValid
    \/ Request("valid", "ALLOC") /\ \E r \in AnyReturn : ValidAlloc(r)
    \/ Request("valid", "REALLOC") /\ \E r \in AnyMove : ValidRealloc(r)
    \/ ValidFree(Full)
AnySpec == Init /\ [][AnyNext]_vars

----------------------------------------------------------------------------
(* Properties.                                                             *)

\* What the tests of add_range ensure of any allocator: two accepted payloads
\* share bytes only if one lies strictly inside the other.
OverlapsAreNested ==
    phase = "valid" =>
        \A x, y \in Live(i - 1) :
            \/ x = y \/ Payload(x) \cap Payload(y) = {}
            \/ Payload(x) \subseteq (blocks[y] + 1)..(blocks[y] + SizeOf(i - 1, y) - 2)
            \/ Payload(y) \subseteq (blocks[x] + 1)..(blocks[x] + SizeOf(i - 1, x) - 2)
=============================================================================
