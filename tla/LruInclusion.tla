---------------------------- MODULE LruInclusion ----------------------------
(***************************************************************************)
(* Two simulations of the same trace by csim, with -E Small and -E Large:  *)
(* two LRU caches of the same sets under the same accesses.                *)
(***************************************************************************)
EXTENDS Integers, Sequences

CONSTANTS Blocks, Sets, SetOf(_), Small, Large,
          MaxAccesses       \* bound on the length of the trace

ASSUME SizesAssumption == Small \in Nat \ {0} /\ Large \in Nat /\ Small <= Large
ASSUME BlocksAssumption == \A x \in Blocks : SetOf(x) \in Sets
ASSUME MaxAccessesAssumption == MaxAccesses \in Nat

VARIABLES
    order1, hits1, misses1, evictions1,     \* the small cache
    order2, hits2, misses2, evictions2,     \* the large cache
    current                                 \* the block both access

vars == <<order1, hits1, misses1, evictions1, order2, hits2, misses2, evictions2,
          current>>

C1 == INSTANCE LruCache WITH E <- Small, order <- order1, hits <- hits1,
                             misses <- misses1, evictions <- evictions1
C2 == INSTANCE LruCache WITH E <- Large, order <- order2, hits <- hits2,
                             misses <- misses2, evictions <- evictions2

Init == C1!Init /\ C2!Init
Access(x) == hits1 + misses1 < MaxAccesses /\ C1!Access(x) /\ C2!Access(x)
Next == \E x \in Blocks : Access(x)
Spec == Init /\ [][Next]_vars

----------------------------------------------------------------------------
(* Properties.                                                             *)

\* p is the end of q.
EndOf(p, q) ==
    /\ Len(p) <= Len(q)
    /\ \A k \in 1..Len(p) : p[k] = q[Len(q) - Len(p) + k]

\* At every moment the small cache holds the blocks that were used last among
\* those of the large cache, in the same order.
Inclusion == \A i \in Sets : EndOf(order1[i], order2[i])

\* So more lines per set never mean fewer hits: access_cache keeps lines in
\* order of use (csim.c:164, 174) and not in order of arrival, for which this
\* fails.
MoreLinesMoreHits == hits1 <= hits2
=============================================================================
