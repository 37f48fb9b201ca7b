------------------------------ MODULE LruCache ------------------------------
(***************************************************************************)
(* What the cache simulator (04-cache-lab/csim.c) promises: a cache of E   *)
(* lines per set that evicts the block used longest ago, and counts hits,  *)
(* misses and evictions.  Csim implements this with linked lists of lines  *)
(* and tags.                                                               *)
(***************************************************************************)
EXTENDS Integers, Sequences

CONSTANTS
    Blocks,     \* memory blocks
    Sets,       \* cache sets
    SetOf(_),   \* the set a block belongs to, one of Sets
    E           \* lines of a set, at least one

VARIABLES
    order,      \* order[i]: the blocks in set i, the one used last at the end
    hits, misses, evictions,
    current     \* the block accessed last

lruVars == <<order, hits, misses, evictions, current>>

Init ==
    /\ order = [i \in Sets |-> <<>>]
    /\ hits = 0 /\ misses = 0 /\ evictions = 0
    /\ current \in Blocks

\* Fault: the block found keeps its place.
ToEnd_Stays(q, k) == q

\* q with its k-th element moved to the end.
ToEnd(q, k) ==
    [j \in 1..Len(q) |-> IF j < k THEN q[j]
                         ELSE IF j < Len(q) THEN q[j + 1]
                         ELSE q[k]]

Hit(x) ==
    /\ \E k \in 1..Len(order[SetOf(x)]) :
          /\ order[SetOf(x)][k] = x
          /\ order' = [order EXCEPT ![SetOf(x)] = ToEnd(@, k)]
    /\ hits' = hits + 1
    /\ UNCHANGED <<misses, evictions>>

Absent(x) == \A k \in 1..Len(order[SetOf(x)]) : order[SetOf(x)][k] # x

Fill(x) ==
    /\ Absent(x) /\ Len(order[SetOf(x)]) < E
    /\ order' = [order EXCEPT ![SetOf(x)] = Append(@, x)]
    /\ misses' = misses + 1
    /\ UNCHANGED <<hits, evictions>>

Evict(x) ==
    /\ Absent(x) /\ Len(order[SetOf(x)]) = E
    /\ order' = [order EXCEPT ![SetOf(x)] = Append(Tail(@), x)]
    /\ misses' = misses + 1
    /\ evictions' = evictions + 1
    /\ UNCHANGED hits

Access(x) == current' = x /\ (Hit(x) \/ Fill(x) \/ Evict(x))
Next == \E x \in Blocks : Access(x)
Spec == Init /\ [][Next]_lruVars
=============================================================================
