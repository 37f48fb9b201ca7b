-------------------------------- MODULE Csim --------------------------------
(***************************************************************************)
(* The cache simulator (04-cache-lab/csim.c): for every set a linked list  *)
(* of lines, the head used longest ago, and three counters.  A record of   *)
(* the trace makes one access, or two for a modify (M).  The lists are     *)
(* modelled with their pointers, since what matters is the surgery on      *)
(* them; malloc hands out the lines 1, 2, ... and does not fail.           *)
(*                                                                         *)
(* The set list of the cache, built once by init_cache, is an array here.  *)
(* Values of -s, -E and -b are the ones for which the simulator is meant:  *)
(* E > 0, b >= 0, 2^s an int of C, and b + s at most the word size.  With  *)
(* s = b = 0 the mask of get_line_tag, 1 << 32, is undefined; on x86 every *)
(* tag is then 0 and every access but the first hits.                      *)
(***************************************************************************)
EXTENDS Integers, Sequences, FiniteSets

CONSTANTS
    W,              \* bits of an address (32 in the code)
    s, E, b,        \* the options: 2^s sets of E lines of 2^b bytes
    Addrs,          \* addresses in the trace
    MaxAccesses     \* bound on the number of accesses

ASSUME WidthAssumption == W \in Nat \ {0} /\ Addrs \subseteq 0..(2^W - 1)
ASSUME OptionsAssumption ==
    s \in 0..(W - 2) /\ b \in Nat /\ b + s \in 1..W /\ E \in Nat \ {0}
ASSUME MaxAccessesAssumption == MaxAccesses \in Nat

VARIABLES
    head_line, tail_line,               \* of each set
    next, tag,                          \* of each line
    used,                               \* number of lines malloc has given
    hit_count, miss_count, eviction_count,
    again,                              \* the second access of a modify is due
    addr,                               \* the address of the record
    holds                               \* ghost: the block a line was filled with

lists == <<head_line, tail_line, next, tag, used, holds>>
counts == <<hit_count, miss_count, eviction_count>>
vars == <<lists, counts, again, addr>>

NULL == 0
Sets == 0..(2^s - 1)
Lines == 1..(E * 2^s)

----------------------------------------------------------------------------
(* Parts of an address.  A shift by the word size or more is undefined;    *)
(* x86, for which the Makefile builds, takes the count modulo the word.    *)

shl1(n) == 2 ^ (n % W)
shr(a, n) == a \div 2 ^ (n % W)

\* Fault: the tag keeps the bits of the set.
get_line_tag_Whole(a) == shr(a, b)

\* The mask shl1(n) - 1 keeps the low n bits.
get_line_tag(a) == shr(a, b + s) % shl1(W - b - s)
get_set_index(a) == shr(a, b) % shl1(s)

\* The block an address belongs to.
BlockOf(a) == a \div 2 ^ b

----------------------------------------------------------------------------
(* Lists of lines.                                                         *)

AllLists == UNION {[1..n -> Lines] : n \in 0..E}

\* q is what a walk from the head of set i meets before NULL.
IsList(q, i) ==
    /\ head_line[i] = IF q = <<>> THEN NULL ELSE q[1]
    /\ \A k \in 1..Len(q) : next[q[k]] = IF k = Len(q) THEN NULL ELSE q[k + 1]

\* find_line_in_set stops at the k-th line.
find_line_in_set(q, t, k) ==
    /\ k \in 1..Len(q) /\ tag[q[k]] = t
    /\ \A m \in 1..(k - 1) : tag[q[m]] # t
NotFound(q, t) == \A k \in 1..Len(q) : tag[q[k]] # t

\* Fault: only the head is moved.
move_line_to_tail_HeadOnly(i, q, k) ==
    IF q[k] = tail_line[i] \/ q[k] # head_line[i]
    THEN UNCHANGED <<head_line, tail_line, next>>
    ELSE /\ head_line' = [head_line EXCEPT ![i] = next[head_line[i]]]
         /\ next' = [next EXCEPT ![q[k]] = NULL, ![tail_line[i]] = q[k]]
         /\ tail_line' = [tail_line EXCEPT ![i] = q[k]]

\* The k-th line of the list q of set i goes to the tail.
move_line_to_tail(i, q, k) ==
    \/ q[k] = tail_line[i] /\ UNCHANGED <<head_line, tail_line, next>>
    \/ /\ q[k] # tail_line[i] /\ q[k] = head_line[i]
       /\ head_line' = [head_line EXCEPT ![i] = next[head_line[i]]]
       /\ next' = [next EXCEPT ![q[k]] = NULL, ![tail_line[i]] = q[k]]
       /\ tail_line' = [tail_line EXCEPT ![i] = q[k]]
    \/ /\ q[k] # tail_line[i] /\ q[k] # head_line[i]
       /\ next' = [next EXCEPT ![q[k - 1]] = next[q[k]], ![q[k]] = NULL,
                               ![tail_line[i]] = q[k]]
       /\ tail_line' = [tail_line EXCEPT ![i] = q[k]]
       /\ UNCHANGED head_line

\* Fault: the line taken over keeps its tag.
remove_head_line_KeepsTag(i, q, t, x) ==
    /\ holds' = [holds EXCEPT ![q[1]] = x]
    /\ move_line_to_tail(i, q, 1)
    /\ UNCHANGED <<tag, used>>

\* The head is taken over for tag t and goes to the tail.
remove_head_line(i, q, t, x) ==
    /\ tag' = [tag EXCEPT ![q[1]] = t]
    /\ holds' = [holds EXCEPT ![q[1]] = x]
    /\ move_line_to_tail(i, q, 1)
    /\ UNCHANGED used

\* A new line at the tail.
init_line(i, t, x) ==
    /\ used' = used + 1
    /\ tag' = [tag EXCEPT ![used'] = t]
    /\ holds' = [holds EXCEPT ![used'] = x]
    /\ IF head_line[i] = NULL
       THEN /\ head_line' = [head_line EXCEPT ![i] = used']
            /\ next' = [next EXCEPT ![used'] = NULL]
       ELSE /\ next' = [next EXCEPT ![used'] = NULL, ![tail_line[i]] = used']
            /\ UNCHANGED head_line
    /\ tail_line' = [tail_line EXCEPT ![i] = used']

----------------------------------------------------------------------------
(* access_cache.                                                           *)

Hit(i, q, t) ==
    /\ \E k \in 1..Len(q) : find_line_in_set(q, t, k) /\ move_line_to_tail(i, q, k)
    /\ hit_count' = hit_count + 1
    /\ UNCHANGED <<tag, used, holds, miss_count, eviction_count>>

\* Fault: the length of the list is not looked at.
Fill_Full(i, q, t, x) ==
    /\ NotFound(q, t)
    /\ init_line(i, t, x)
    /\ miss_count' = miss_count + 1
    /\ UNCHANGED <<hit_count, eviction_count>>

Fill(i, q, t, x) ==
    /\ NotFound(q, t) /\ Len(q) # E
    /\ init_line(i, t, x)
    /\ miss_count' = miss_count + 1
    /\ UNCHANGED <<hit_count, eviction_count>>

Evict(i, q, t, x) ==
    /\ NotFound(q, t) /\ Len(q) = E
    /\ remove_head_line(i, q, t, x)
    /\ miss_count' = miss_count + 1
    /\ eviction_count' = eviction_count + 1
    /\ UNCHANGED hit_count

access_cache(a) ==
    LET i == get_set_index(a)
        t == get_line_tag(a)
    IN  \E q \in AllLists :
           /\ IsList(q, i)
           /\ Hit(i, q, t) \/ Fill(i, q, t, BlockOf(a)) \/ Evict(i, q, t, BlockOf(a))

Init ==
    /\ head_line = [i \in Sets |-> NULL]
    /\ tail_line = [i \in Sets |-> NULL]
    /\ next = [n \in Lines |-> NULL]
    /\ tag = [n \in Lines |-> 0]
    /\ holds = [n \in Lines |-> 0]
    /\ used = 0
    /\ hit_count = 0 /\ miss_count = 0 /\ eviction_count = 0
    /\ again = FALSE
    /\ addr \in Addrs

\* A record of the trace: a load or a store, or a modify.  I and unknown
\* letters change nothing.
Record(modify, a) ==
    /\ ~again
    /\ hit_count + miss_count < MaxAccesses
    /\ addr' = a
    /\ access_cache(a)
    /\ again' = modify

\* The second access of a modify.
Again ==
    /\ again
    /\ access_cache(addr)
    /\ again' = FALSE
    /\ UNCHANGED addr

Next == Again \/ \E modify \in BOOLEAN, a \in Addrs : Record(modify, a)
Spec == Init /\ [][Next]_vars

----------------------------------------------------------------------------
(* Properties.                                                             *)

TypeOK ==
    /\ head_line \in [Sets -> Lines \cup {NULL}]
    /\ tail_line \in [Sets -> Lines \cup {NULL}]
    /\ next \in [Lines -> Lines \cup {NULL}]
    /\ tag \in [Lines -> 0..(2^(W - b - s) - 1)]
    /\ holds \in [Lines -> 0..(2^W - 1)]
    /\ used \in 0..(E * 2^s)
    /\ hit_count \in Nat /\ miss_count \in Nat /\ eviction_count \in Nat
    /\ again \in BOOLEAN
    /\ addr \in 0..(2^W - 1)

\* The list of every set ends, after at most E lines, in the line its tail
\* points to; no line is in it twice, no two of its lines have the same tag,
\* and it holds blocks of this set only, so lists of two sets share no line.
ListsSound ==
    \A i \in Sets : \E q \in AllLists :
        /\ IsList(q, i)
        /\ q # <<>> => tail_line[i] = q[Len(q)]
        /\ \A k, m \in 1..Len(q) : tag[q[k]] = tag[q[m]] => k = m
        /\ \A k \in 1..Len(q) : holds[q[k]] % 2^s = i /\ q[k] <= used

\* The store of a modify hits the line its load has brought in, whatever the
\* load evicted.
ModifyHits == [][Again => hit_count' = hit_count + 1]_vars

\* The blocks on the list of set i.
Order ==
    [i \in Sets |->
        LET q == CHOOSE l \in AllLists : IsList(l, i)
        IN  [k \in 1..Len(q) |-> holds[q[k]]]]

Lru == INSTANCE LruCache WITH
          Blocks <- {BlockOf(a) : a \in Addrs},
          SetOf <- LAMBDA x : x % 2^s,
          order <- Order,
          hits <- hit_count, misses <- miss_count, evictions <- eviction_count,
          current <- BlockOf(addr)

\* Seen from outside the lists are an LRU cache of blocks: an access hits
\* exactly when its block is among the E blocks of its set used last.
ImplementsLru == Lru!Spec
=============================================================================
