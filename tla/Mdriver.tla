------------------------------- MODULE Mdriver ------------------------------
(***************************************************************************)
(* The driver of the allocator (06-malloc-lab/mdriver.c): for every trace  *)
(* eval_mm_valid checks each block, then eval_mm_util and eval_mm_speed    *)
(* replay the trace.  An action is one request of the trace with the call  *)
(* of the allocator; the result r of that call is a parameter, so that the *)
(* driver can be put on any allocator.                                     *)
(*                                                                         *)
(* A trace is what read_trace accepts: a request for an id that is not     *)
(* allocated is an allocation, and sizes are positive ints.                *)
(***************************************************************************)
EXTENDS MM, Sequences, FiniteSets

S == INSTANCE SequencesExt
F == INSTANCE FiniteSetsExt

CONSTANTS
    Ids, Sizes,         \* of the requests
    Lengths             \* bounds: Lengths[k] requests in the k-th trace

ASSUME RequestsAssumption == Ids \subseteq Nat /\ Sizes \subseteq 1..(2^(W - 1) - 1)
ASSUME BoundsAssumption == Lengths \in Seq(Nat)

VARIABLES
    heap,
    phase,              \* the part of main that runs
    trace, traces,      \* the requests; how many traces have been read
    i,                  \* the next request
    ranges,             \* the range list
    blocks, block_sizes,
    errors,
    total_size, max_total_size

passVars == <<phase, trace, traces>>
recordVars == <<blocks, block_sizes>>
totals == <<total_size, max_total_size>>
vars == <<heap, phase, trace, traces, i, ranges, blocks, block_sizes, errors, totals>>

Phases == {"read", "valid", "util", "speed"}
Requests == [type : {"ALLOC", "REALLOC"}, index : Ids, size : Sizes]
            \cup [type : {"FREE"}, index : Ids, size : {0}]

\* The ids allocated after n requests, and the size last asked for each.
LastRequest(n, x) == F!Max({0} \cup {k \in 1..n : trace[k].index = x})
Live(n) == {x \in Ids : LastRequest(n, x) # 0 /\ trace[LastRequest(n, x)].type # "FREE"}
SizeOf(n, x) == trace[LastRequest(n, x)].size

----------------------------------------------------------------------------
(* The range list.                                                         *)

range_t(lo, size) == [lo |-> lo, hi |-> (lo + size - 1) % 2^W]

\* Fault: only the low end is compared with the other payloads.
RangeOK_LowOnly(rs, h, lo, size) ==
    LET hi == range_t(lo, size).hi
    IN  /\ lo % ALIGNMENT = 0
        /\ {lo, hi} \subseteq mem_heap_lo..mem_heap_hi(h)
        /\ \A k \in 1..Len(rs) : lo \notin rs[k].lo..rs[k].hi

\* The tests of add_range.
RangeOK(rs, h, lo, size) ==
    LET hi == range_t(lo, size).hi
    IN  /\ lo % ALIGNMENT = 0
        /\ {lo, hi} \subseteq mem_heap_lo..mem_heap_hi(h)
        /\ \A k \in 1..Len(rs) : {lo, hi} \cap (rs[k].lo..rs[k].hi) = {}

add_range(rs, lo, size) == <<range_t(lo, size)>> \o rs

\* Fault: the range added last is removed.
remove_range_First(rs, lo) == IF rs = <<>> THEN rs ELSE Tail(rs)

\* The first range that starts at lo is removed.
remove_range(rs, lo) ==
    LET k == S!SelectInSeq(rs, LAMBDA r : r.lo = lo)
    IN  IF k = 0 THEN rs ELSE S!RemoveAt(rs, k)

----------------------------------------------------------------------------
(* read_trace, one request at a time, and the passes of main.              *)

Init ==
    /\ heap = mem_init
    /\ phase = "read" /\ trace = <<>> /\ traces = 0 /\ i = 1
    /\ ranges = <<>>
    /\ blocks = [x \in Ids |-> NULL] /\ block_sizes = [x \in Ids |-> 0]
    /\ errors = 0 /\ total_size = 0 /\ max_total_size = 0

ReadRequest(op) ==
    /\ phase = "read" /\ traces < Len(Lengths) /\ Len(trace) < Lengths[traces + 1]
    /\ op.type = "ALLOC" <=> op.index \notin Live(Len(trace))
    /\ trace' = Append(trace, op)
    /\ UNCHANGED <<heap, phase, traces, i, ranges, recordVars, errors, totals>>

\* eval_mm_valid starts.
StartValid ==
    /\ phase = "read" /\ trace # <<>>
    /\ phase' = "valid" /\ traces' = traces + 1 /\ i' = 1
    /\ heap' = mem_reset_brk(heap)
    /\ ranges' = <<>>
    /\ UNCHANGED <<trace, recordVars, errors, totals>>

\* It has accepted the whole trace; eval_mm_util starts.
StartUtil ==
    /\ phase = "valid" /\ i > Len(trace)
    /\ phase' = "util" /\ i' = 1
    /\ heap' = mem_reset_brk(heap)
    /\ total_size' = 0 /\ max_total_size' = 0
    /\ UNCHANGED <<trace, traces, ranges, recordVars, errors>>

\* eval_mm_speed starts, for the first time or once more.
StartSpeed ==
    /\ phase \in {"util", "speed"} /\ i > Len(trace)
    /\ phase' = "speed" /\ i' = 1
    /\ heap' = mem_reset_brk(heap)
    /\ UNCHANGED <<trace, traces, ranges, recordVars, errors, totals>>

NextTrace ==
    /\ phase' = "read" /\ trace' = <<>> /\ i' = 1
    /\ blocks' = [x \in Ids |-> NULL] /\ block_sizes' = [x \in Ids |-> 0]
    /\ UNCHANGED <<traces, totals>>

\* The timing is done, the next trace is read into fresh arrays.
EndSpeed ==
    /\ phase = "speed" /\ i > Len(trace)
    /\ NextTrace
    /\ UNCHANGED <<heap, ranges, errors>>

----------------------------------------------------------------------------
(* eval_mm_valid.                                                          *)

op == trace[i]

\* The next request, in a pass.
Request(pass, type) == phase = pass /\ i <= Len(trace) /\ op.type = type

Remember(p) ==
    /\ blocks' = [blocks EXCEPT ![op.index] = p]
    /\ block_sizes' = [block_sizes EXCEPT ![op.index] = op.size]

Fill(index) == index % 256

\* The block is filled, after the tests.
Accept(rs, r) ==
    /\ heap' = [r.heap EXCEPT !.mem = Filled(@, r.p, Fill(op.index), op.size)]
    /\ ranges' = add_range(rs, r.p, op.size)
    /\ Remember(r.p)
    /\ i' = i + 1
    /\ UNCHANGED <<passVars, errors, totals>>

\* malloc_error, and the end of the trace.
Reject(rs, r) ==
    /\ errors' = errors + 1
    /\ heap' = r.heap /\ ranges' = rs
    /\ NextTrace

ValidAlloc(r) ==
    /\ Request("valid", "ALLOC")
    /\ \/ r.p = NULL /\ Reject(ranges, r)
       \/ r.p # NULL /\ ~RangeOK(ranges, r.heap, r.p, op.size) /\ Reject(ranges, r)
       \/ r.p # NULL /\ RangeOK(ranges, r.heap, r.p, op.size) /\ Accept(ranges, r)

\* A byte read through a char pointer, which is signed on x86.
Char(v) == IF v > 127 THEN v - 256 ELSE v

\* The data of the old block are in the new one.
DataKept(r) ==
    \A j \in 0..(F!Min({op.size, block_sizes[op.index]}) - 1) :
        Char(r.heap.mem[r.p + j]) = Fill(op.index)

ValidRealloc(r) ==
    LET rs == remove_range(ranges, blocks[op.index])
    IN  /\ Request("valid", "REALLOC")
        /\ \/ r.p = NULL /\ Reject(ranges, r)
           \/ r.p # NULL /\ ~RangeOK(rs, r.heap, r.p, op.size) /\ Reject(rs, r)
           \/ /\ r.p # NULL /\ RangeOK(rs, r.heap, r.p, op.size)
              /\ IF DataKept(r) THEN Accept(rs, r)
                 ELSE Reject(add_range(rs, r.p, op.size), r)

ValidFree(h) ==
    /\ Request("valid", "FREE")
    /\ ranges' = remove_range(ranges, blocks[op.index])
    /\ heap' = h
    /\ i' = i + 1
    /\ UNCHANGED <<passVars, recordVars, errors, totals>>

----------------------------------------------------------------------------
(* eval_mm_util and eval_mm_speed: no checks.  A call that returns NULL     *)
(* ends the driver by app_error: there is no action for it.                *)

Account(change) ==
    /\ total_size' = total_size + change
    /\ max_total_size' = F!Max({max_total_size, total_size'})
    /\ i' = i + 1
    /\ UNCHANGED <<passVars, ranges, errors>>

UtilAlloc(r) ==
    /\ Request("util", "ALLOC") /\ r.p # NULL
    /\ heap' = r.heap
    /\ Remember(r.p)
    /\ Account(op.size)

\* Fault: the size of the old block stays in the total.
UtilRealloc_KeepsOld(r) ==
    /\ Request("util", "REALLOC") /\ r.p # NULL
    /\ heap' = r.heap
    /\ Remember(r.p)
    /\ Account(op.size)

UtilRealloc(r) ==
    /\ Request("util", "REALLOC") /\ r.p # NULL
    /\ heap' = r.heap
    /\ Remember(r.p)
    /\ Account(op.size - block_sizes[op.index])

UtilFree(h) ==
    /\ Request("util", "FREE")
    /\ heap' = h
    /\ total_size' = total_size - block_sizes[op.index]
    /\ i' = i + 1
    /\ UNCHANGED <<passVars, ranges, recordVars, errors, max_total_size>>

SpeedCall(r) ==
    /\ Request("speed", "ALLOC") \/ Request("speed", "REALLOC")
    /\ r.p # NULL
    /\ heap' = r.heap
    /\ blocks' = [blocks EXCEPT ![op.index] = r.p]
    /\ i' = i + 1
    /\ UNCHANGED <<passVars, ranges, block_sizes, errors, totals>>

SpeedFree(h) ==
    /\ Request("speed", "FREE")
    /\ heap' = h
    /\ i' = i + 1
    /\ UNCHANGED <<passVars, ranges, recordVars, errors, totals>>

----------------------------------------------------------------------------
(* Properties of the driver.                                               *)

InPass == phase \in {"valid", "util", "speed"}

\* The bytes of the payload of x.
Payload(x) == blocks[x]..(blocks[x] + SizeOf(i - 1, x) - 1)

\* While eval_mm_valid runs the range list holds exactly the payloads that the
\* trace has allocated and not freed, each once.
RangesAgree ==
    phase = "valid" =>
        /\ S!ToSet(ranges) =
               {[lo |-> blocks[x], hi |-> blocks[x] + SizeOf(i - 1, x) - 1] : x \in Live(i - 1)}
        /\ Len(ranges) = Cardinality(Live(i - 1))
=============================================================================
