------------------------------ MODULE MdriverMM -----------------------------
(***************************************************************************)
(* The driver on the allocator mm.c.                                       *)
(***************************************************************************)
EXTENDS Mdriver

malloc == mm_malloc(heap, op.size)
realloc == mm_realloc(heap, blocks[op.index], op.size)
free == mm_free(heap, blocks[op.index])

MainStep ==
    \/ \E o \in Requests : ReadRequest(o)
    \/ StartValid \/ StartUtil \/ StartSpeed \/ EndSpeed

ValidStep == ValidAlloc(malloc) \/ ValidRealloc(realloc) \/ ValidFree(free)
UtilStep == UtilAlloc(malloc) \/ UtilRealloc(realloc) \/ UtilFree(free)
SpeedStep ==
    \/ Request("speed", "ALLOC") /\ SpeedCall(malloc)
    \/ Request("speed", "REALLOC") /\ SpeedCall(realloc)
    \/ SpeedFree(free)

Next == MainStep \/ ValidStep \/ UtilStep \/ SpeedStep
Spec == Init /\ [][Next]_vars

----------------------------------------------------------------------------
(* Properties.                                                             *)

\* The bytes of the block of x, header and payload.
Block(x) == (blocks[x] - SIZE_T_SIZE)..(blocks[x] + SizeOf(i - 1, x) - 1)

\* In all passes: blocks that are allocated are aligned, inside the heap, and
\* share no byte, not even of their headers.
BlocksDisjoint ==
    InPass =>
        \A x \in Live(i - 1) :
            /\ blocks[x] % ALIGNMENT = 0
            /\ Block(x) \subseteq mem_heap_lo..mem_heap_hi(heap)
            /\ \A y \in Live(i - 1) \ {x} : Block(x) \cap Block(y) = {}

\* What was written into a block stays there until it is freed, whatever is
\* allocated, moved and filled in between: the fill of eval_mm_valid in the
\* payload, the size in the header.
ContentsKept ==
    InPass =>
        \A x \in Live(i - 1) :
            /\ heap.mem[blocks[x] - SIZE_T_SIZE] = SizeOf(i - 1, x)
            /\ phase = "valid" => \A a \in Payload(x) : heap.mem[a] = Fill(x)

\* The driver finds fault with mm.c only when the heap is full: the headers
\* and paddings of all requests so far, none of them reused, do not fit.  (True
\* of ids whose low byte is below 128.  "mm_realloc did not preserve the data
\* from old block", mdriver.c:657, is also said of data that were preserved: a
\* larger fill is read as a negative char and equals no fill.)
RejectsOnlyFull ==
    [][errors' # errors =>
          LET Total == F!MapThenSumSet(LAMBDA k : IF trace[k].type = "FREE" THEN 0
                                                  ELSE ALIGN(trace[k].size + SIZE_T_SIZE),
                                       1..i)
          IN  Total > MAX_HEAP]_vars

\* A trace that eval_mm_valid has accepted never makes the later passes give
\* up: they see the heap as it was at the start.
PassesAgree ==
    phase \in {"util", "speed"} /\ i <= Len(trace) =>
        /\ op.type = "ALLOC" => malloc.p # NULL
        /\ op.type = "REALLOC" => realloc.p # NULL

\* eval_mm_util counts what the trace has allocated, its highest total is the
\* highest there was, and the heap is no smaller: utilisation is at most 1.
UtilizationExact ==
    phase = "util" =>
        LET Sum(n) == F!MapThenSumSet(LAMBDA x : SizeOf(n, x), Live(n))
        IN  /\ total_size = Sum(i - 1)
            /\ max_total_size = F!Max({Sum(n) : n \in 0..(i - 1)})
            /\ max_total_size <= mem_heapsize(heap)

\* "In this model, the heap cannot be shrunk" (memlib.c:56).  It can: a sum of
\* break and increment that runs past the address space passes the test.
HeapNeverShrinks == [][i' = i + 1 \/ errors' # errors => heap'.brk >= heap.brk]_vars

\* That is the only way.  A call moves the break down only for a size that is a
\* positive int also when rounded up and that carries the break past the address
\* space; and the block it gives never gets through add_range, so that no pass
\* goes on with such a heap.
BreakFallsOnlyByWrap ==
    [][heap'.brk < heap.brk /\ (i' = i + 1 \/ errors' # errors) =>
          /\ errors' # errors
          /\ op.type # "FREE"
          /\ newsize(op.size) >= 0 /\ heap.brk + newsize(op.size) >= 2^W]_vars
=============================================================================
