CONSTANTS
    W = 5
    mem_start_brk = 4
    MAX_HEAP = 5
    ALIGNMENT = 1
    SizeT = 1
    Ids = {0, 1, 2}
    Sizes = {1, 3}
    Lengths <- TraceLengths
SPECIFICATION AnySpec
INVARIANTS
    RangesAgree
    OverlapsAreNested
CHECK_DEADLOCK FALSE
