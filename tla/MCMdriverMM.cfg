CONSTANTS
    W = 6
    mem_start_brk = 34
    MAX_HEAP = 14
    ALIGNMENT = 2
    SizeT = 1
    Ids = {0, 1}
    Sizes = {1, 4, 28, 31}
    Lengths <- TraceLengths
SPECIFICATION Spec
INVARIANTS
    BlocksDisjoint
    ContentsKept
    PassesAgree
    UtilizationExact
PROPERTIES
    RejectsOnlyFull
    
CHECK_DEADLOCK FALSE
