CONSTANTS
    Blocks = {0, 2, 4, 6, 8, 1}
    Sets = {0, 1}
    SetOf <- Parity
    Small = 3
    Large = 4
    MaxAccesses = 12
SPECIFICATION Spec
INVARIANTS
    Inclusion
    MoreLinesMoreHits
CHECK_DEADLOCK FALSE
