CONSTANTS
    W = 4
    s = 1
    E = 3
    b = 1
    Addrs <- SomeAddrs
    MaxAccesses = 7
SPECIFICATION Spec
INVARIANTS
    TypeOK
    ListsSound
PROPERTIES
    ModifyHits
    ImplementsLru
CHECK_DEADLOCK FALSE
