CONSTANTS
    Base = 8
    Offsets <- OffsetsDef
    TickCost = 5
    Gap = 12
    Away = 6
    THRESHOLD = 2
    RECORDTHRESH = 4
    NEVENT = 2
    Late = 1
    MaxAway = 1
    Works <- WorksDef
    kbest = 2
    maxsamples = 4
    epsilon = 1
    Runs = 3
    USEC = 4
    MAX_ETIME = 100
SPECIFICATION Spec
INVARIANT ExactCycles
INVARIANT KBest
INVARIANT NeverAbove
PROPERTY RunsAreTimed
CHECK_DEADLOCK FALSE
