CONSTANTS
    MAXJOBS = 2
    Pids = {p1, p2}
    Commands = {"run_fg", "run_bg", "bg", "fg", "quit"}
    Keys = {"INT", "TSTP"}
    MaxKeys = 1
SPECIFICATION Spec
SYMMETRY Symm
INVARIANTS
    TypeOK
    PidsDistinct
    JobsAreChildren
    ChildrenAreJobs
PROPERTIES
    JobsLeaveReaped
    CtrlCSparesBackground
    ImplementsJobControl
CHECK_DEADLOCK FALSE
