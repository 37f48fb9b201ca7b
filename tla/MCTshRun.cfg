CONSTANTS
    MAXJOBS = 2
    Pids = {p1, p2, p3}
    Commands = {"run_fg", "run_bg", "quit"}
    Keys = {"INT", "TSTP"}
    MaxKeys = 2
SPECIFICATION Spec
SYMMETRY Symm
INVARIANTS
    AtMostOneFG
    NoFGAtPrompt
    StopsAreListed
    EndsHaveCauses
    NextJidAscends
CHECK_DEADLOCK FALSE
