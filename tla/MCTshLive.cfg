CONSTANTS
    MAXJOBS = 2
    Pids = {p1, p2}
    Commands = {"run_fg", "run_bg"}
    Keys = {"INT"}
    MaxKeys = 1
SPECIFICATION FairSpec
PROPERTIES WaitfgEnds
    CtrlCEndsForeground
CHECK_DEADLOCK FALSE
