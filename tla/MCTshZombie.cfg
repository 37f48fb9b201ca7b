CONSTANTS
    MAXJOBS = 2
    Pids = {p1, p2}
    Commands = {"run_fg", "run_bg"}
    Keys = {}
    MaxKeys = 0
SPECIFICATION FairSpec
PROPERTY ZombiesAreReaped
CHECK_DEADLOCK FALSE
