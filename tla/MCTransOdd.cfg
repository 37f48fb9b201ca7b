CONSTANTS
    Dim = 8
    Block = 4
    Unreliable = {}
    MaxAlarms = 0
    func_list <- FuncListDef
    Sessions <- GradedDef
SPECIFICATION Spec
INVARIANT Transposed
CHECK_DEADLOCK FALSE
