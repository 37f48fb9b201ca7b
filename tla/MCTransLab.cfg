CONSTANTS
    Dim = 8
    Block = 4
    Unreliable = {"valgrind", "csim-ref"}
    MaxAlarms = 2
    func_list <- FuncListDef
    Sessions <- SessionsDef
SPECIFICATION Spec
INVARIANT TransposedWhenRowsFit
INVARIANT StaysInArrays
INVARIANT CorrectIsValidated
INVARIANT CountsOwnUndisturbed
CHECK_DEADLOCK FALSE
