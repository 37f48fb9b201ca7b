CONSTANTS
    W = 7
    TestRange = 4
    MaxLate = 2
    Loops <- LoopsDef
    Randoms <- RandomsDef
    Invocations <- InvocationsDef
SPECIFICATION Spec
INVARIANT Verdicts
INVARIANT AlarmsStrikeNear
INVARIANT ValuesFit
INVARIANT LoopsAreTimed
CHECK_DEADLOCK FALSE
