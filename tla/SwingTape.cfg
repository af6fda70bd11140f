SPECIFICATION Spec
CONSTANTS
    TolNum = 1
    TolDen = 10
    Bars <- ZigZag
    K = 1
    MaxTime = 9
INVARIANTS
    TypeOK
    LegsReplayed
    RangeHolds
    ObjectivesAreAPath
PROPERTIES
    CompletedStands
    StrengthFinal
    SpentStaysSpent
CHECK_DEADLOCK FALSE
