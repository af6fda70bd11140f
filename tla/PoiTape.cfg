SPECIFICATION Spec
CONSTANTS
    TolNum = 1
    TolDen = 10
    AtrLength = 2
    FirstDeparture = 4
    MinBars = 4
    MaxBase = 2
    MaxSkips = 1
    SweepLookback = 2
    PerKind = 1
    Bars <- Shelf
    K = 1
    MaxTime = 8
INVARIANTS
    TypeOK
    FreshnessReproduced
    RankAgreesWithSelect
    PlanNotPassed
PROPERTIES
    DetectionsStand
    LedgerOnlyAges
    ImplementsFreshness
CHECK_DEADLOCK FALSE
