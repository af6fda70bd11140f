SPECIFICATION FairSpec
CONSTANTS
    Workers = {w1}
    Markets = {1}
    Symbols = {1}
    Intents = {1}
    MaxBars <- Horizon2
    Assessments <- BothPlans
    FollowPlans <- NoPlans
    Bars <- LimitBars
    Combos <- TwoCombos
    MinTrades = 1
    MinLimit = 2
    FetchLimit = 3
    MaxTime = 5
    MaxFaults = 1
    MaxFollows = 0
INVARIANTS
    AnticGradedByTape
    UnharmedCallsGraded
PROPERTIES
    AnticNeverContradicted
    RecordsKeepUp
