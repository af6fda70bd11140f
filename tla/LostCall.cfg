SPECIFICATION Spec
CONSTANTS
    Workers = {w1}
    Markets = {1}
    Symbols = {1}
    Intents = {1}
    MaxBars <- Horizon2
    Assessments <- FlipReads
    FollowPlans <- NoPlans
    Bars <- TwoBars
    Combos <- TwoCombos
    MinTrades = 2
    MinLimit = 2
    FetchLimit = 6
    MaxTime = 5
    MaxFaults = 1
    MaxFollows = 0
INVARIANTS
    CrashHeals
