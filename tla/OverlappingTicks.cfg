SPECIFICATION Spec
CONSTANTS
    Workers = {w1, w2}
    Markets = {1}
    Symbols = {1}
    Intents = {1}
    MaxBars <- Horizon2
    Assessments <- BothPlans
    FollowPlans <- NoPlans
    Bars <- StopOrFill
    Combos <- TwoCombos
    MinTrades = 2
    MinLimit = 2
    FetchLimit = 6
    MaxTime = 4
    MaxFaults = 0
    MaxFollows = 0
SYMMETRY WorkerSymmetry
INVARIANTS
    PassUsable
PROPERTIES
    ShadowOutcomeFinal
    LimitFactsStand
