SPECIFICATION Spec
CONSTANTS
    Workers = {w1}
    Markets = {1}
    Symbols = {1}
    Intents = {1}
    MaxBars <- Horizon2
    Assessments <- OnlyFavored
    FollowPlans <- FadeOnly
    Bars <- QuietOrSpike
    Combos <- TwoCombos
    MinTrades = 2
    MinLimit = 2
    FetchLimit = 4
    MaxTime = 5
    MaxFaults = 1
    MaxFollows = 1
INVARIANTS
    TypeOK
    ShadowGradedByTape
    TrackedGradedByTape
