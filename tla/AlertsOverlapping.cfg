SPECIFICATION Spec
CONSTANTS
    a1 = a1
    a2 = a2
    Alerts = {a1}
    Severity <- OneCritical
    Writers = {w1, w2}
    Passes = {p1, p2}
    MaxAttempts = 2
    Tries = 2
    Lookback = 2
    DayLength = 4
    QuietStart = 2
    QuietEnd = 1
    MaxTime = 2
    Asked <- RowState
    FaultKinds = {"send", "kill"}
    MaxFaults = 2
SYMMETRY JobSymmetry
INVARIANTS
    StateTellsReceived
    FailedWasTried
    RepeatsHaveCause
PROPERTIES
    DecidedStays
