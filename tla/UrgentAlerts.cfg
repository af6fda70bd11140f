SPECIFICATION FairSpec
CONSTANTS
    a1 = a1
    a2 = a2
    Alerts = {a1, a2}
    Severity <- CriticalAndInfo
    Writers = {w1}
    Passes = {p1}
    MaxAttempts = 2
    Tries = 2
    Lookback = 1
    DayLength = 4
    QuietStart = 1
    QuietEnd = 0
    MaxTime = 1
    Asked = {"pending", "suppressed"}
    FaultKinds = {"send", "kill"}
    MaxFaults = 3
PROPERTIES
    UrgentDecided
