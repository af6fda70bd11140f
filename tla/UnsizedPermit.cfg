SPECIFICATION Spec
CONSTANTS
    TickSize = 2
    MinQty = 1
    MinNotional = 5
    p1 = p1
    Positions = {p1}
    Bucket <- OneBucket
    Notional <- OneNotional
    Loss <- WholeWallet
    Requests = {r1}
    Editors = {}
    Tickets <- TwoTickets
    Payloads <- OnlyStrict
    DefaultRules <- Seeded
    Deposit = 1000
    Histories <- Revenge
    SessionAt <- AlwaysLondon
    Day = 1
    Week = 5
    MaxAge = 1
    TTL = 1
    MaxTime = 1
    MaxFaults = 1
    MaxVersions = 2
    MaxPermits = 1
INVARIANT LiquidationBeyondStop
CHECK_DEADLOCK FALSE
