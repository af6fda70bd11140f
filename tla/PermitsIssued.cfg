SPECIFICATION Spec
CONSTANTS
    TickSize = 2
    MinQty = 1
    MinNotional = 5
    p1 = p1
    Positions = {p1}
    Bucket <- OneBucket
    Notional <- OneNotional
    Loss <- WholeWallet
    Requests = {r1, r2}
    Editors = {e1}
    Tickets <- OneTicket
    Payloads <- OnlyStrict
    DefaultRules <- Seeded
    Deposit = 1000
    Histories <- Revenge
    SessionAt <- AlwaysLondon
    Day = 0
    Week = 0
    MaxAge = 1
    TTL = 1
    MaxTime = 1
    MaxFaults = 1
    MaxVersions = 2
    MaxPermits = 1
SYMMETRY WriterSymmetry
INVARIANTS
    TypeOK
    ApprovedOnFreshFigures
    NothingSlips
    AuditChain
    RiskBudgetKept
CHECK_DEADLOCK FALSE
