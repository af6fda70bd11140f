SPECIFICATION FairSpec
CONSTANTS
    Callers = {c1, c2}
    Markets = {"spot", "perp"}
    Wants <- AppWants
    Streams = {"btcusdt", "1000pepeusdt"}
    MarketOf <- Venue
    StreamOf <- Name
    MaxAttempts = 2
    MaxDrops = 3
INVARIANTS
    SocketServesRegistry
    NoOrphanTick
PROPERTIES
    WantsAreServed
