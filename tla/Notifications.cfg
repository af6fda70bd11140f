SPECIFICATION FairSpec
CONSTANTS
    f1 = f1
    f2 = f2
    owner = owner
    stranger = stranger
    Nobody = Nobody
    Follows = {f1, f2}
    Broadcasts = {b1, b2}
    Users = {owner, stranger}
    OwnerOf <- OneEach
    Clients = {c1}
    UserOf <- AllOwners
    Checks = {k1, k2}
    RecentLimit = 2
    MaxItems = 2
    MaxTime = 2
    MaxFaults = 2
INVARIANTS
    CursorBehind
    AnnouncedOnce
PROPERTY SettlementsReachOwners
