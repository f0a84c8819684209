SPECIFICATION FairStoreSpec
CONSTANTS
    s1 = s1
    s2 = s2
    b1 = b1
    b2 = b2
    u1 = u1
    u2 = u2
    NoUrl = NoUrl
    Junk = Junk
    Slots = {s1, s2}
    Bufs = {b1, b2}
    Urls = {u1, u2}
    Length <- MCLength
    MaxMoves = 1
    MaxFaults = 1
INVARIANTS
    StoreTypeOK
    SendsWholeUrl
PROPERTIES
    ImplementsService
    RequestsSucceed
