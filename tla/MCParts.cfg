CONSTANTS
    flushEvery = 3
    maxEntries = 2
    MaxAppends = 8
    MaxCrashes = 1
    MaxErrors = 2
    Readers = {r1}
    MaxRevision = 4
    Consumers = {c1}
    Pingers = {p1, p2}
    Buffer = 1
    MaxFrames = 2
    MaxPings = 3
    Ids = {1, 2, 3, 4}
    HashOf <- HashOfIds
    Clients = {k1, k2, k3}
    Limit = 2
    MaxInFlight = 2
    ClaimLimit = 4
    MaxVersion = 2
    MaxEvents = 3
SPECIFICATION PartsSpec
INVARIANTS
    EvidenceSurvives
    LogBounded
    ParamsNotOlder
    PingHeardSomething
    PanicNeedsClose
    StoresConsistent
    StoresAgree
CHECK_DEADLOCK FALSE
