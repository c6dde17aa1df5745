\* Two questions, two slots, the cache switched on and off, every failure.
SPECIFICATION Spec
CONSTANTS
    d1 = d1
    d2 = d2
    d3 = d3
    q1 = q1
    q2 = q2
    q3 = q3
    q4 = q4
    q5 = q5
    q6 = q6
    None = None
    Query = {q1, q2}
    Domain = {d1, d2}
    Ignored = {}
    Oversized = {}
    kMaxPendingForwards = 2
    kLookupQueueDepth = 1
    kMaxPendingDomains = 1
    kFailThreshold = 1
    ResultDepth = 1
    ReadSettings = {TRUE, FALSE}
    InternalCache = FALSE
    BlockNonAA = FALSE
    ForwardFails = TRUE
    ReceiveFails = TRUE
    Restarts = TRUE
    DomainOf <- PairDomain
    TypeOf <- PairType
    LocalHosts <- NoLocal
INVARIANTS SlotPerQuestion ForwardedOnce
