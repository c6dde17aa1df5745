\* The external cache is on and answers; once the task is blocked nothing moves.
SPECIFICATION Spec
CHECK_DEADLOCK FALSE
CONSTANTS
    d1 = d1
    d2 = d2
    d3 = d3
    q1 = q1
    q2 = q2
    q3 = q3
    q4 = q4
    q5 = q5
    q6 = q6
    None = None
    Query = {q1, q2}
    Domain = {d1, d2}
    Ignored = {}
    Oversized = {}
    kMaxPendingForwards = 2
    kLookupQueueDepth = 2
    kMaxPendingDomains = 2
    kFailThreshold = 1
    ResultDepth = 2
    ReadSettings = {TRUE}
    InternalCache = TRUE
    BlockNonAA = FALSE
    ForwardFails = FALSE
    ReceiveFails = FALSE
    Restarts = FALSE
    DomainOf <- PairDomain
    TypeOf <- PairType
    LocalHosts <- NoLocal
PROPERTIES QuestionAnswered
