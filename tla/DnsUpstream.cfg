\* The external cache is off: everything the server does not know goes upstream.
SPECIFICATION Spec
CONSTANTS
    d1 = d1
    d2 = d2
    d3 = d3
    q1 = q1
    q2 = q2
    q3 = q3
    q4 = q4
    q5 = q5
    q6 = q6
    None = None
    Query = {q1, q2, q3, q4, q5, q6}
    Domain = {d1, d2, d3}
    Ignored = {q6}
    Oversized = {q4}
    kMaxPendingForwards = 1
    kLookupQueueDepth = 2
    kMaxPendingDomains = 2
    kFailThreshold = 1
    ResultDepth = 2
    ReadSettings = {FALSE}
    InternalCache = TRUE
    BlockNonAA = TRUE
    ForwardFails = TRUE
    ReceiveFails = FALSE
    Restarts = FALSE
    DomainOf <- MixDomain
    TypeOf <- MixType
    LocalHosts <- ThirdLocal
 
PROPERTIES QuestionAnswered
