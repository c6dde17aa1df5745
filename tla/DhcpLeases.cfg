\* Two clients, two pool addresses, no operator action but the table cap and a
\* restart.
SPECIFICATION Spec
CONSTANTS
    m1 = m1
    m2 = m2
    Mac = {m1, m2}
    Addr = {9, 10}
    Octet = 8
    RangeStart = 9
    RangeEnd = 10
    ServerIp = 11
    MinLeaseEntries = 1
    MaxLeaseEntries = 2
    LeaseTime = 3
    OfferHold = 1
    DeclineHold = 2
    DeclineCapacity = 1
    ProbeDelay = 1
    StaticConfigs <- NoBindings
    PolicyConfigs <- OpenPolicy
    LimitConfigs = {1, 2}
    TableAvailable = FALSE
    Named = {}
    NoLease = NoLease
    NoName = NoName
INVARIANTS GrantTracked
PROPERTIES CapRespected
SYMMETRY Symmetry
