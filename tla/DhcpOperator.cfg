\* One client, an operator who switches the allow-list and a binding, and a
\* hold-down table that overflows; the purge runs under fairness.
SPECIFICATION Spec
CONSTANTS
    m1 = m1
    m2 = m2
    Mac = {m1}
    Addr = {9, 10}
    Octet = 8
    RangeStart = 9
    RangeEnd = 10
    ServerIp = 11
    MinLeaseEntries = 1
    MaxLeaseEntries = 2
    LeaseTime = 2
    OfferHold = 1
    DeclineHold = 2
    DeclineCapacity = 2
    ProbeDelay = 1
    StaticConfigs <- OneBinding
    PolicyConfigs <- SwitchPolicy
    LimitConfigs = {2}
    TableAvailable = TRUE
    Named = {}
    NoLease = NoLease
    NoName = NoName
INVARIANTS RefusedNotReissued 
PROPERTY ExpiredEntryLeaves
