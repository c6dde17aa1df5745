\* Six senders with a queue of two; a cache of three nodes and four names; periods
\* of one and three ticks; three records in blocks of two; journals of three lines.
SPECIFICATION Spec
CONSTANTS
    Sender = {"dhcp", "dnsRest", "dnsFile", "ntpRest", "ntpFile", "store"}
    QueueDepth = 2
    Key = {"a", "b", "c", "d"}
    NoKey = NoKey
    NodeCount = 3
    NumBuckets = 2
    HashOf <- SomeHash
    TtlOf <- SomeTtl
    MaxUses = 1
    ClockMod = 2
    Periods = {1, 3}
    MaxJobs = 1
    Record = {r1, r2, r3}
    Batch = 2
    MaxPending = 1
    MaxLines = 3
    LogQueue = 1
    Sizes = {1, 2}
    KeepLines = 1
    MaxAttempts = 2
INVARIANTS SendersSafe TableSafe TimersSafe LogsSafe
PROPERTIES ImplementsMap WholePeriod EverythingStops
CHECK_DEADLOCK FALSE
