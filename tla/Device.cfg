\* Two sessions and a third connection; three lists of time servers over four
\* seconds; two rate slots for three clients; three addresses in four slots; a
\* directory tree of five paths and every path of up to three components typed
\* from anywhere in it; every range of octets of four values; two host names.
SPECIFICATION Spec
CONSTANTS
    MaxSessions = 2
    AttemptsMax = 2
    Connection = {1, 2, 3}
    Path <- SomePaths
    DirPath <- SomeDirs
    Typed <- SomeTyped
    Spelled <- SomeSpelled
    MaxDepth = 3
    Servers = {"none", "a", "b"}
    NoServers = "none"
    Probe = {1, 2}
    MaxSecond = 4
    NtpClient = {"w", "x", "y", "f"}
    NoClient = "none"
    Watched = "w"
    Foreign = {"f"}
    RateSlots = 2
    Window = 3
    RateLimit = 2
    MaxTick = 5
    MaxAsked = 3
    Mac = {"a", "b", "c"}
    NoMac = "none"
    Slots = 4
    MaxListed = 2
    hashMac <- SomeHash
    ListsOf <- SomeLists
    Octet = 4
    ServerIp = 6
    MinLeaseEntries = 1
    MaxLeaseEntries = 5
    HostName = {"a", "b"}
INVARIANTS SshSafe   NameSafe
PROPERTIES ShellIsEarned  ComesToRest
CHECK_DEADLOCK FALSE
