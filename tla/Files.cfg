\* One upload at a time on two paths with one row in the table, a transfer of a
\* tree and a file, a repair with a check beside it, two formats, every
\* kind of card and slot.
SPECIFICATION Spec
CONSTANTS
    Absent = Absent
    Path = {p, q}
    Request = {r}
    Windows = 2
    MaxTransfers = 1
    RetryLimit = 1
    Patient = TRUE
    MaxJobs = 1
    Entry = {"d", "e"}
    Tree = {"d"}
    File = {1, 2}
    NoVolume = NoVolume
    Volume = {"fat", "sd"}
    Card = {"sd"}
    Name = {"a", "b"}
    Damage <- SomeDamage
    MaxRounds = 2
    MaxChecks = 1
    MaxClosing = 1
    Formatter = {f1, f2}
INVARIANTS  VolumesSafe
PROPERTIES WipedAsAgreed EverythingEnds
CHECK_DEADLOCK FALSE
