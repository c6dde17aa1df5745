\* The instance of Files.cfg: what a repair may delete.
SPECIFICATION Spec
CONSTANTS
    Absent = Absent
    Path = {p, q}
    Request = {r}
    Windows = 2
    MaxTransfers = 1
    RetryLimit = 1
    Patient = TRUE
    MaxJobs = 1
    Entry = {"d", "e"}
    Tree = {"d"}
    File = {1, 2}
    NoVolume = NoVolume
    Volume = {"fat", "sd"}
    Card = {"sd"}
    Name = {"a", "b"}
    Damage <- SomeDamage
    MaxRounds = 2
    MaxChecks = 1
    MaxClosing = 1
    Formatter = {f1, f2}
PROPERTIES RepairDeletesDamage
CHECK_DEADLOCK FALSE
