SPECIFICATION FairSpec
CONSTANTS
    Builds = {b1}
    Tag = latest
    Tags = {latest}
    TagOf <- SameTag
    Workers = {w1, w2}
    Callers = {k1}
    Gc = Gc
    None = None
    Requests = {"cancel"}
    MaxCopies = 2
    MaxCrashes = 1
    MaxFaults = 1
    FaultPoints = {"db", "registry", "object", "download", "reply", "publish",
                   "confirm", "dbMark"}
CHECK_DEADLOCK FALSE
INVARIANTS
    ExclusiveBuild
    PendingIsCarried
    ArchiveKept
PROPERTIES
    StatusOnlyAdvances
    BuildsEnd
    StagingsEnd
