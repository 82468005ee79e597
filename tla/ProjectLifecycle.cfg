SPECIFICATION FairSpec
CONSTANTS
    Services = {"db", "web"}
    VolumeNames = {}
    DomainPrefixes = {}
    Absent = Absent
    Plan <- WebAfterHealthyDb
    OneShots = {"web"}
    Callers = {k1}
    MaxRequests = 1
    MaxTroubles = 1
    Troubles = {"delete", "docker", "capacity", "list", "end", "complete", "vanish",
                "unhealthy", "crash"}
    MaxLag = 1
CHECK_DEADLOCK FALSE
INVARIANTS
    DeletedLeavesNothing
PROPERTIES
    StartsInOrder
    
    RowsAreRepaired
