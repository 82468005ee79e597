SPECIFICATION FairSpec
CONSTANTS
    Volumes = {v1, v2}
    Names = {n1}
    Containers = {}
    Operations = {o1, o2, o3}
    Workers = {w1}
    Callers = {k1}
    None = None
    MaxAttempts = 1
    MaxCopies = 1
    MaxCrashes = 1
    MaxFaults = 0
    FaultPoints = {}
    OutsideActs = {"remove"}
CHECK_DEADLOCK FALSE
PROPERTIES
    RemovalOwnsName
    RowsSettle
