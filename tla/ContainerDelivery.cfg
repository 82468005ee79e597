SPECIFICATION FairSpec
CONSTANTS
    Containers = {c1}
    Operations = {o1, o2}
    Workers = {w1, w2}
    Callers = {k1}
    DockerIds = {d1, d2}
    None = None
    RequestKinds = {"stop", "expose"}
    MaxAttempts = 2
    MaxCopies = 2
    MaxCrashes = 1
    MaxFaults = 2
    FaultPoints = {"timeout", "confirm"}
    OutsideActs = {}
CHECK_DEADLOCK FALSE
INVARIANTS
    ActiveOperationIsCarried
PROPERTIES
    AcceptedOperationEnds
