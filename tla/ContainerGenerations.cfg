SPECIFICATION Spec
CONSTANTS
    Containers = {c1}
    Operations = {o1, o2, o3}
    Workers = {w1, w2}
    Callers = {k1, k2}
    DockerIds = {d1, d2, d3}
    None = None
    RequestKinds = {"expose", "delete"}
    MaxAttempts = 2
    MaxCopies = 2
    MaxCrashes = 0
    MaxFaults = 1
    FaultPoints = {"timeout", "dbRecord"}
    OutsideActs = {"remove"}
SYMMETRY Symmetry
CHECK_DEADLOCK FALSE
INVARIANTS
    NoGenerationLeaks
