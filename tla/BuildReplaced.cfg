SPECIFICATION Spec
CONSTANTS
    Builds = {b1, b2}
    Tag = latest
    Tags = {latest}
    TagOf <- SameTag
    Workers = {w1}
    Callers = {k1}
    Gc = Gc
    None = None
    Requests = {"cancel", "delete", "deleteImage"}
    MaxCopies = 1
    MaxCrashes = 0
    MaxFaults = 1
    FaultPoints = {"db", "registry"}
SYMMETRY Symmetry
CHECK_DEADLOCK FALSE
INVARIANTS
    ImageFollowsBuild
