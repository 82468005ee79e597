SPECIFICATION Spec
CONSTANTS
    Containers = {c1}
    Operations = {o1, o2}
    Workers = {w1, w2}
    Callers = {k1}
    DockerIds = {d1, d2}
    None = None
    RequestKinds = {"start", "stop", "delete", "expose"}
    MaxAttempts = 1
    MaxCopies = 2
    MaxCrashes = 1
    MaxFaults = 1
    FaultPoints = {"timeout", "lostReply", "docker", "publish", "confirm", "dbMark",
                   "dbCreating", "dbUnclaim", "dbLoad", "dbCheck", "dbRecord", "dbTarget",
                   "dbRequeue", "dbFail", "dbComplete", "dbRecover"}
    OutsideActs = {"exit"}
SYMMETRY Symmetry
CHECK_DEADLOCK FALSE
INVARIANTS
    ExclusiveExecution
PROPERTIES
    FinishedIsFinal
    RefinesSerialExecution
