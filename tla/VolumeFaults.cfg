SPECIFICATION Spec
CONSTANTS
    Volumes = {v1}
    Names = {n1}
    Containers = {c1}
    Operations = {o1, o2}
    Workers = {w1, w2}
    Callers = {k1}
    None = None
    MaxAttempts = 1
    MaxCopies = 2
    MaxCrashes = 1
    MaxFaults = 1
    FaultPoints = {"timeout", "lostReply", "docker", "publish", "confirm", "dbMark",
                   "dbLoad", "dbRecord", "dbRequeue", "dbFail", "dbComplete",
                   "dbRecover"}
    OutsideActs = {"remove"}
SYMMETRY Symmetry
CHECK_DEADLOCK FALSE
PROPERTIES
    RefinesSerialExecution
    DeletedVolumeIsGone
