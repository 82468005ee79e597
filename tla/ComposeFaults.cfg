SPECIFICATION Spec
CONSTANTS
    Services <- MCServices
    VolumeNames <- MCVolumes
    DomainPrefixes = {}
    Absent = Absent
    Files <- MCFiles
    Forbidden = {}
    Available = {"old"}
    OneShots = {"web"}
    Workers = {w1, w2}
    MaxAttempts = 2
    Canceled <- MCCanceled
    MaxCopies = 2
    MaxFaults <- MCFaults
    FaultPoints = {"create", "publish", "confirm", "handler", "prepare", "trigger",
                   "ignored", "coordinator", "admission", "docker", "crash"}
SYMMETRY WorkerSymmetry
CHECK_DEADLOCK FALSE
INVARIANTS
    QueuedJobIsCarried
PROPERTIES
    RollbackEndsClean
    EndedStaysEnded
    StepsInOrder
