SPECIFICATION FairSpec
CONSTANTS
    Services <- MCServices
    VolumeNames <- MCVolumes
    DomainPrefixes = {}
    Absent = Absent
    Files <- EndsFiles
    Forbidden = {}
    Available = {}
    OneShots = {"web"}
    Workers = {w1}
    MaxAttempts = 1
    Canceled = {1, 2}
    MaxCopies = 1
    MaxFaults <- EndsFaults
    FaultPoints = {"ignored", "docker", "crash"}
CHECK_DEADLOCK FALSE
PROPERTIES
    DeploymentEnds
