SPECIFICATION FairAllSpec
CONSTANTS
    u1 = u1
    u2 = u2
    c1 = c1
    c2 = c2
    b1 = b1
    b2 = b2
    a1 = a1
    Users = {u1, u2}
    Containers = {c1, c2}
    Builds = {b1, b2}
    Sessions = {1, 2}
    Free = Free
    Owner <- MCOwner
    Need <- MCNeed
    BuildNeed <- One
    Quota <- MCQuota
    Pool <- One
    MaxContainers = 2
    MaxCreates = 1
    MaxBuilds = 1
    Existing = {{}, {c1}, {c1, c2}}
    MaxRequests = 2
    MaxFaults = 1
    MaxSyncs = 1
    MaxLag = 4
    Kinds = {"create", "start", "check", "build", "stop", "delete", "expose"}
    Admins = {a1, a2}
    Jobs = {j1, j2, j3}
    Absent = Absent
    Files <- MCFiles
    Defaults <- MCDefaults
    Inputs <- MCInputs
    Intervals = {2, 3, 4}
    Half = 4
    Exact = 8
    Hour = 2
    Offset = 5
    Day = 4
    Mixes <- MCMixes
CHECK_DEADLOCK FALSE
INVARIANTS
    WithinLimits
    WantedWithinQuota
    RestartKeepsConfig
    SlotsWithinLimit
    ReportIsCurrent

PROPERTIES
    OnlyEditedFieldsChange
    AdmissionEnds
    RebalanceFollows
    RefreshIsServed
