SPECIFICATION Spec
CONSTANTS
    Worker = {w1, w2}
    None = None
    Char = {"/", "a", "b"}
    Slash = "/"
    Path <- MCPath
    Prefix <- MCPrefix
    Upstream = TRUE
    Loaded <- MCLoaded
    MaxRequests = 3
    Client = {"a", "b"}
    Unit = 3
    Rate = 2
    Burst = 7
    IdleFor = 2
    MaxTime = 6
    MaxAdmitted = 4
    DocRoot = {"a", "b"}
    Ports = 4
    FirstPort = 1
    MaxChildren = 3
    MaxRestarts = 1
    MaxBytes = 4
    MaxBackups = 3
    Size = {1, 4}
    MaxEntries = 6
    MaxFailures = 2
    MaxCrashes = 1
SYMMETRY Tasks
INVARIANTS TypeOK BestStays WindowKept ChildrenKnown BackupsKept
PROPERTIES ComesBackByOverlap
CHECK_DEADLOCK FALSE
