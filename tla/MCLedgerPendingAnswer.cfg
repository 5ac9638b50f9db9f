\* One client sends its request again after the commit failed, on PostgresWal.
SPECIFICATION Spec
CONSTANTS
    Key = {k1}
    CommitId = {c1}
    Worker = {w1}
    Region = {}
    MinAcks = 0
    MaxRetries = 2
    Backend = "Postgres"
    WalOutcome = {"ok"}
    RegionOutcome = {TRUE}
    AuditOutcome = {FALSE}
    Auxiliary = {}
    UpstreamDedups = TRUE
    MaxRequests = 2
    MaxCrashes = 0
    None = None
    Pending = Pending
    Refused = Refused
INVARIANTS
    NoSilentSuccess
CHECK_DEADLOCK FALSE
