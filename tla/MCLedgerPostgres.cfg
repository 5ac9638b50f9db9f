\* PostgresWal with failing calls, two regions of which one must answer,
\* the auxiliary paths on, and an upstream that does not deduplicate.
SPECIFICATION Spec
CONSTANTS
    Key = {k1}
    CommitId = {c1, c2, c3}
    Worker = {w1, w2}
    Region = {r1, r2}
    MinAcks = 1
    MaxRetries = 2
    Backend = "Postgres"
    WalOutcome = {"ok", "fail", "unacked"}
    RegionOutcome = {TRUE, FALSE}
    AuditOutcome = {TRUE}
    Auxiliary = {"udp", "mail"}
    UpstreamDedups = FALSE
    MaxRequests = 3
    MaxCrashes = 1
    None = None
    Pending = Pending
    Refused = Refused
SYMMETRY Symmetry
INVARIANTS
    WriteAheadFirst
    RegionsBeforeStore
    AuditCoversStore
PROPERTIES
    SettledNeverReadmitted
CHECK_DEADLOCK FALSE
