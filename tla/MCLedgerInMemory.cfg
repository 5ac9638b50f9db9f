\* The production default (AppState::from_env) is InMemoryWal. Every exchange
\* with upstream ends: every handler returns.
SPECIFICATION LiveSpec
CONSTANTS
    Key = {k1, k2}
    CommitId = {c1, c2}
    Worker = {w1, w2}
    Region = {r1}
    MinAcks = 1
    MaxRetries = 2
    Backend = "InMemory"
    WalOutcome = {"ok"}
    RegionOutcome = {TRUE, FALSE}
    AuditOutcome = {FALSE}
    Auxiliary = {}
    UpstreamDedups = TRUE
    MaxRequests = 3
    MaxCrashes = 1
    None = None
    Pending = Pending
    Refused = Refused
INVARIANTS
    ReceiptIsStored
    AnswersAgree
PROPERTIES
    Handled
CHECK_DEADLOCK FALSE
