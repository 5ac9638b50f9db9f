SPECIFICATION Spec
CONSTANTS
    Owner = {o1}
    Worker = {w1, w2}
    None = None
    Time <- Instants
    Request <- AllRequests
    Loopback <- Local
    Allowlist <- Listed
    AddressBits = 2
    MaxFailed = 2
    Lockout = 1
    OtpLimit = 1
    OtpWindow = 1
    MailValidity = 1
    Grace = 1
    KeyTtl = 1
    Warmup = 1
    Cooldown = 1
    TokenSet = TRUE
    TokenMode = "any"
    InsecureDev = FALSE
    TlsTokenSet = TRUE
    CanFail = TRUE
    MaxOps = 3
    MaxSecrets = 2
    MaxMails = 1
    MaxKeys = 1
SYMMETRY Threads
INVARIANTS CodeOnce MailSpent RevokedNeverActs
PROPERTIES LockHolds
CHECK_DEADLOCK FALSE
