SPECIFICATION Spec
CONSTANTS
    Task = {w1, w2}
    None = None
    Host = {w1, w2}
    Threshold = 2
    AccountKey = {k1, k2}
    MaxOrders = 2
    MaxRestarts = 1
    Addr = {"a", "b"}
    First = "a"
    Domain = {"c", "d"}
    Seed = {"c"}
    Addr6 = {"p"}
    Capacity = 2
    MaxSetups = 1
    MaxMoves = 1
    Name = {"c", "d", "e"}
    Page = "page"
    Site <- MCSite
    Base = 5
    Timeout = 1
    Limit = 10
    MaxLate = 1
    MaxVersion = 3
    MaxCrashes = 2
    Source = {"f", "g", "h"}
    NameOf <- MCNameOf
    MaxTime = 2
    MaxKills = 1
    IdemKey = {"k", "l"}
    MaxAttempts = 2
    MaxCuts = 1
    MaxSent = 3
    MaxDamaged = 1
    Channel = {"x", "y"}
    Path <- MCPath
    MaxLen = 1
    MaxFiles = 2
    MaxOpens <- MCMaxOpens
    Client = {w1}
    Password = {"right", "wrong"}
    MaxHostKeys = 2
    MaxKeys = 3
    MaxSends = 2
    PathPattern <- MCPathPattern
    ValuePattern <- MCValuePattern
    Request = {"a", "b"}
    Value = {"h"}
    MaxRules = 2
    Text = {"x"}
    Cond = {"c", "d"}
    MaxLines = 5
    Subdomain = {"n"}
    Owner = {"o", "p"}
    Ip = {"i", "j"}
INVARIANTS
    TypeOK
    RepairsDue
    IssuanceSound
    AddressesTold
    UpdateHarmless
    CopiesKept
    ScanIsTrue
    TakenOnce
    FilesAsTold
    RefusedWithOwnKey
    RulesAsWritten
    StoresAgreeOrTell
CHECK_DEADLOCK FALSE
