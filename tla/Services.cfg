CONSTANTS
    Calls = {c1, c2, c3}
    NoCall = NoCall
    Machine <- Closing
    Finals = {"cloture_confirmee"}
    MaxCalls = 4
    Nobody = Nobody
    Fields = {"montant", "statut"}
    EntityTime = 1
    Entries = {1, 2, 3, 4, 5}
    Critical = {2}
    Anonymous = {4, 5}
    PurgeEvents = {5}
    Retentions <- AnyRetention
    MaxSize = 2
    DropThreshold = 3
    MinDays = 1
    DefaultDays = 2
    MaxDays = 2
    Limit = 1
    AuditTime = 2
    Requests = {r1, r2}
    Tenants = {t1, t2}
    Connections = {k1}
    None = None
    TTL = 2
    ScopeTime = 2
    Nodes = {n1, n2}
    Loads = {q1}
    L1TTL = 1
    L2TTL = 2
    MaxMessages = 1
    MaxClock = 4
SPECIFICATION ServicesSpec
INVARIANTS
    TypesOK
    HistoryIsPath
    OneRun
    UpdatesAreKept
    AuditIsKept
    PagesComplete
    RunnerSeesItsTenant
    CopiesDie
PROPERTIES
    OnlyLegalMoves
    CheckedSawLatest
    DeactivationBites
CHECK_DEADLOCK FALSE
