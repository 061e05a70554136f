SPECIFICATION Spec
CONSTANTS
    Parts = {"ingestion", "scheduler", "collection", "alerts", "realtime", "memberships", "accounts", "connections", "calls", "reads", "limits", "pricing"}
    Requests = {r1, r2}
    ApiKeys = {k1, k2}
    Ids = {i1, i2, n1, n2}
    Attributed = {i1, i2}
    Foreign = {}
    Faults = TRUE
    Processes = {p1, p2, p3}
    Orgs = {o1}
    NoOne = NoOne
    MaxConcurrent = 1
    RedisFaults = TRUE
    MaxCrashes = 1
    Syncs = {x1, x2}
    PageLimit = 1
    Lookback = 2
    Arbiters = {TRUE, FALSE}
    Swallowing = {TRUE, FALSE}
    Refusable = {1}
    MaxTime = 3
    MaxFailures = 1
    Workers = {w1, w2}
    Users = {u1}
    Limits = {2}
    Periods = 2
    MaxSpend = 3
    MaxReopens = 1
    MaxAlerts = 2
    Servers = {s1, s2}
    SseClients = {c1}
    WsClients = {}
    BufferSize = 2
    QueueMaxsize = 1
    MaxEvents = 4
    MaxOutages = 1
    People = {a, b}
    Founder = a
    Nobody = Nobody
    Calls = {q1, q2}
    MaxCalls = 4
    MaxInvites = 2
    Browsers = {b1, b2}
    MaxAttempts = 5
    MaxSessions = 2
    MaxLinks = 3
    Connections = {cn1, cn2}
    Edits = {e1, e2}
    ConnKinds = {"openai", "azure_openai"}
    MaxFailureCount = 2
    FirstCalls = {pc1}
    Reruns = {pc2}
    Adapters = {"anthropic", "openrouter", "azure_openai"}
    MaxTries = 2
    Reads = {rd1}
    RecordIds = {cr1, cr2}
    Shapes <- MCShapes
    Filters <- MCFilters
    Today = 4
    MonthStart = 3
    TopModels = 1
    MaxUpserts = 2
    Tries = {t1, t2}
    Replicas = {rp1}
    WindowSeconds = 2
    MaxPerWindow = 2
    MaxInARow = 2
    LockoutMax = 2
    FailureTTL = 2
    MaxTicks = 3
    MaxSlips = 1
    Reporters <- MCReporters
    Feeds = {f1, f2}
    Buckets = {2}
    Collectors = {l1, l2}
    MaxTokens = 1
    MaxRuns = 2
    Editors = {ed1, ed2}
    Drafts <- MCDrafts
SYMMETRY Symmetric
INVARIANTS
    BackendTypeOK
    CountedOnce
    OneSyncPerOrg
    NothingSkipped
    OverrunIsNoticed
    AlertsCountWhatHappened
    GapsAreExplained
    GuardsKeepAnOwner
    OneWayIn
    AccountStaysWithItsOwner
    SeparateEditsAgree
    PlaygroundSpendIsReal
    PartsAddUp
    LimitsHold
    CostsFollowUsage
PROPERTIES
    OnlyPeopleReopen
CHECK_DEADLOCK FALSE
