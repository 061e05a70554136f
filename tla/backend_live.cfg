SPECIFICATION FairSpec
CONSTANTS
    Connections = {cn1}
    Edits = {e1}
    ConnKinds = {"openai"}
    MaxFailureCount = 1
    FirstCalls = {pc1}
    Reruns = {}
    Adapters = {"openai"}
    MaxTries = 2
    Reads = {rd1}
    RecordIds = {cr1}
    Shapes <- MCShapes
    Filters <- MCFilters
    Today = 4
    MonthStart = 3
    TopModels = 1
    MaxUpserts = 1
    Parts = {"ingestion", "scheduler", "collection", "realtime"}
    Requests = {r1, r2}
    ApiKeys = {k1}
    Ids = {i1, i2, f1}
    Attributed = {i1, i2, f1}
    Foreign = {f1}
    Faults = TRUE
    Processes = {p1, p2}
    Orgs = {o1}
    NoOne = NoOne
    MaxConcurrent = 1
    RedisFaults = TRUE
    MaxCrashes = 2
    Syncs = {x1, x2}
    PageLimit = 1
    Lookback = 2
    Arbiters = {TRUE}
    Swallowing = {FALSE}
    Refusable = {1}
    MaxTime = 3
    MaxFailures = 1
    Workers = {w1, w2}
    Users = {u1}
    Limits = {2}
    Periods = 1
    MaxSpend = 1
    MaxReopens = 1
    MaxAlerts = 1
    Servers = {s1}
    SseClients = {c1}
    WsClients = {c2}
    BufferSize = 1
    QueueMaxsize = 1
    MaxEvents = 3
    MaxOutages = 1
    People = {a}
    Founder = a
    Nobody = Nobody
    Calls = {q1}
    MaxCalls = 0
    MaxInvites = 0
    Browsers = {b1}
    MaxAttempts = 0
    MaxSessions = 0
    MaxLinks = 0
    Tries = {t1}
    Replicas = {}
    WindowSeconds = 1
    MaxPerWindow = 1
    MaxInARow = 1
    LockoutMax = 1
    FailureTTL = 1
    MaxTicks = 1
    MaxSlips = 0
    Reporters <- MCReporters
    Feeds = {f1}
    Buckets = {2}
    Collectors = {l1}
    MaxTokens = 1
    MaxRuns = 1
    Editors = {ed1}
    Drafts <- MCDrafts
PROPERTIES
    EveryEventIsCounted
    EveryDueOrgIsSynced
    EventuallyCollected
    EveryClientCatchesUp
