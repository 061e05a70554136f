SPECIFICATION FairSpec
CONSTANTS
    Programs = {"js", "agent", "live"}
    FailureThreshold = 2
    HalfOpenMaxCalls = 1
    JsEvents = {j1, j2}
    Poison = {}
    MaxSize = 1
    JsBatchSize = 1
    JsConcurrent = 1
    OverflowPolicies = {"drop_newest", "block"}
    PersistentQueues = {TRUE, FALSE}
    CompactEvery = 2
    JsRefusals = FALSE
    JsCalls = {}
    JsCrashes = 0
    DiskErrors = FALSE
    MaxAppends = 2
    MaxPosts = 1
    RequestIds = {i1, i2}
    MaxMemoryEvents = 1
    AgentBatchSize = 1
    MaxPolls = 1
    MayStop = FALSE
    MayCrash = FALSE
    StoreErrors = FALSE
    Tabs = {b1}
    Exchanges = {x1}
    MaxLogins = 0
    MaxRotations = 0
    MaxSlips = 0
    LiveOrgs = {o1, o2}
    MaxAttempts = 1
    MaxUsage = 1
    MaxTabSwitches = 3
    MaxDrops = 2
    Instances = {a1}
    Providers = {"openai"}
    Family = Family
    MaxSwitches = 0
    Devices = {d1}
    Holders = {h1}
    Unknown = Unknown
    Callbacks = {g1}
    MaxFlows = 0
    MaxOpens = 0
PROPERTIES
    JsEventsSettle
    EveryRequestIdSettles
    ChartsCatchUp
CHECK_DEADLOCK FALSE
