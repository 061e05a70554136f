SPECIFICATION Spec
CONSTANTS
    Programs = {"js", "agent", "dashboard", "live", "instrumentation", "google"}
    FailureThreshold = 2
    HalfOpenMaxCalls = 1
    JsEvents = {j1, j2}
    Poison = {}
    MaxSize = 1
    JsBatchSize = 1
    JsConcurrent = 1
    OverflowPolicies = {"drop_oldest", "block"}
    PersistentQueues = {TRUE, FALSE}
    CompactEvery = 2
    JsRefusals = TRUE
    JsCalls = {"flush", "shutdown"}
    JsCrashes = 1
    DiskErrors = TRUE
    MaxAppends = 2
    MaxPosts = 1
    RequestIds = {i1, i2}
    MaxMemoryEvents = 1
    AgentBatchSize = 1
    MaxPolls = 2
    MayStop = TRUE
    MayCrash = TRUE
    StoreErrors = TRUE
    Tabs = {b1, b2}
    Exchanges = {x1, x2}
    MaxLogins = 2
    MaxRotations = 2
    MaxSlips = 1
    LiveOrgs = {o1, o2}
    MaxAttempts = 1
    MaxUsage = 2
    MaxTabSwitches = 3
    MaxDrops = 2
    Instances = {a1, a2}
    Providers = {"openai", "azure_openai"}
    Family = Family
    MaxSwitches = 5
    Devices = {d1, d2}
    Holders = {h1, h2}
    Unknown = Unknown
    Callbacks = {g1, g2}
    MaxFlows = 2
    MaxOpens = 2
SYMMETRY Symmetric
INVARIANTS
    ClientsTypeOK
    JsFlushMissesNothing
    OneRowPerEvent
    SessionIsKept
    LiveViewIsOurs
    
    GoogleSignInIsOurs
PROPERTIES
    JsImplementsDelivery
    AgentImplementsDelivery
CHECK_DEADLOCK FALSE
