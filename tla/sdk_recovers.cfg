SPECIFICATION RunningSpec
CONSTANTS
    Events = {e1, e2, e3}
    QueueSize = 2
    BatchSize = 2
    MaxConcurrent = 2
    Policy = "drop_newest"
    Durable = TRUE
    RetryEnabled = TRUE
    Refusals = FALSE
    Poison = {e3}
    FailureThreshold = 2
    HalfOpenMaxCalls = 2
INVARIANT
    SlotsAccountedFor
PROPERTY
    EveryEventSettles
