SPECIFICATION RunningSpec
CONSTANTS
    Events = {e1, e2}
    QueueSize = 2
    BatchSize = 2
    MaxConcurrent = 2
    Policy = "drop_oldest"
    Durable = TRUE
    RetryEnabled = TRUE
    Refusals = TRUE
    Poison = {}
    FailureThreshold = 1
    HalfOpenMaxCalls = 1
PROPERTY
    EveryEventSettles
