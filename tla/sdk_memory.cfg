SPECIFICATION Spec
CONSTANTS
    Events = {e1, e2, e3, e4}
    QueueSize = 2
    BatchSize = 2
    MaxConcurrent = 1
    Policy = "block"
    Durable = FALSE
    RetryEnabled = FALSE
    Refusals = TRUE
    Poison = {e4}
    FailureThreshold = 2
    HalfOpenMaxCalls = 2
SYMMETRY Symmetric
INVARIANTS
    NothingVanishes
