SPECIFICATION Spec
CONSTANTS
    Events = {e1, e2, e3}
    QueueSize = 2
    BatchSize = 2
    MaxConcurrent = 2
    Policy = "drop_oldest"
    Durable = TRUE
    RetryEnabled = TRUE
    Refusals = TRUE
    Poison = {}
    FailureThreshold = 2
    HalfOpenMaxCalls = 1
SYMMETRY Symmetric
INVARIANTS
    TypeOK
    OneHome
    FlushMissesAtMostABatch
PROPERTIES
    OpenLeavesByTimeout
    ImplementsDelivery
