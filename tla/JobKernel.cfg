SPECIFICATION Spec

CONSTANTS
    j1 = j1
    w1 = w1
    w2 = w2
    p1 = p1
    p2 = p2
    NoJob = NoJob
    NoHolder = NoHolder
    Jobs = {j1}
    Workers = {w1, w2}
    Publishers = {p1, p2}
    MaxAttempts = 2
    RetryableCodes = {"JOB_TIMEOUT", "MODEL_CALL_FAILED"}
    MaxPublish = 2
    MaxFaults = 1

INVARIANTS
    TypeOK
    ActiveAttemptAgrees
    AttemptChain
    SingleExecution
    QueuedIsDispatchable
    DispatchFailureNeverRan
PROPERTIES
    ImplementsLifecycle
    DispatchFenced
SYMMETRY Symmetric
CONSTRAINT SecondDispatcherBounded
CHECK_DEADLOCK FALSE
