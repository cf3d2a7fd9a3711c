SPECIFICATION Spec

CONSTANTS
    j1 = j1
    w1 = w1
    w2 = w2
    p1 = p1
    p2 = p2
    NoJob = NoJob
    NoHolder = NoHolder
    Jobs = {j1}
    Workers = {w1}
    Publishers = {p1}
    MaxAttempts = 2
    RetryableCodes = {"JOB_TIMEOUT", "MODEL_CALL_FAILED"}
    MaxPublish = 2
    MaxFaults = 1

PROPERTIES
    RecoveryOnlyExpired
CHECK_DEADLOCK FALSE
