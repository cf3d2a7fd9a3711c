SPECIFICATION Spec

CONSTANTS
    MaxJobs = 2
    RetriedJobs = {}
    MaxTries = 1
    RetryableCodes = {"AI_PROVIDER_FAILED", "JOB_TIMEOUT"}
    MaxFaults = 1

INVARIANTS
    DeletedStaysDeleted
CHECK_DEADLOCK FALSE
