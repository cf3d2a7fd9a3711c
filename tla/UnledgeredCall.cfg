SPECIFICATION Spec

CONSTANTS
    MaxJobs = 1
    RetriedJobs = {}
    MaxTries = 1
    RetryableCodes = {"AI_PROVIDER_FAILED", "JOB_TIMEOUT"}
    MaxFaults = 0

INVARIANTS
    BillingCoversDescendants
CHECK_DEADLOCK FALSE
