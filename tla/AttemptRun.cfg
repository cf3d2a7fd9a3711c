SPECIFICATION FairSpec

CONSTANTS
    MaxJobs = 2
    RetriedJobs = {1}
    MaxTries = 2
    RetryableCodes = {"AI_PROVIDER_FAILED", "JOB_TIMEOUT"}
    MaxFaults = 1

INVARIANTS
    TypeOK
    BillingCoversLedgered
    FrozenCoversLedgered
    LedgerFailureNotReplayed
    LastJobDecides
PROPERTIES
    RowSettledOnce
    RowsSettle
CHECK_DEADLOCK FALSE
