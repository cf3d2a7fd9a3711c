SPECIFICATION FairSpec

CONSTANTS
    NodeCount = 2
    MaxActive = 1
    MaxChanges = 1

PROPERTIES
    RecoveryEndsRoot
CHECK_DEADLOCK FALSE
