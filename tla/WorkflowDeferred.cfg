SPECIFICATION Spec

CONSTANTS
    NodeCount = 2
    MaxActive = 1
    MaxChanges = 1

PROPERTIES
    DeferredRootWaits
CHECK_DEADLOCK FALSE
