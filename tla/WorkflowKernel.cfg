SPECIFICATION FairSpec

CONSTANTS
    NodeCount = 4
    MaxActive = 2
    MaxChanges = 1

INVARIANTS
    TypeOK
    ChildAfterDependencies
    OutcomeJustified
    ActiveWithinLimit
    AcceptsTheWellFormed
    PlansImplementExpressions
    PlansAreCompiled
PROPERTIES
    EndsAfterRequired
    RootFinal
    KeepsPromise
    OnlyDisabledStrands
CHECK_DEADLOCK FALSE
