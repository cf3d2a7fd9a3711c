SPECIFICATION FairSpec

CONSTANTS
    c1 = c1
    c2 = c2
    w1 = w1
    w2 = w2
    n1 = n1
    n2 = n2
    Operator = Operator
    Reconciler = Reconciler
    NoProc = NoProc
    NoName = NoName
    Clients = {c1, c2}
    Workers = {w1}
    Names = {n1, n2}
    MaxJobs = 2
    MaxSpawns = 1
    Disabled = {2}

INVARIANTS
    TypeOK
    KeyClaimedOnce
    FamilyAgrees
    DeadlocksAreThePass
PROPERTIES
    ExpiredCleaned
CHECK_DEADLOCK FALSE
