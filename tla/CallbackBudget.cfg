SPECIFICATION Spec

CONSTANTS
    c1 = c1
    c2 = c2
    r1 = r1
    r2 = r2
    NoRow = NoRow
    NoHolder = NoHolder
    Rows = {r1}
    Callbackers = {c1, c2}
    SettingsMax = 2
    MaxFaults = 1

INVARIANTS
    DeliveriesWithinBudget
CHECK_DEADLOCK FALSE
