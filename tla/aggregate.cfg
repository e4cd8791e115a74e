SPECIFICATION Spec
CONSTANTS
    t1 = t1
    t2 = t2
    k1 = k1
    k2 = k2
    Threads = {t1, t2}
    Key = {k1, k2}
    Hash <- MCHash
    Duration = {1, 4}
    Capacity = 2
    MaxValue = 7
    MaxActivities = 3
    CallbacksDrained = FALSE
    Activities = TRUE
    NoKey = NoKey
INVARIANTS
    InventoryIsExact
    MalformedOnlyOnError
SYMMETRY Symmetry
CHECK_DEADLOCK FALSE
