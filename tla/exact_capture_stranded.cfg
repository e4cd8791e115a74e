SPECIFICATION CaptureSpec
CONSTANTS
    t1 = t1
    t2 = t2
    r1 = r1
    Threads = {t1, t2}
    Record = {r1}
    Capacity = 2
    StoreBuffering = TRUE
    CallbacksDrained = TRUE
    Activities = TRUE
    NoRecord = NoRecord
INVARIANTS
    StopReturnsTheFinalDelta
SYMMETRY Symmetry
CHECK_DEADLOCK FALSE
