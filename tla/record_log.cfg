SPECIFICATION FairSpec
CONSTANTS
    t1 = t1
    t2 = t2
    r1 = r1
    Threads = {t1, t2}
    Record = {r1}
    Capacity = 3
    StoreBuffering = TRUE
    CallbacksDrained = FALSE
    Activities = TRUE
    NoRecord = NoRecord
INVARIANTS
    TypeOK
    PublishedWritten
    QuietMeansCommitted
PROPERTIES
    ImplementsPrefixLog
    ClaimsArePublished
CHECK_DEADLOCK FALSE
