SPECIFICATION FairSpec
CONSTANTS
    c1 = c1
    c2 = c2
    Nobody = Nobody
    Preloaded = Preloaded
    NoSocket = NoSocket
    Clients = {c1, c2}
    Capacity = 1
    Nvtx = FALSE
    NeedsActivities = TRUE
    NeedsCallbacks = TRUE
    Errors = {"calls", "callbacks"}
    Timeouts = TRUE
    HostFailures = TRUE
INVARIANTS
    SuccessIsOwnCapture
PROPERTIES
    CommandsReturn
