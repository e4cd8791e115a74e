SPECIFICATION Spec
CONSTANTS
    c1 = c1
    c2 = c2
    Nobody = Nobody
    Preloaded = Preloaded
    NoSocket = NoSocket
    Clients = {c1, c2}
    Capacity = 1
    Nvtx = TRUE
    NeedsActivities = TRUE
    NeedsCallbacks = TRUE
    Errors = {}
    Timeouts = FALSE
    HostFailures = TRUE
INVARIANTS
    ExitLeavesAgentQuiet
