SPECIFICATION Spec
CONSTANTS
    t1 = t1
    t2 = t2
    push1 = push1
    push2 = push2
    range1 = range1
    Process = Process
    Threads <- MCThreads
    Key <- MCKey
    Owner <- MCOwner
    Hash <- MCHash
    Capacity = 2
    MaxGeneration = 2
    MaxUnknown = 0
INVARIANTS
    AcceptedEndsArePaired
