SPECIFICATION Spec
CONSTANTS
    NameCapacity = 4
    CounterLimit = 1000
    Process <- MCProcess
    TargetOf <- MCTargetOf
    Syscalls <- MCSyscalls
    Requests <- MCRequests
    MaxCalls = 3
    MaxDepth = 2
    RingSlots = 2
    MaxProcesses = 2
    SysThreads = {1, 2}
    Syscalled <- MCSyscalled
    MaxGroups = 1
    MaxInflight = 1
    ClockRange = 16
    CpuThreads = 2
    MaxTaken = 4
    PerfSlots = 2
    MaxThreads = 2
    MaxCpuSamples = 3
    ActivityBuffers = {1, 2}
    QuietPeriod = 2
    FlushDeadline = 3
INVARIANT EveryPathRestores
CHECK_DEADLOCK FALSE
