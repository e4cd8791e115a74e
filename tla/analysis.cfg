SPECIFICATION Spec
CONSTANTS
    NameCapacity = 4
    CounterLimit = 4
    Process <- MCProcess
    TargetOf <- MCTargetOf
    Syscalls <- MCSyscalls
    Alphabet <- MCAlphabet
    Names <- MCNames
    KernelNames <- MCKernelNames
    MaxPattern = 5
    Texts <- MCTexts
    Segments <- MCSegments
    Placements <- MCPlacements
    MaxTrace = 4
    MaxTime = 3
    Threads <- MCThreads
    MaxValues = 101
    Inputs <- MCInputs
    Chains <- MCChains
    Processes <- MCProcesses
    MaxSamples = 3
    PerfMapLines <- MCPerfMapLines
INVARIANTS
    FilterAgreesWithSelector
    HintFindsItsGroup
    ValidatedMeansMeasurable
    ResolvedIsWhereTheSymbolIs
    ReportedPairsAreCalls
    HeuristicPairsAreBest
    NothingIsUncounted
    BoundsKeepThePrefix
    PercentilesAreMeasured
    InputsAreWhole
    InventoryCountsTheSamples
    PythonNamesAreCurrent
CHECK_DEADLOCK FALSE
