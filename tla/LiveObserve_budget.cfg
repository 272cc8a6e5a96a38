SPECIFICATION Spec
CONSTANTS
    e1 = e1
    e2 = e2
    r1 = r1
    r2 = r2
    zero = zero
    Addr <- MCAddrDeep
    Entry <- MCEntryDeep
    Site <- MCSiteDeep
    Nowhere = zero
    MaxBps = 1
    MaxReturns = 1
    MaxCallEvents = 3
    HasBudget = TRUE
    MaxCalls = 2
    MaxDepth = 2
    MaxFaults = 1
    MaxSignals = 0
    OwnTraps = FALSE
    MayThread = TRUE
INVARIANTS
    OkMeansClean
    OkLeavesNoStop
    OkMeansRewound
CHECK_DEADLOCK FALSE
