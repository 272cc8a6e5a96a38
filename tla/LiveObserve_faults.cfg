SPECIFICATION Spec
CONSTANTS
    e1 = e1
    e2 = e2
    r1 = r1
    r2 = r2
    zero = zero
    Addr <- MCAddr
    Entry <- MCEntry
    Site <- MCSite
    Nowhere = zero
    MaxBps = 2
    MaxReturns = 2
    MaxCallEvents = 0
    HasBudget = FALSE
    MaxCalls = 2
    MaxDepth = 2
    MaxFaults = 1
    MaxSignals = 1
    OwnTraps = TRUE
    MayThread = FALSE
INVARIANTS
    PatchedIsPlanned
    OkMeansRewound
    OkNeverHarms
    EveryCallReportedOnce
    ReturnsMatchEnters
CHECK_DEADLOCK FALSE
