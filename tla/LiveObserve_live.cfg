SPECIFICATION FairSpec
CONSTANTS
    e1 = e1
    e2 = e2
    r1 = r1
    r2 = r2
    zero = zero
    Addr <- MCAddrSmall
    Entry <- MCEntrySmall
    Site <- MCSiteSmall
    Nowhere = zero
    MaxBps = 1
    MaxReturns = 2
    MaxCallEvents = 0
    HasBudget = TRUE
    MaxCalls = 1
    MaxDepth = 1
    MaxFaults = 1
    MaxSignals = 1
    OwnTraps = TRUE
    MayThread = FALSE
PROPERTIES
    ExitEndsRun
    NeverFrozen
CHECK_DEADLOCK FALSE
