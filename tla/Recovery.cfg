SPECIFICATION RecoverySpec
CONSTANTS
    t1 = t1
    t2 = t2
    Thread <- MCThread
    MaxFrameEvents = 2
    Sig <- MCSig
    CollapseFrom = 2
    MaxPattern = 3
    AttachThread <- MCAttachThread
    MaxFrames = 2
    MaxNesting = 5
    MaxCalls = 2
    MaxNoise = 1
INVARIANTS
    CountersMatchStack
    DropsAreMarked
    BudgetHolds
    EachEndsOnce
PROPERTIES
    CallsAreOwn
CHECK_DEADLOCK FALSE
