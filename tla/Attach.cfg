SPECIFICATION Spec
CONSTANTS
    Process <- MCProcess
    Input <- MCInput
    MaxPids = 2
    SilentZero = FALSE
INVARIANTS
    AttachedMeansLoaded
    RefusedMeansNotRunning
    CrossUserNeedsReuse
    ForbiddenIsNotAsked
    ReasonNamesCause
CHECK_DEADLOCK FALSE
