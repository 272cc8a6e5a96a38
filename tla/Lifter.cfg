CONSTANTS
    Var <- MCVar
    This = "this"
    Params <- MCParams
    Wide <- MCWide
    Member <- MCMember
    Own = "Own"
    Label = {"L"}
    Constructor = "<init>()V"
    Returns = TRUE
    FirstSlot = 5
    Bodies <- MCBodies
    NoVar = "none"
    NoMember <- MCNoMember
    NoLabel = "none"
SPECIFICATION Spec
INVARIANTS
    LoadsAreTrue
    MembersAreTrue
    JumpsLand
CHECK_DEADLOCK FALSE
