SPECIFICATION Spec
CONSTANTS
    Class <- MCClass
    Method <- MCMethod
    Addr <- MCAddr
    NoClass = "no class"
    NoMethod <- MCNoMethod
    NoAddr = 0
    Window = 6
    DispatchWindow = 12
    Reach = 1
    TableBase = 100
    Callback = 50
    Strategy = {"auto", "per_class", "shared_dispatch"}
    Worlds <- MCWorlds
    Rebase = 20
INVARIANTS
    PlainIsExact
    DispatchIsExact
    BoundIsTrue
    Accounted
PROPERTIES
    EmulationKeepsExact
CHECK_DEADLOCK FALSE
