SPECIFICATION Spec
CONSTANTS
    C = C
    D = D
    f = f
    g = g
    k = k
    m1 = m1
    m2 = m2
    ClassName = {C, D}
    Field = {f, g, k}
    FieldName <- MCFieldName
    Value = {1, 256}
    MaxLen = 2
    MaxTable = 1
    Fn = {m1, m2}
    RegionSize = 320
    StackSpace = 5000
    RunFrame = 2048
    Uses <- MCUses
    MaxCalls <- MCMaxCalls
SYMMETRY MCSymmetry
INVARIANTS
    BlocksDisjoint
    
    CapturedInOrder
    RouteTold
    AnswerIsNewest
CHECK_DEADLOCK FALSE
