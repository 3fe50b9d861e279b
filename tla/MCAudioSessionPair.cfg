SPECIFICATION FairSpec
CONSTANTS
    Music = {m1}
    r1 = r1
    r2 = r2
    s1 = s1
    s2 = s2
    Requests = {r1, r2}
    Parts <- MCPairParts
    Nil = Nil
    MaxSpeech = 2
    MaxTries = 2
    MaxFailures = 2
    MaxOps = 1
    MaxTroubles = 1
INVARIANTS
    Accounted
    ClearEmpties
    InOrder
PROPERTY
    Served
CHECK_DEADLOCK FALSE
