CONSTANTS
    Conns = {c1, c2}
    PoolSizes = {1, 2}
    BufSize = 2
    Kinds <- MCKinds
    RespSize = 2
    MaxBytes = 2
    NoConn = NoConn
SPECIFICATION FairSpec
CHECK_DEADLOCK FALSE
INVARIANTS ServerSound RefusedIsHarmless
PROPERTY ServedAndReleased
