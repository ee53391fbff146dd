SPECIFICATION MCSpec
CONSTANTS
    Service = {s1, s2}
    MaxNumMsg = 2
    U32 = 4
    MaxMsgs = 4
    Producers = {p1}
    NumOfObject = 2
    RetryCount = 1
    MsgSize = 2
    NoMsg = NoMsg
    MaxXferMsgs = 1
    MaxFaults = 1
    MaxPartials = 1
    MaxPauses = 1
    SocketMayFail = TRUE
SYMMETRY Symmetry
INVARIANT NotFreedInUse
CHECK_DEADLOCK FALSE
