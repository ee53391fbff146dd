SPECIFICATION Spec
CONSTANTS
    MaxNumMsg = 2
    U32 = 8
    Producers = {p1}
    NumOfObject = 1
    RetryCount = 2
    MsgSize = 2
    NoMsg = NoMsg
    MaxMsgs = 3
    MaxFaults = 0
    MaxPartials = 1
    MaxPauses = 0
    SocketMayFail = FALSE
INVARIANT NeverSleptOn
CHECK_DEADLOCK FALSE
