SPECIFICATION FairSpec
CONSTANTS
    MaxNumMsg = 2
    U32 = 8
    Producers = {p1}
    NumOfObject = 1
    RetryCount = 2
    MsgSize = 2
    NoMsg = NoMsg
    MaxMsgs = 2
    MaxFaults = 2
    MaxPartials = 1
    MaxPauses = 1
    SocketMayFail = FALSE
INVARIANT PoolSound
PROPERTY WakeupDrains
PROPERTY ConnectionRecovers
CHECK_DEADLOCK FALSE
