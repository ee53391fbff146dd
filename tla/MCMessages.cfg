SPECIFICATION MCSpec
CONSTANTS
    Service = {s1, s2, s3}
    MaxNumMsg = 2
    U32 = 4
    MaxMsgs = 7
    Producers = {p1, p2}
    NumOfObject = 2
    RetryCount = 1
    MsgSize = 2
    NoMsg = NoMsg
    MaxXferMsgs = 2
    MaxFaults = 2
    MaxPartials = 1
    MaxPauses = 1
    SocketMayFail = TRUE
SYMMETRY Symmetry
CHECK_DEADLOCK FALSE
INVARIANTS CountersAddUp FifoOrder RefsExact MessagesSound
PROPERTY DropOnlyWhenFull
