SPECIFICATION FairSpec
CONSTANTS
    a = a
    b = b
    Services <- MCServices
    Published <- MCPublished
    Subscribed <- MCSubscribed
    Kinds <- MCKinds
    NoMsg = NoMsg
    MaxNumMsg = 1
    U32 = 8
    MaxEvents = 3
CHECK_DEADLOCK FALSE
INVARIANTS WakeupsCoverQueue RoutingSound
PROPERTIES EventuallyDispatched ThreadStops
