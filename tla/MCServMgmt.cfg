SPECIFICATION FairSpec
CONSTANTS
    NumOfService = 2
    FailureRetryCount = 2
    MaxExits = 3
    MaxRequests = 2
    MaxFaults = 1
CHECK_DEADLOCK FALSE
INVARIANT ServicesSound
PROPERTY Restarted
