SPECIFICATION Spec
CONSTANTS
    NumOfService = 1
    FailureRetryCount = 2
    MaxExits = 2
    MaxRequests = 1
    MaxFaults = 0
CHECK_DEADLOCK FALSE
PROPERTIES
    StopSticks
