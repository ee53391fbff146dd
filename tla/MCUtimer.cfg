SPECIFICATION FairSpec
CONSTANTS
    Threads = {t1, t2}
    Data = {d1}
    Delays = {0, 1}
    MaxWait = 1
    ReadMax = 1
    MaxTime = 2
    MaxItems = 2
    MaxFaults = 1
CHECK_DEADLOCK FALSE
INVARIANT TimersSound
PROPERTIES EventuallyFires StopEnds
