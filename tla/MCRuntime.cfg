SPECIFICATION MCSpec

CONSTANTS
    Threads = {t1, t2}
    None = None
    PoolPages = 4
    MaxZones = 1
    PageSize = 64
    SlabSize = 4
    BufctlSize = 1
    AlignSize = 2
    MaxJpOrder = 3
    CacheCache = "cc"
    General <- Generals
    UserCaches = {"user"}
    ObjSize <- Sizes
    NoReap = {}
    Wait = {}
    MemorySizes = {6, 128}
    PageOrders = {0, 3}
    MaxCalls = 4

SYMMETRY Symmetry

INVARIANTS
    JiukunSound
    ContainersExact
    PtreeExact
    SyncSound
    TasksExact
    WebClientSound
    MessagingSound
    LoggingSound

PROPERTY HsmSound

\* A behaviour ends when its bounds are used up.
CHECK_DEADLOCK FALSE
