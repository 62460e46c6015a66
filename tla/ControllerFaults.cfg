\* rubik-robotctl while the C6 restarts, a frame is spoilt and an operation reports progress.
SPECIFICATION Spec
CONSTANTS
    UsbIds = {1, 2}
    NetworkIds = {}
    UsbIdOrder <- UsbOrder
    NetworkIdOrder <- NetworkOrder
    Bodies <- Revisions
    NormalCapacity = 1
    UrgentCapacity = 1
    UpstreamCapacity = 1
    CacheCapacity = 1
    MaxHandled = 8
    Workers = {w1}
    HttpOps = {}
    UsbOps = {"Move"}
    WireCapacity = 1
    MaxProgress = 1
    MaxReboots = 1
    MaxLosses = 1
INVARIANTS ControlWaitsForItsOwn ExecutedOnce
CHECK_DEADLOCK FALSE
