\* Every HTTP request ends, even if the Duo never answers.
SPECIFICATION FairSpec
CONSTANTS
    UsbIds = {}
    NetworkIds = {11, 12}
    UsbIdOrder <- UsbOrder
    NetworkIdOrder <- NetworkOrder
    Bodies <- Revisions
    NormalCapacity = 1
    UrgentCapacity = 1
    UpstreamCapacity = 1
    CacheCapacity = 4
    MaxHandled = 8
    Workers = {w1, w2}
    HttpOps = {"Abort"}
    UsbOps = {}
    WireCapacity = 2
    MaxProgress = 0
    MaxReboots = 0
    MaxLosses = 0
PROPERTIES EveryRpcEnds
CHECK_DEADLOCK FALSE
