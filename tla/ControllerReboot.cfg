\* A browser aborts before and after a restart of the C6.
SPECIFICATION Spec
CONSTANTS
    UsbIds = {}
    NetworkIds = {11}
    UsbIdOrder <- UsbOrder
    NetworkIdOrder <- NetworkOrder
    Bodies <- Revisions
    NormalCapacity = 1
    UrgentCapacity = 1
    UpstreamCapacity = 1
    CacheCapacity = 4
    MaxHandled = 8
    Workers = {w1}
    HttpOps = {"Abort"}
    UsbOps = {}
    WireCapacity = 1
    MaxProgress = 0
    MaxReboots = 1
    MaxLosses = 0
PROPERTIES AbortIsCarriedOut
CHECK_DEADLOCK FALSE
