\* Two browsers, three requests, one spoilt packet; a full channel towards the browser.
SPECIFICATION Spec
CONSTANTS
    UsbIds = {}
    NetworkIds = {11, 12, 13}
    UsbIdOrder <- UsbOrder
    NetworkIdOrder <- NetworkOrder
    Bodies <- Revisions
    NormalCapacity = 1
    UrgentCapacity = 1
    UpstreamCapacity = 2
    CacheCapacity = 4
    MaxHandled = 8
    Workers = {w1, w2}
    HttpOps = {"GetStatus", "Abort"}
    UsbOps = {}
    WireCapacity = 2
    MaxProgress = 0
    MaxReboots = 0
    MaxLosses = 1
SYMMETRY WorkerSymmetry
INVARIANTS NothingLeaks AnswersGoHome
PROPERTIES StatusIsFresh AbortIsCarriedOut
CHECK_DEADLOCK FALSE
