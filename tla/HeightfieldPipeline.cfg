SPECIFICATION FairPictureSpec
CONSTANTS
    Paths = {"wide.raw", "tall.raw"}
    NoPath = NoPath
    MaxCache = 1
    GpuDecode = TRUE
    MaxLoads = 2
    Pictures = {"wide.jpg"}
    NoPicture = NoPicture
    Grey = Grey
    Size <- McSize
INVARIANTS
    RequestsKept
    CacheBounded
    DecodedMapsFit
PROPERTIES
    MapsInOrder
    WorkerServes
CHECK_DEADLOCK FALSE
