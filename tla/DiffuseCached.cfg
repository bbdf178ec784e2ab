SPECIFICATION PictureSpec
CONSTANTS
    Paths = {"wide.raw", "tall.raw"}
    NoPath = NoPath
    MaxCache = 1
    GpuDecode = FALSE
    MaxLoads = 3
    Pictures = {"wide.jpg"}
    NoPicture = NoPicture
    Grey = Grey
    Size <- McSize
INVARIANTS
    SwappedOnMismatch
CHECK_DEADLOCK FALSE
