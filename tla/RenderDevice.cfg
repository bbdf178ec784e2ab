SPECIFICATION MCSpec
CONSTANTS
    Viewports = {v1, v2}
    v1 = v1
    v2 = v2
    NumIds = 5
    MaxFailures = 2
    Sizes <- McSizes
    Frames = {f1, f2, f3}
    f1 = f1
    f2 = f2
    f3 = f3
    NoFrame = NoFrame
    Readbacks = 3
    IdMod = 16
    MaxDelay = 6
    MaxPending = 2
INVARIANTS
    SurfacesKept
PROPERTIES
    RefusedForCause
    FreedOnTime
SYMMETRY Handles
