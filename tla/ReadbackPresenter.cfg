\* The ring of the program, reads slower than the ring is deep (it fills up)
\* and than a drain is long (it may give up, and buffers outlive the surface).
\* Frame ids do not wrap within the bound.
CONSTANTS
    IdMod = 32
    ReadbackCount = 3
    ReadLatency = 5
    MaxDrainFrames = 2
    Sizes = {small, large}
    NoSurface = NoSurface
    MaxFrame = 11
SPECIFICATION Spec
INVARIANTS
    TexturesOwned
    ReadsUndisturbed
    CleanTarget
PROPERTIES
    ImplementsFrameRing
    PicturesInOrder
\* The frame bound stops the model, and a released presenter is at its end.
CHECK_DEADLOCK FALSE
