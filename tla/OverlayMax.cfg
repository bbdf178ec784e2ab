SPECIFICATION OverlaySpec
CONSTANTS
    a = a
    b = b
    m1 = m1
    m2 = m2
    Rects = {a, b}
    Lists <- MCLists
    Maps = {m1, m2}
    NoMap = NoMap
    None = None
    Fits <- MCFits
    ReadLatency = 2
    MaxChanges = 4
    MaxClicks = 2
INVARIANTS ReadsServeTheirList
PROPERTIES ClicksServed
CHECK_DEADLOCK FALSE
