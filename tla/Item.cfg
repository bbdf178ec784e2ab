SPECIFICATION Spec
CONSTANTS
    b1 = b1
    b2 = b2
    Bins = {b1, b2}
    Stock = Stock
    None = None
    Revert = Revert
    MaxRequests = 4
    SupportedSlots = {"fragment", "compute"}
    Sources = {"text"}
    Renderers = {"dx11", "glsl"}
    NoBinary = NoBinary
    Torn = Torn
    Unrequested = Unrequested
    StockRequested = StockRequested
    NoHash = NoHash
    MaxCompiles = 6
    Parts = 2
    ScoreUnit = 720720
    Positions = {0, 1, 3, 4}
    Slack = 3
    Near = 2
    Far = 4
    Wheels <- McWheels
    RectLists <- McRectLists
    MapSizes <- McMapSizes
    NoView = NoView
    NoMap = NoMap
    NoFile = NoFile
    NoGesture = NoGesture
    MaxEvents = 7
    SceneEvents = 5
    Sights <- McSights
    NotFinite = NotFinite
    Unpicked = Unpicked
    a1 = a1
    a2 = a2
    a3 = a3
    Addresses = {a1, a2, a3}
    Names = {"", "n"}
    Shapes <- McShapes
    Points = {1}
    Free = Free
    Plain = Plain
    MaxCreated = 4
    Explored = {"shader", "compile", "mouse", "scene", "pick", "probe"}
INVARIANTS SlotsObey BinariesMatch RefsMatch GesturesKept PickedIsNearest HandlesNamed
PROPERTIES FocusKept
CHECK_DEADLOCK FALSE
