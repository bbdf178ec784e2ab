SPECIFICATION Spec
CONSTANTS
    MaxDepth = 2
    GroupSize = 2
    Levels = {0, 1, 3}
    Maps = {m1, m2}
    None = None
    Handles = 5
    RetireDmap = 2
    RetireTexture = 1
    DeferFrames = 3
    Resources = {"Dmap", "Heightfield"}
    MaxPasses = 3
    Base = 4
    Files <- McFiles
    Images <- McImages
    HeightLists <- McHeightLists
    Height <- McHeight
    NoHeight = NoHeight
    Bins = 6
    GapBins = 2
    OutlierShare = 3
    MinCount = 4
    MaxIters = 2
    Side = 2
    Pictures <- McPictures
    DisplayMax = 1
    Renderers = {r1, r2}
    MaxFailures = 2
    Bodies <- McBodies
    Types = {"", "jpg", "r16"}
    UrlExts = {"", "png"}
    Nothing = Nothing
    MaxRequests = 3
    MaxRestarts = 1
SYMMETRY Symmetry
CONSTRAINT StillOwned
INVARIANTS
    TerrainDrawn
    SlopesMatch
    TexturesGivenBack
    ValidateAgrees
    HeightsKept
    DecodedAsOnCpu
    ResourcesKept
    OneAnswer
PROPERTIES
    FilesKept
CHECK_DEADLOCK FALSE
