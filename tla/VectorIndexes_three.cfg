SPECIFICATION Spec
CONSTANTS
    Points <- Line
    R = 2
    L = 1
    AlphaTenths = 12
    RefinePasses = 1
    SeedCount = 1
    RecenterEvery = 3
    MaxGen = 2
    MaxNodes = 4
    MaxBatch = 2
    m = 2
    m0 = 4
    Vectors <- Arrows
    NodeDist <- ByBothNorms
    QueryDist <- ByNodeNorm
    EfSearch = 1
    LevelsDrawn <- Levels
    MaxVectors = 6
    Rows <- Space
    Dim = 3
    SubVecs = 2
    Words = 2
    MinLists = 2
    Iterations = 2
    NProbe = 1
    ShortFactor = 1
    ShortMin = 2
    DrawBound = 8
    Drawn <- Draws
    MaxRows = 4
    MaxAdded = 3
INVARIANTS
    LinksSound
    SearchReaches
    SearchNoWorse
    Walkable
    SearchSound
    AdcExact
    SearchExact
CHECK_DEADLOCK FALSE
