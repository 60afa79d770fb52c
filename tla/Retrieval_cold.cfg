SPECIFICATION Spec
CONSTANTS
    alpha = alpha
    beta = beta
    blank = blank
    kx = kx
    ky = ky
    Sketches = {alpha, beta, blank}
    Distance <- Apartness
    m = 1
    m0 = 2
    EfSearch = 1
    Words = {kx, ky}
    TextWords <- WordsOf
    Blank = {blank}
    KeywordsPerDoc = 2
    Chars <- Length
    Alike <- Likeness
    Salience <- Newer
    Limits <- TwoLimits
    CharsPerToken = 4
    Weights <- EachOne
    CandPoolCap = 2
    NeighborsPerKw = 1
    MaxExpanded = 1
    GraphThreshold = 2
    GraphPool = 1
    HotTailCap = 1
    ColdFill = 1
    MinCluster = 2
    LevelsDrawn <- Levels
    Absent = Absent
    NoIndex = NoIndex
    ImportRows <- OneRow
    Ops <- AllOps
    Texts = {alpha, beta}
    Queries = {alpha, blank}
    MaxId = 4
    MaxAtOpen = 2
INVARIANTS
    ColdFiltered
