SPECIFICATION Spec
CONSTANTS
    Caller = {c1, c2}
    StoredId = {d1, d2}
    Payload <- MCPayload
    LocalOffset = 1
    MaxPools = 2
    MaxLosses = 1
    BootRun = {r1, r2}
    EventCount = 2
    MaxBusFaults = 1
    MaxRetries = 3
    Models = 2
    SegmentLists <- MCSegmentLists
    LimitInputs <- MCLimitInputs
    Blank = {0, 3}
    MarketEvent <- MCMarketEvent
    InnerAction <- MCInnerAction
    Reviewer = {w1, w2}
    ReviewedId = {e1, e2}
    PageLimit = 2
    ExportLimit = 1
    MaxRows = 3
    MaxClock = 2
    LocalFile = {f1, f2}
    FileSize <- MCFileSize
    MaxWrites = 2
    MaxDay = 2
    MaxCuts = 1
    Steps = 2
    KeepLast = 1
    MaxLaunches = 3
    MaxDecisions = 3
    QueueLimit = 2
    ExportSize = 2
    BenchCase <- MCBenchCase
SYMMETRY Symmetry
INVARIANTS
    ComponentsTypeOK
    OnlyDemosLeavePools
    TablesTogether
    BackendsAgree
    NobodyStarves
    OnceAndInOrder
    ReasonAccountsForItself
    OvershootBounded
    LossBounded
    FlagMeansLowConfidence
    ReadersLoseOneEnd
    MirroredUnlessSameSize
    ManifestNeverAhead
    EvaluationsApart
CHECK_DEADLOCK FALSE
