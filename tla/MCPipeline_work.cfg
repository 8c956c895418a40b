SPECIFICATION Spec
CONSTANTS
    w1 = w1  w2 = w2  t1 = t1  t2 = t2  t3 = t3  p1 = p1  p2 = p2  b1 = b1  g1 = g1  s1 = s1
    Workers = {w1, w2}
    Scales = {s1}
    Plates = {p1, p2}
    Events = {1, 2, 3, 4}
    Transports = {t1, t2}
    Branches = {b1}
    Grains = {g1}
    BranchOf <- MCBranchOf
    GrainOf <- MCGrainOf
    PlateOf <- MCPlateOf
    TareOf <- MCTareOf
    ScaleBranch <- MCScaleBranch
    Feeds <- AllFeeds
    RetryLimit = 2
    MaxFailures <- OneFailure
    NoEvent = 0
    NoKey = NoKey
    NoSession = NoSession
    Weights = {1, 5, 6}
    MaxTime = 7
    LowWeightThreshold = 1
    InactivityTimeout = 7
    WindowCapacity = 2
    MinSamples = 2
    MinWindowDuration = 1
    AbsoluteTolerance = 1
    PercentToleranceBPS = 5000
    MaxSlope = 1
    Second = 1
CHECK_DEADLOCK FALSE
SYMMETRY SymmetricWorkers
INVARIANTS
    TypeOK
    AcknowledgedIsDurable
    EmittedWeightSurvives
    WeighingIsOfOneTruck
PROPERTY
    AddedAgainOnlyIfDurable
