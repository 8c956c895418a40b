SPECIFICATION Spec
CONSTANTS
    s1 = s1
    s2 = s2
    p1 = p1
    p2 = p2
    NoKey = NoKey
    NoSession = NoSession
    Scales = {s1, s2}
    Plates = {p1, p2}
    Spelling <- Written
    WindowCapacity = 2
    MinSamples = 2
    MinWindowDuration = 1
    MaxSessions = 2
    Weights = {1, 4}
    MaxTime = 3
    InactivityTimeout = 1
    AbsoluteTolerance = 1
    PercentToleranceBPS = 5000
    MaxSlope = 1
    Second = 1
    LowWeightThreshold = 1
CHECK_DEADLOCK FALSE
PROPERTY
    PlateChangeReleasesFailed
