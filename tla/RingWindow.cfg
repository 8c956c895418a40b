SPECIFICATION Spec
CONSTANTS
    WindowCapacity = 4
    MinSamples = 3
    MinWindowDuration = 3
    AbsoluteTolerance = 6
    PercentToleranceBPS = 40000
    MaxSlope = 1
    Second = 2
    Weights = {1, 2, 5, 7}
    Gaps = {1, 3}
    MaxReadings = 9
    NoReading = NoReading
INVARIANTS
    RingHoldsWindow
    RanksAreRight
    SlopeIsMedianOfPairs
    RampIsNeverStable
CHECK_DEADLOCK FALSE
