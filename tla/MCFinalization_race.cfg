SPECIFICATION FairSpec
CONSTANTS
    c1 = c1  c2 = c2  t1 = t1  t2 = t2  t3 = t3  k1 = k1  k2 = k2  p1 = p1  p2 = p2  p3 = p3
    b1 = b1  b2 = b2  g1 = g1  s1 = s1  s2 = s2  s3 = s3  x1 = x1  x2 = x2  e1 = e1  e2 = e2
    Callers = {c1, c2}
    Transports = {t1, t2}
    Trucks = {k1}
    Plates = {p1}
    Branches = {b1, b2}
    Grains = {g1}
    Scales = {s1, s2, s3}
    Sessions = {x1, x2}
    Events = {e1, e2}
    Tares = {2, 3, 9}
    Targets = {8}
    Inputs <- RaceInputs
    TruckOf <- MCTruckOf
    BranchOf <- MCBranchOf
    GrainOf <- MCGrainOf
    PriceOf <- MCPriceOf
    WeighedAt <- MCWeighedAt
    DayLength = 2
    Any = Any
    ScaleBranch <- MCScaleBranch
    GramsPerTon = 4
    MaxBigint = 12
    NoEvent = NoEvent
    NoTransport = NoTransport
    NoPlate = NoPlate
    NoInput = NoInput
    NoRow = NoRow
INVARIANTS
    TypeOK
    WeighedOnce
    AnswerIsRecorded
PROPERTIES
    EveryCallReturns
