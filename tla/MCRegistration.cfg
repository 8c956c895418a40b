SPECIFICATION Spec
CONSTANTS
    c1 = c1  c2 = c2  b1 = b1  k1 = k1  g1 = g1  g2 = g2  s1 = s1  s2 = s2
    t1 = t1  t2 = t2  t3 = t3  key = key  padded = padded
    Callers = {c1, c2}
    Branches = {b1}
    Trucks = {k1}
    Grains = {g1, g2}
    Scales = {s1, s2}
    Transports = {t1, t2, t3}
    Codes = {1, 2}
    ScaleIds = {0, 1, 2}
    Normal <- MCNormal
    Keys = {key, padded}
    Trimmed <- MCTrimmed
    Values = {0, 1}
    SeedRegistry <- MCSeedRegistry
    SeedScales <- MCSeedScales
    SeedTransports <- MCSeedTransports
    Workloads <- MCWorkloads
    NoRow = NoRow
    NoKey = NoKey
    None = None
    MaxEdits = 2
CHECK_DEADLOCK FALSE
SYMMETRY SymmetricCallers
INVARIANT
    TypeOK
PROPERTIES
    SnapshotIsOfTheCall
    ClosedOnce
    PublishedIsAuthorized
    KeyIsGivenOrKept
    RefusedForAReason
