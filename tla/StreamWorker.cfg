SPECIFICATION FairSpec
CONSTANTS
    Workers = {w1, w2}
    MaxEntries = 2
    Malformed = {}
    Rejected = {1}
    Poison = {1}
    BatchSize = 2
    RetryLimit = 2
    MaxFailures = 2
CHECK_DEADLOCK FALSE
INVARIANTS
    TypeOK
    NothingIsLost
    GivenUpForFailures
PROPERTY
    EveryEntryIsSettled
