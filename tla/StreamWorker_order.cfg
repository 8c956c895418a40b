SPECIFICATION Spec
CONSTANTS
    Workers = {w1}
    MaxEntries = 3
    Malformed = {}
    Rejected = {}
    Poison = {1}
    BatchSize = 2
    RetryLimit = 3
    MaxFailures = 0
CHECK_DEADLOCK FALSE
INVARIANT
    HandedInOrder
