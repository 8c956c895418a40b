SPECIFICATION Spec
CONSTANTS
    old = old  new = new  q1 = q1  q2 = q2
    Runners = {old, new}
    LastFile = 2
    Carries <- MCCarries
    MaxRunFaults = 1
    Migrate = new
    Requests = {q1, q2}
    Mixes <- MCMixes
    Connections = 1
    MaxApiFaults = 2
CHECK_DEADLOCK FALSE
INVARIANTS
    TypeOK
    AppliedExactlyOnce
    ServesOnWholeSchema
    AnswerTellsEffect
    CountersTellReadings
PROPERTIES
    NothingHangs
