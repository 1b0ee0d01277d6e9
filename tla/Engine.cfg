SPECIFICATION PartsSpec
CONSTANTS
    Workers = {w1, w2, w3}
    StatsSinks = TRUE
    MaxSnapshots = 2
    Arrivals = {s1, s2, s3}
SYMMETRY Symmetry
INVARIANTS
    WorkersInStep
    AnswersAreThisSnapshots
    SignalsInStep
PROPERTIES
    LastFlushHasAllMetrics
CHECK_DEADLOCK FALSE
