SPECIFICATION PartsSpec
CONSTANTS
    b1 = b1
    b2 = b2
    Backends = {b1, b2}
    Plan <- MCPlan
    Addresses = {"a", "b", "c"}
    Spellings = {1, 2}
    Pools <- MCPools
    MaxAnswers = 3
    MaxWrites = 4
    MaxRuns = 3
    Width = 16
    Rates <- MCRates
    Workers <- MCWorkers
    PoolSizes <- MCPoolSizes
    MaxInt64 = 15
    Durations = {0, 7, 15}
SYMMETRY Symmetry
INVARIANTS
    StagesInStep
    PassIsReal
    NothingLostOrLeft
    EveryTargetAccounted
    RecordsAreLines
    PlanArithmetic
PROPERTIES
    ImplementsCall
CHECK_DEADLOCK FALSE
