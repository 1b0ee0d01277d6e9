SPECIFICATION Spec
CONSTANTS
    s1 = s1
    s2 = s2
    Streams = {s1, s2}
    MaxConcurrentExecutions = 1
    RunMayThrow = TRUE
SYMMETRY Symmetry
CHECK_DEADLOCK FALSE
INVARIANTS
    TypeOK
    SlotsAccountedFor
    FinalResponseIsLast
    LifetimesKept
    CancelledOnlyIfAsked
PROPERTY
    RefusedOnlyByUnanswered
    ImplementsPool
