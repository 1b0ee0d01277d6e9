SPECIFICATION FairPartsSpec
CONSTANTS
    Cancellers = {c1, c2}
    MaxPolls = 2
    MayCrash = TRUE
    None = None
INVARIANTS
    ChildKept
PROPERTIES
    TerminationEnds
    CancellationHeeded
    FinishEnds
    WaitEnds
CHECK_DEADLOCK FALSE
