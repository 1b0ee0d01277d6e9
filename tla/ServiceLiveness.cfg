\* No run has to end by itself: a cancellation stops it.
SPECIFICATION EndlessRunsSpec
CONSTANTS
    s1 = s1
    s2 = s2
    Streams = {s1, s2}
    MaxConcurrentExecutions = 1
    RunMayThrow = FALSE
PROPERTY
    CancellationHonoured
    SlotGivenBack
    StreamFinishes
