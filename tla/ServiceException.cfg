\* Process::run() may throw: the slot of that execution is not given back.
SPECIFICATION EndlessRunsSpec
CONSTANTS
    s1 = s1
    Streams = {s1}
    MaxConcurrentExecutions = 1
    RunMayThrow = TRUE
CHECK_DEADLOCK FALSE
PROPERTY
    SlotGivenBack
