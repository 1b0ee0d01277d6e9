SPECIFICATION EndlessSpec
CONSTANTS
    w1 = w1
    Workers = {w1}
    StatsSinks = TRUE
    MaxSnapshots = 0
PROPERTIES
    ExitStopsFlushWorker
CHECK_DEADLOCK FALSE
