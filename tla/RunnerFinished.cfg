SPECIFICATION Spec
CONSTANTS
    b1 = b1
    b2 = b2
    Backends = {b1, b2}
    Plan <- MCStaircase
INVARIANTS
    EveryExecutionFinished
CHECK_DEADLOCK FALSE
