SPECIFICATION PartsSpec
CONSTANTS
    Frames <- MCFrames
    MaxFrames = 2
    Keys <- MCKeys
    Chunks = {2, 50}
INVARIANTS
    CountersAddUp
    NoIdleWait
    
    FramesSurvive
PROPERTIES
    NothingDropped
CHECK_DEADLOCK FALSE
