SPECIFICATION PartsSpec
CONSTANTS
    BufferLength = 4
    MaxAsks = 4
    None = None
INVARIANTS
    SourceInStep
    
    WaitsExact
    WakesInTime
    
    
PROPERTIES
    NothingOutOfTurn
CHECK_DEADLOCK FALSE
