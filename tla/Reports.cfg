SPECIFICATION PartsSpec
CONSTANT None = None
INVARIANTS
    MergedIsWhole
    
CHECK_DEADLOCK FALSE
