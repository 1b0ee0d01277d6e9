SPECIFICATION FairSpec
PROPERTIES
    ExecuteReturns
CHECK_DEADLOCK FALSE
