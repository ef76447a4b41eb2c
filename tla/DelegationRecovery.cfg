SPECIFICATION DFairSpec
CONSTANTS
    Workers = {w1}
    Engines = {e1}
    Operator = Operator
    Null = Null
    MaxAttempts = 2
    MaxReviews = 2
    MaxPolls = 1
    MaxCrashes = 1
    MaxRivals = 1
INVARIANTS
    RequestsBounded
    SuccessIsOwnResult
PROPERTIES
    
    TaskEnds
CHECK_DEADLOCK FALSE
