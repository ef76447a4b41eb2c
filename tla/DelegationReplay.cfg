SPECIFICATION DSpec
CONSTANTS
    Workers = {w1}
    Engines = {}
    Operator = Operator
    Null = Null
    MaxAttempts = 2
    MaxReviews = 2
    MaxPolls = 1
    MaxCrashes = 0
    MaxRivals = 0
PROPERTIES
    UnsafeWorkBlocks
CHECK_DEADLOCK FALSE
