SPECIFICATION Spec
CONSTANTS
    t1 = t1
    t2 = t2
    e1 = e1
    e2 = e2
    Null = Null
    Engines = {e1, e2}
    Tasks <- OneTask
    Deps <- OneTaskDeps
    Rank <- MCRank
    MaxAttemptsOf <- TwoTries
    MaxActions = 2
    Guarded = {t1}
    Daemons = TRUE
    MaxCrashes = 0
INVARIANTS
    AttemptsNumbered
    GuardedCallsApproved
    ClaimedTaskRuns
CHECK_DEADLOCK FALSE
