SPECIFICATION FairSpec
CONSTANTS
    t1 = t1
    t2 = t2
    e1 = e1
    e2 = e2
    Null = Null
    Engines = {e1}
    Tasks <- TwoTasks
    Deps <- Chain
    Rank <- MCRank
    MaxAttemptsOf <- TwoTries
    MaxActions = 4
    Guarded = {t1}
    Daemons = FALSE
    MaxCrashes = 3
INVARIANTS
    ActionsBounded
    EndIsJustified
PROPERTIES
    SucceededStays
    GoalEnds
CHECK_DEADLOCK FALSE
