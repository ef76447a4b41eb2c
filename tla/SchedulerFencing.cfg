SPECIFICATION Spec
CONSTANTS
    g1 = g1
    t1 = t1
    t2 = t2
    w1 = w1
    a1 = a1
    Null = Null
    Goals <- MCGoals
    Tasks <- ChainTasks
    GoalOf <- ChainGoal
    Deps <- ChainDeps
    Rank <- ChainRank
    TypeOf <- ChainType
    Types <- MCTypes
    Agents = {a1}
    Workers = {w1}
    Sessions = {s1, s2}
    Assignments <- MCAssignments
    ClaimIds = {c1, c2, c3}
    MaxAttempts = 2
    Lease = 1
    TTL = 2
    MaxTime = 2
SYMMETRY ClaimSessionSymmetry
INVARIANTS
    TypeOK
    RunningIffClaimed
    FencingOrder
    FinalOutcomeIsLast
    DependenciesDone
PROPERTIES
    SupersededSessionIsPowerless
CHECK_DEADLOCK FALSE
