SPECIFICATION WFairSpec
CONSTANTS
    g1 = g1
    t1 = t1
    t2 = t2
    w1 = w1
    w2 = w2
    a1 = a1
    p1 = p1
    p2 = p2
    k1 = k1
    Null = Null
    Goals <- MCGoals
    Tasks <- TwoTasks
    GoalOf <- TwoTasksGoal
    Deps <- TwoTasksDeps
    Rank <- TwoTasksRank
    TypeOf <- TwoTasksType
    Types <- MCTypes
    Agents = {a1}
    Workers <- MCWorkers
    Sessions = {p1, p2}
    Assignments <- MCAssignments
    ClaimIds = {1, 2, 3, 4}
    MaxAttempts = 2
    Lease = 2
    TTL = 3
    MaxTime = 3
    WorkerOf <- TwoWorkerOf
    Guarded = {t1, t2}
    MaxAttemptsOf <- TwoTasksAttempts
    Keys = {k1}
    Messages <- SharedKeys
INVARIANTS
    AttemptsBounded
    OnlyConflictsRaise
    RecordsFollowCommits
PROPERTIES
    ClaimIsSettled
CHECK_DEADLOCK FALSE
