SPECIFICATION PgSpec
CONSTANTS
    g1 = g1
    t1 = t1
    t2 = t2
    w1 = w1
    w2 = w2
    a1 = a1
    p1 = p1
    p2 = p2
    op = op
    Null = Null
    Goals <- MCGoals
    Tasks <- TwoTasks
    GoalOf <- TwoGoal
    Deps <- TwoDeps
    Rank <- TwoRank
    TypeOf <- TwoType
    Types <- MCTypes
    Agents = {a1}
    Workers = {w1, w2}
    Sessions = {s1}
    Assignments <- MCAssignments
    ClaimIds = {c1, c2}
    MaxAttempts = 1
    Lease = 1
    TTL = 2
    MaxTime = 1
    Conns <- MCConns
    OpsOf <- MCOpsOf
    WorkersOf <- MCWorkersOf
    TimesOf <- MCTimesOf
    Guarded <- MCGuarded
    Results = {"succeeded", "failed"}
SYMMETRY ClaimSymmetry
INVARIANTS
    EvidenceIffCommitted
    GoalReflectsTasks
    OnlyClaimTaskDeadlocks
PROPERTIES
    SchedulerImplementsFencedWork
CHECK_DEADLOCK FALSE
