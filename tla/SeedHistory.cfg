SPECIFICATION SeedSpec
CONSTANTS
    e1 = e1
    e2 = e2
    e3 = e3
    g1 = g1
    g2 = g2
    lesson = lesson
    k1 = k1
    k2 = k2
    p1 = p1
    p2 = p2
    p3 = p3
    Experiences <- ThreeExperiences
    GoalOf <- TwoGoals
    LessonOf <- OneLesson
    Surprising <- OneSurprisingEach
    Knowledge = {k1}
    Processes = {p1, p2, p3}
    MinimumGoals = 2
    MaxDay = 1
    MaxRevisions = 5
    Absent = Absent
SYMMETRY AnyOrder
INVARIANTS
    NothingLost
    PromotedIsCorroborated
PROPERTIES
    HistoryTellsChanges
CHECK_DEADLOCK FALSE
