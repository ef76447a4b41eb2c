SPECIFICATION Spec
CONSTANTS
    a1 = a1
    a2 = a2
    a3 = a3
    m1 = m1
    m2 = m2
    r1 = r1
    r2 = r2
    r3 = r3
    p1 = p1
    p2 = p2
    Null = Null
    Agents = {a1, a2, a3}
    Models = {m1, m2}
    Loaded = {a1, a2}
    Reconfigured = {a2}
    Cases <- Two
    Critical = {"critical"}
    Runs = {r1, r2, r3}
    ChampionOf <- MCChampion
    ChallengerOf <- MCChallenger
    SpecsOf <- MCSpecs
    Promoters = {p1, p2}
    MinimumCases = 2
    MinimumDelta = 2
    MaximumRegression = 5
    LatencyRatio <- Ratio
    MaxProfiles = 1
SYMMETRY PromoterSymmetry
INVARIANTS
    DeploymentJustified
    RoutedToChampion
PROPERTIES
    ChampionsChain
CHECK_DEADLOCK FALSE
