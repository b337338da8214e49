\* Five segments; four units, three claims, three nodes; two leaves, one probe of each window, one
\* resume; three units sliced; two questions a round, two rounds; one kill each.
SPECIFICATION MCSpec
CONSTANTS
    MaxSegments = 5
    Sizes = {1, 3}
    MinChunk = 2
    FoldTo = 3
    MinUnit = 4
    TargetUnit = 6
    MaxUnit = 7
    Window = 2
    Stride = 1
    MaxCalls = 3
    MaxCrashes = 1
    MaxUnits = 4
    PlanIds <- MCIds
    MaxClaims = 3
    MaxDeps = 1
    DepthCap = 3
    NodeCap = 3
    TokenBudget = 2
    Leaves <- MCNodes
    Shown = 1
    Slugs = {"s"}
    Questions = {"q1", "q2"}
    MaxSuggested = 2
    PerWindow = 1
    OperatorPlans <- MCOperatorPlans
    TopUnits = 2
    Explorers = 1
    MaxParallel = 2
    MaxBypassed = 1
    MaxStops = 1
    SingleUnits = 3
    MaxParts = 4
    Ids = {"q1", "q2"}
    PerRound = 2
    MaxSets = 2
    MaxKills = 1
INVARIANTS EveryUnitOnce
PROPERTIES FindingsArrive IntakeIsHonest
CHECK_DEADLOCK FALSE
