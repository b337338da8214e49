SPECIFICATION Spec
CONSTANTS
    a = a
    b = b
    c = c
    d = d
    Node <- BudNode
    DependsOn <- BudDependsOn
    Children <- BudChildren
    MaxAttempts = 2
    NonAttemptCap = 1
    NonAttemptHardCap = 1
    NudgeCap = 0
    Units = 1
    CreditsProgress = FALSE
    ReviewRetry = TRUE
    MaxParallel = 2
    MaxRounds = 8
    Splitters = {a, b}
    GoodSplit = {a}
    Worktrees = TRUE
    MayConflict = TRUE
    EditKinds = {}
    Racing = FALSE
    MaxCrashes = 1
    MaxStarts = 2
    MaxEdits = 0
INVARIANTS TypeOK DiskIsTruth AttemptsBounded InFlightDepsPassed SplitConsistent
PROPERTIES ImplementsLifecycle
CHECK_DEADLOCK FALSE
