SPECIFICATION Spec
CONSTANTS
    a = a
    b = b
    c = c
    d = d
    Node <- GroveNode
    DependsOn <- GroveDependsOn
    Children <- GroveChildren
    MaxAttempts = 1
    NonAttemptCap = 1
    NonAttemptHardCap = 1
    NudgeCap = 0
    Units = 1
    CreditsProgress = FALSE
    ReviewRetry = FALSE
    MaxParallel = 2
    MaxRounds = 8
    Splitters = {a}
    GoodSplit = {a}
    Worktrees = FALSE
    MayConflict = FALSE
    EditKinds = {}
    Racing = FALSE
    MaxCrashes = 0
    MaxStarts = 1
    MaxEdits = 0
SYMMETRY TwinLeaves
INVARIANTS SplitDerived
CHECK_DEADLOCK FALSE
