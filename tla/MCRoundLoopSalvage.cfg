SPECIFICATION Spec
CONSTANTS
    a = a
    b = b
    c = c
    d = d
    Node <- OneNode
    DependsOn <- OneDependsOn
    Children <- NoChildren
    MaxAttempts = 2
    NonAttemptCap = 1
    NonAttemptHardCap = 2
    NudgeCap = 0
    Units = 1
    CreditsProgress = FALSE
    ReviewRetry = FALSE
    MaxParallel = 1
    MaxRounds = 8
    Splitters = {}
    GoodSplit = {}
    Worktrees = TRUE
    MayConflict = FALSE
    EditKinds = {}
    Racing = FALSE
    MaxCrashes = 0
    MaxStarts = 1
    MaxEdits = 0
INVARIANTS WorkLands
CHECK_DEADLOCK FALSE
