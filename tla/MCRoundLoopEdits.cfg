SPECIFICATION Spec
CONSTANTS
    a = a
    b = b
    c = c
    d = d
    Node <- ChainNode
    DependsOn <- ChainDependsOn
    Children <- NoChildren
    MaxAttempts = 1
    NonAttemptCap = 1
    NonAttemptHardCap = 1
    NudgeCap = 1
    Units = 1
    CreditsProgress = FALSE
    ReviewRetry = FALSE
    MaxParallel = 2
    MaxRounds = 8
    Splitters = {}
    GoodSplit = {}
    Worktrees = FALSE
    MayConflict = FALSE
    EditKinds = {"redispatch", "reopen", "cli_reopen", "pass", "bypass", "halt"}
    Racing = FALSE
    MaxCrashes = 0
    MaxStarts = 2
    MaxEdits = 2
INVARIANTS PassedEarned
PROPERTIES PassedStays NoStrandedWork
CHECK_DEADLOCK FALSE
