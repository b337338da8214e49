SPECIFICATION LoopsSpec
CONSTANTS
    a = a
    b = b
    c = c
    d = d
    Node <- ChainNode
    DependsOn <- ChainDependsOn
    Children <- NoChildren
    MaxAttempts = 2
    NonAttemptCap = 1
    NonAttemptHardCap = 2
    NudgeCap = 0
    Units = 1
    CreditsProgress = TRUE
    ReviewRetry = FALSE
    MaxParallel = 2
    MaxRounds = 8
    Splitters = {}
    GoodSplit = {}
    Worktrees = FALSE
    MayConflict = FALSE
    EditKinds = {"halt"}
    Racing = FALSE
    MaxCrashes = 0
    MaxStarts = 1
    MaxEdits = 1
    LoopNode <- Trio
    LoopDependsOn <- Independent
    LoopPosition <- First3
    LoopPolicy = "model"
    RefillRounds = 4
    RefillStarts = 2
    MaxTroubles = 1
PROPERTIES LoopsReturn SlotsFilled LoopsImplementLifecycle
CHECK_DEADLOCK FALSE
