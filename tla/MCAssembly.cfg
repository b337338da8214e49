\* Two nodes, one crash, two jobs: assemblies, re-validations and triages;
\* three rows read two at a time; two cells of one unit, two sweeps, one kill.
SPECIFICATION MCSpec
CONSTANTS
    n1 = n1
    n2 = n2
    NoText = NoText
    Node <- TwoNodes
    MaxAttempts = 2
    Charged = {0}
    MaxRepairs = 2
    MaxTriaged = 1
    MaxCrashes = 1
    MaxStarts = 2
    Size = 3
    Window = 2
    Stride = 1
    Median = {2}
    MaxItems = 2
    MaxEdits = 1
    MaxReviews = 2
    Units = {1}
    MaxRuns = 4
    MaxSweeps = 2
    MaxKills = 1
INVARIANTS TypeOK VettedOnly ScoresItsRun
PROPERTIES FailedRepairUndoesNothing DoneIsAssembled  EverythingReturns
CHECK_DEADLOCK FALSE
