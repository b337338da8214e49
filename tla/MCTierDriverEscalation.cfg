\* An operator escalates a run that has begun.
SPECIFICATION Spec
CONSTANTS
    Classified <- OnlyT1
    MaxTransient = 1
    Budgeted = FALSE
    EditKinds <- Escalation
    Racing = FALSE
    MaxCrashes = 0
    MaxStarts = 2
    MaxEdits = 1
INVARIANT RoundsPrepared
CHECK_DEADLOCK FALSE
