\* One crash, two processes, one operator edit, every classification.
SPECIFICATION Spec
CONSTANTS
    Classified <- AllTiers
    MaxTransient = 2
    Budgeted = TRUE
    EditKinds <- AllEdits
    Racing = FALSE
    MaxCrashes = 1
    MaxStarts = 2
    MaxEdits = 1
INVARIANT TypeOK
PROPERTY TierRises DoneIsEarned NothingDiscarded Reports
CHECK_DEADLOCK FALSE
