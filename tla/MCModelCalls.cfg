\* All roles, one retry of each kind (two reprompts and episodes); two threads and one slot;
\* two units judged in one call, in two parts or in turns, two attempts; a worker that may die.
SPECIFICATION MCSpec
CONSTANTS
    main = main
    spare = spare
    patient = patient
    hasty = hasty
    Callers = {patient, hasty}
    Patient = {patient}
    Models = {main, spare}
    First = main
    Slots = 1
    MaxHttp = 1
    Rungs = 2
    MaxSwitches = 2
    Roles = {"verdict", "orchestrator", "classify", "plain", "backend"}
    Retries = 2
    MaxEmpty = 1
    MaxDegenerate = 1
    MaxDeadline = 1
    MaxBudget = 1
    Doublings = 1
    MaxEpisodes = 2
    Length = 2
    Listed = {1, 2}
    Version = {0, 1}
    Context = {0, 1}
    MaxFan = 2
    Modes = {"whole", "parts", "loop"}
    Turns = 2
    OnOutage = {"pass", "retry"}
    MaxAttempts = 2
    MaxEdits = 1
    MaxRedone = 1
    WorkerMayDie = TRUE
INVARIANTS PassIsEarned CallsAreSound
PROPERTIES ChargedForAFault CallsReturn
CHECK_DEADLOCK FALSE
