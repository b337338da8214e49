\* A CLI that resumes sessions; three calls, one kill, one edit, four of these in all; two records
\* of each CLI's trace, two attempts and an upset, four in all; two threads that read two tokens.
SPECIFICATION MCSpec
CONSTANTS
    Adapters <- Resuming
    FileTools = TRUE
    Punctuations <- Curly
    MaxKeep = 1
    MayTear = FALSE
    MaxCalls = 3
    MaxCrashes = 1
    MaxEdits = 1
    MaxTurns = 4
    Families = {"claude", "codex", "opencode", "antigravity"}
    Tabs = {1}
    MaxRecords = 2
    MaxAttempts = 2
    MaxUpsets = 1
    HeadBytes = 2
    MaxEntries = 3
    Threads = {t1, t2}
    MaxTokens = 1
    MaxEvictions = 1
INVARIANTS WorkIsKept AnswersAreTrue
PROPERTIES OneEpisodePerResult TabHoldsText
CHECK_DEADLOCK FALSE
