\* Two drivers, one handler of the dashboard, one approval, halt and death; two tabs and two
\* job threads; a log of three bytes fetched two at a time by two requests.
SPECIFICATION MCSpec
CONSTANTS
    MaxDrivers = 2
    Handlers = {11}
    MaxAsks = 1
    MaxHalts = 1
    MaxDeaths = 1
    Stale = 2
    Approvals = {1, 2}
    Tabs = {1, 2}
    Workers = {1, 2}
    MaxRequests = 1
    MaxCancels = 1
    MaxJobs = 1
    MaxBytes = 3
    ChunkBytes = 2
    Fetches = {f1, f2}
 
PROPERTIES   OperatorIsHeard
CHECK_DEADLOCK FALSE
