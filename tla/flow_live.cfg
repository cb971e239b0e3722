SPECIFICATION FairSpec
CONSTANTS
    s1 = s1
    NoStep = NoStep
    Steps = {s1}
    Dotted = {}
    Copies = 1
    Jobs = TRUE
    MaxRetries = 2
    MaxTurns = 2
    MaxReplays = 0
    MaxCancels = 1
    MaxFaults = 1
    MaxCrashes = 1
CHECK_DEADLOCK FALSE
INVARIANT NothingToDecideWhenOver
PROPERTY DecidedIsResumed
