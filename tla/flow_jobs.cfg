SPECIFICATION Spec
CONSTANTS
    s1 = s1 s2 = s2
    NoStep = NoStep
    Steps = {s1, s2}
    Dotted = {s2}
    Copies = 1
    Jobs = TRUE
    MaxRetries = 1
    MaxTurns = 2
    MaxReplays = 1
    MaxCancels = 0
    MaxFaults = 2
    MaxCrashes = 0
CHECK_DEADLOCK FALSE
INVARIANT TypeOK
INVARIANT OnePending
INVARIANT OneVerdictPerAsk
INVARIANT ResumedByVerdict
PROPERTY VerdictStands
