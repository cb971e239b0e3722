SPECIFICATION Spec
CONSTANTS
    s1 = s1
    NoStep = NoStep
    Steps = {s1}
    Dotted = {}
    Copies = 2
    Jobs = FALSE
    MaxRetries = 2
    MaxTurns = 2
    MaxReplays = 0
    MaxCancels = 0
    MaxFaults = 0
    MaxCrashes = 0
PROPERTY DuplicateIsNoOp
CHECK_DEADLOCK FALSE
