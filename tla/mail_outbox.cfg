SPECIFICATION FairSpec
CONSTANTS
    m1 = m1 c1 = c1 c2 = c2
    Mails = {m1}
    Calls = {c1, c2}
    Key <- OneKey
    MaxAttempts = 3
    MaxFaults = 2
    MaxCrashes = 2
CHECK_DEADLOCK FALSE
INVARIANT TypeOK
INVARIANT TwiceOnlyByFault
INVARIANT PendingHasJob
INVARIANT OneOutcome
PROPERTY Delivers
PROPERTY JobSettles
