SPECIFICATION FairSpec
CONSTANTS
    p1 = p1 p2 = p2
    Signals = {p1, p2}
    JobIds = {1, 2, 3}
    MaxAttempts = 2
    MaxFaults = 2
    MaxCrashes = 1
    MaxTrouble = 2
CHECK_DEADLOCK FALSE
INVARIANT TypeOK
INVARIANT InfectedIsKeptOut
INVARIANT ReadyIsSearchable
INVARIANT GoodFailsForCause
INVARIANT StrandedForCause
INVARIANT NothingLeftBehind
PROPERTY Settles
