SPECIFICATION FairSpec
CONSTANTS
    server = server  worker = worker  replica = replica
    None = None
    Procs = {server, replica}
    Servers = {server, replica}
    RunBy <- OneEach
    Sessions = {s1}
    Requests = {r1}
    grantChanges = 1  overlayChanges = 1
    MaxChanges <- Changes
    MaxFaults = 1
INVARIANTS TypeOK RowIsCurrent ScopeIsCurrent
PROPERTY ScopesFollowRows
CHECK_DEADLOCK FALSE
