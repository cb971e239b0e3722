SPECIFICATION FairSpec
CONSTANTS
    server = server  worker = worker  replica = replica
    None = None
    Procs = {server, worker}
    Servers = {server}
    RunBy <- Split
    Sessions = {s1}
    Requests = {r1}
    grantChanges = 1  overlayChanges = 1
    MaxChanges <- Changes
    MaxFaults = 0
PROPERTY OverlayTakesEffect
CHECK_DEADLOCK FALSE
