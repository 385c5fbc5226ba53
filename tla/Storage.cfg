SPECIFICATION AllSpec
CONSTANTS
    Clients = {c1, c2}
    Keys = {k1, k2}
    Values = {v1}
    Dirs = {"vpcs"}
    Dir <- OneDir
    None = None
    Unread = Unread
    MaxCalls = 2
    MaxFaults = 1
    Pullers = {p1, p2}
    Blocks = 2
    MaxVersion = 2
    MaxCuts = 2
    NoVersion = NoVersion
INVARIANTS DestIntact 
PROPERTIES ImplementsStore  DiskProvisioned SchedulingSettles
CHECK_DEADLOCK FALSE
