SPECIFICATION FairSpec
CONSTANTS
    Kind = "microvm"
    Agents = {a1, a2}
    Clients = {c1}
    Schedulers = {s1}
    MaxRequests = 3
    MaxEvictions = 1
    MaxFaults = 0
    Absent = Absent
    None = None
    Exited = Exited
PROPERTY DeletionCompletes
CHECK_DEADLOCK FALSE
