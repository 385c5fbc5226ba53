SPECIFICATION AllSpec
CONSTANTS
    Kind = "compute"
    Agents = {n1, n2}
    Clients = {c1, c2}
    Schedulers = {s1}
    MaxRequests = 3
    MaxEvictions = 1
    MaxFaults = 1
    Absent = Absent
    None = None
    Exited = Exited
INVARIANTS ReadyNotOutdated  ConfigHolds
PROPERTIES DeletionSticky NoLostUpdate  PlacedUntilEvicted
CHECK_DEADLOCK FALSE
