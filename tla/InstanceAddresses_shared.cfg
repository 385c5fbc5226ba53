SPECIFICATION Spec
CONSTANTS
    Procs = {a1, a2}
    Owners = {x, y, z}
    Reusable = {}
    Addresses = {1, 2}
    MaxFaults = 0
    MaxRequests = 4
    MaxEvictions = 1
    Free = Free
    Nobody = Nobody
    Absent = Absent
    None = None
INVARIANT NoSharedAddress
CHECK_DEADLOCK FALSE
