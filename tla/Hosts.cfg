SPECIFICATION AllSpec
CONSTANTS
    Publics = {p, q}
    Procs = {a1, a2}
    Owners = {x, y, z}
    Reusable = {}
    Addresses <- MCAddressesOf
    MaxFaults = 1
    MaxRequests = 5
    MaxEvictions = 0
    Free = Free
    Nobody = Nobody
    Absent = Absent
    None = None
INVARIANTS AddressHeld ReadyReserved  
PROPERTY ReachKept
SYMMETRY Alike
CHECK_DEADLOCK FALSE
