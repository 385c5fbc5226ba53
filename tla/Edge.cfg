SPECIFICATION AllSpec
CONSTANTS
    None = None
    Unset = Unset
    Procs = {e1, e2}
    Owners = {x}
    Addresses <- MCAddresses
    Reserved <- MCReserved
    MaxFaults = 1
    MaxRequests = 2
    Free = Free
    Nobody = Nobody
    Absent = Absent
PROPERTIES StaleReleased LbSettles    
CHECK_DEADLOCK FALSE
