SPECIFICATION Spec
CONSTANTS
    Procs = {e1, e2}
    Owners = {x, y}
    Addresses = {1, 2, 3}
    Reserved = {3}
    MaxFaults = 0
    MaxRequests = 2
    Free = Free
    Nobody = Nobody
    Absent = Absent
INVARIANT LatecomerInError
