SPECIFICATION AllSpec
CONSTANTS
    Idps = {i1, i2}
    Logins = {l1, l2}
    Interrupted = {l2}
    People = {p1, p2}
    MaxPending = 1
    MaxAttempts = 2
    MaxAnswers = 2
    MaxFaults = 1
    None = None
    Free = Free
    Nobody = Nobody
    Absent = Absent
    Exited = Exited
INVARIANT DecidedOnce
PROPERTIES ReconcileEnds DeletionCompletes SpecConverges LoginGranted
CHECK_DEADLOCK FALSE
