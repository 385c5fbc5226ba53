SPECIFICATION AllSpec
CONSTANTS
    Callers = {c1, c2}
    MaxOps = 4
    MaxTimeouts = 1
    None = None
    Fns <- FpFns
    Slots <- FpSlots
    Ports <- FpPorts
    Invs = {v1, v2}
    MinWarm = 1
    MaxWarm = 1
    AllowColdStart = TRUE
    MaxFaults = 1
    MaxCreations = 1
    Nothing = Nothing
    Requests = {p1, p2}
    Tokens = {t1}
    MaxAcOps = 5
    MaxAcFaults = 1
    Absent = Absent
    Writers = {w1, w2}
    Uids = {u1, u2, u3}
    MaxScOps = 6
    Vacant = Vacant
INVARIANTS AckedKept ClaimedAlone AccountHolds SecretCounts
SYMMETRY Alike
CHECK_DEADLOCK FALSE
