SPECIFICATION FairSpec
CONSTANTS
    m1 = m1
    m2 = m2
    Managers <- MCManagers
    Faulty <- MCFaulty
    Offset <- MCOffset
    TTL = 2
    NControllers = 2
    MaxErrors = 1
    Absent = Absent
    Released = Released
INVARIANTS LeaseExclusion
PROPERTIES NoTheft LeadershipPasses
