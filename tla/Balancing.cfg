SPECIFICATION AllSpec
CONSTANTS
    None = None
    Targets = {1, 2}
    Weight <- MCWeight
    HealthyThreshold = 2
    UnhealthyThreshold = 1
    Requests = {"r1"}
    MaxReloads = 1
    MaxIncidents = 2
 
PROPERTIES HealthFollows ListenersSettle
CHECK_DEADLOCK FALSE
