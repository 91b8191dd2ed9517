SPECIFICATION MCSpec
CONSTANTS
    Batches = {1, 2}
    Items = {1, 3}
    Projects <- MCProjects
    Owner <- MCOwner
    Threshold <- MCThreshold
    Clients = {c1}
    MaxRequests = 2
    MaxCrashes = 1
    MaxQueue = 2
INVARIANTS ReviewIsSettled
CHECK_DEADLOCK FALSE
