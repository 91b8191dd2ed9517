SPECIFICATION MCSpec
CONSTANTS
    Batches = {1}
    Items = {1, 2}
    Projects <- MCProjects
    Owner <- MCOwner
    Threshold <- MCThreshold
    Clients = {c1}
    MaxRequests = 3
    MaxCrashes = 1
    MaxQueue = 2
PROPERTIES DoneIsTerminal
CHECK_DEADLOCK FALSE
