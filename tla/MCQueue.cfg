SPECIFICATION MCFairSpec
CONSTANTS
    Batches = {1, 2}
    Items = {1}
    Projects <- MCProjects
    Owner <- MCOwner
    Threshold <- MCThreshold
    Clients = {c1}
    MaxRequests = 2
    MaxCrashes = 1
    MaxQueue = 2
INVARIANTS QueuedIsEnqueued
PROPERTIES BatchSettles RunEnds ScheduledIsQueued
CHECK_DEADLOCK FALSE
