SPECIFICATION MCHistorySpec
CONSTANTS
    Batches = {1, 2}
    Items = {1, 2}
    Projects <- MCProjects
    Owner <- MCOwner
    Threshold <- MCThreshold
    Clients = {c1}
    MaxRequests = 2
    MaxCrashes = 1
    MaxQueue = 2
INVARIANTS TypeOK LanePhase LaneExclusive PauseStopsLane NoItemForgotten
PROPERTIES DecisionSticks ItemsKeepContract
CHECK_DEADLOCK FALSE
