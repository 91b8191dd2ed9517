SPECIFICATION Spec
CONSTANTS
    MaxRetries = 1
    MaxRequests = 2
    MaxRuns = 2
INVARIANTS TypeOK ReviewedIsChecked ErrorIsCurrent
PROPERTIES ImplementsItemRun ItemRunEnds
CHECK_DEADLOCK FALSE
