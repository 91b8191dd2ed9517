SPECIFICATION Spec
CONSTANTS
    MaxClientRetries = 2
INVARIANTS TypeOK Budget ResultFitsAnswers
PROPERTIES RefusalIsFinal ImplementsAnalyst StepEnds
CHECK_DEADLOCK FALSE
