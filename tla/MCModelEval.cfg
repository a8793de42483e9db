CONSTANTS
    NModels = 2
    NProcs = 3
SPECIFICATION Spec
CHECK_DEADLOCK FALSE
INVARIANTS AttemptsAreNotMixed SummaryIsTrue
PROPERTY AttemptIsReported
