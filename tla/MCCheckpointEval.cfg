SPECIFICATION Spec
CONSTANTS
    Steps = {0, 1, 2}
    Fsdp = {0, 2}
    Configs <- AllConfigs
    MaxRuns = 3
INVARIANTS RowsAreSound FileIsHonest NothingLeftBehind
PROPERTIES ResultsAreKept RunIsReported
CHECK_DEADLOCK FALSE
