SPECIFICATION Spec
CONSTANTS
    Steps = {0, 1}
    Fsdp = {1}
    Configs <- OneConfig
    MaxRuns = 1
INVARIANTS CleanupFailureSurfaces
CHECK_DEADLOCK FALSE
