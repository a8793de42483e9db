CONSTANTS
    Shards = {"model_rank_0", "model_rank_1"}
    LastStep = 4
    SaveFreq = 2
    MaxKeep = 1
    MaxRuns = 2
SPECIFICATION Spec
CHECK_DEADLOCK FALSE
INVARIANTS TrackedIsComplete
