CONSTANTS
    Shards = {"model_rank_0", "model_rank_1"}
    LastStep = 7
    SaveFreq = 2
    MaxKeep = 2
    MaxRuns = 3
SPECIFICATION Spec
CHECK_DEADLOCK FALSE
INVARIANTS TrackedIsComplete NothingFinishedIsRepeated DataFollowsSteps KeepsAtMost
