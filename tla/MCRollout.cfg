CONSTANTS
    q1 = q1
    q2 = q2
    Slots = {q1, q2}
    N = 2
    MaxOutputs = 1
    LoadedStep = 0
    Configurations <- FewConfigurations
    MaxLost = 1
SPECIFICATION Spec
CHECK_DEADLOCK FALSE
INVARIANTS SampleIsWhole  CleanupIsExact
PROPERTIES SampleEnds
