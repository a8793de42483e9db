CONSTANTS
    a = a
    b = b
    e = e
    Requests = {a, b, e}
    Embedded = {e}
    PromptLen <- Lens
    ChunkSize = 2
    Budget = 6
    MaxTokens = 2
    MaxPreempted = 1
SPECIFICATION ScoresSpec
CHECK_DEADLOCK FALSE
INVARIANTS ReturnedScoresAreComplete ReturnedWithFirstToken
