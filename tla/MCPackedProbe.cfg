CONSTANTS
    MaxPrompt = 2
    MaxResponse = 4
    PrefixChars = 2
    AnswerChars = 2
    SuffixChars = 1
    TokenCap = 17
    MaxPositions = 8
    Layers = 2
SPECIFICATION ProbeSpec
CHECK_DEADLOCK FALSE
INVARIANTS BranchesAreIsolated PackingIsTransparent GatesCompareOwnStep
