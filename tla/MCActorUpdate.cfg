CONSTANTS
    DP = 2
    MiniSize = 3
    Batches <- AllBatches
    PaddingLength = 2
    Limit = 4
    MicroSize = 1
    Methods = {"standard", "r2opl_base", "r2opl"}
    MaxFailures = 1
SPECIFICATION Spec
CHECK_DEADLOCK FALSE
INVARIANTS RowsReachTheirKeys RanksAreBalanced CollectivesMatch GradientIsWhole NormsAreOfBranches MeansArePooled
