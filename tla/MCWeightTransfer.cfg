CONSTANTS
    NRanks = 2
    BucketSize = 4
    Setups <- AllSetups
    MaxTransfers = 3
    MaxFaults = 2
SPECIFICATION Spec
CHECK_DEADLOCK FALSE
INVARIANTS BucketFits NeverTorn DriverSeesWhole BufferReclaimed
PROPERTY SyncEnds
