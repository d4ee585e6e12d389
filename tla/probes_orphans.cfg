SPECIFICATION FairSpec
CONSTANTS
    Threads = {120}
    Data = {"d1"}
    Buckets = 262144
    Stride = 50
    UnloadBusy = FALSE
    FaultReads = FALSE
    MissedProbes = FALSE
    OtherSize = FALSE
    MaxPending = 1
    Hash <- MCHash
PROPERTIES
    OrphansRemoved
