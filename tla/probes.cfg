SPECIFICATION Spec
CONSTANTS
    Threads = {0, 1}
    Data = {"d1"}
    Buckets = 2
    Stride = 1
    UnloadBusy = TRUE
    FaultReads = TRUE
    MissedProbes = TRUE
    OtherSize = TRUE
    MaxPending = 1
    Hash <- MCHash
INVARIANTS
    TypeOK
    SavesWhatItNames
    EntryStillLinked
PROPERTIES
    OnlyExitRemoves
