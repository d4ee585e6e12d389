SPECIFICATION Spec
CONSTANTS
    Devs = {d1}
    Blocks = {b1, b2}
    Contents = {v1, v2}
    Garbage = Garbage
    LruMax = 1
    NewMkdir = TRUE
    Faulty = {d1}
    Failures = {"lru_add"}
    MaxEpoch = 2
    MaxQueue = 3
    MaxRecs = 3
    MaxRm = 0
SYMMETRY Symm
INVARIANTS
    TypeOK
    RestoreRecovers
    RecordsAreOriginals
    CachedIsSaved
    LruBounded
PROPERTIES
    ImplementsSnapshotSpec
