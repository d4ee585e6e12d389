SPECIFICATION Spec
CONSTANTS
    Devs = {d1, d2}
    Blocks = {b1}
    Contents = {v1, v2}
    Garbage = Garbage
    LruMax = 1
    NewMkdir = FALSE
    Faulty = {d1}
    Failures = {"queue", "lru_alloc", "lru_add", "mkdir", "notdir", "path_alloc", "create", "open", "write"}
    MaxEpoch = 1
    MaxQueue = 1
    MaxRecs = 2
    MaxRm = 1
SYMMETRY Symm
INVARIANTS
    RestoreRecovers
    OneRecordPerBlock
