SPECIFICATION Spec
CONSTANTS
    Devs = {d1, d2}
    Blocks = {b1}
    Contents = {v1, v2}
    Garbage = Garbage
    LruMax = 1
    NewMkdir = TRUE
    Faulty = {}
    Failures = {}
    MaxEpoch = 1
    MaxQueue = 2
    MaxRecs = 3
    MaxRm = 0
SYMMETRY Symm
INVARIANTS
    RestoreRecovers
