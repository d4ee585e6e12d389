SPECIFICATION EndSpec
CONSTANTS
    Users = {u1}
    Admins = {a1}
    Writers = {w1}
    Objs = {o1, o2}
    Epochs = {ep1, ep2}
    Mounts = {m1, m2}
    Null = Null
    MaxWorks = 2
    LazyUmount = FALSE
    OverlapEvents = FALSE
    ActivateMounted = FALSE
    AllocMayFail = FALSE
    Blocks = {b1}
    Contents = {v1, v2}
    EarlyWrites = FALSE
SYMMETRY Symm
INVARIANTS
    NoUseAfterFree
    CountMatchesMounts
    NoWorkAfterUnload
    NoLostEpoch
    Recovers
