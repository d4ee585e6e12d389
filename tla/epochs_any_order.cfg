SPECIFICATION Spec
CONSTANTS
    Users = {u1, u2}
    Admins = {a1, a2}
    Writers = {w1, w2}
    Objs = {o1}
    Epochs = {ep1, ep2}
    Mounts = {m1, m2}
    Null = Null
    MaxWorks = 1
    LazyUmount = TRUE
    OverlapEvents = TRUE
    ActivateMounted = TRUE
    AllocMayFail = TRUE
SYMMETRY Symm
INVARIANTS
    TypeOK
    HandleLive
    WorkqueueUsable
    NoDoubleFree
