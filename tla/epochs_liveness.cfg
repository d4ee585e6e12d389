SPECIFICATION FairSpec
CONSTANTS
    Users = {u1}
    Admins = {a1}
    Writers = {w1}
    Objs = {o1}
    Epochs = {ep1, ep2}
    Mounts = {m1, m2}
    Null = Null
    MaxWorks = 1
    LazyUmount = FALSE
    OverlapEvents = FALSE
    ActivateMounted = FALSE
    AllocMayFail = FALSE
PROPERTIES
    WorkqueueDestroyed
    DetachedEpochFreed
    EveryCallReturns
