SPECIFICATION Spec
CONSTANTS
    Users = {u1}
    Admins = {a1}
    Writers = {w1}
    Objs = {o1}
    Epochs = {ep1}
    Mounts = {m1}
    Null = Null
    MaxWorks = 1
    LazyUmount = TRUE
    OverlapEvents = FALSE
    ActivateMounted = FALSE
    AllocMayFail = FALSE
INVARIANT NoUseAfterFree
