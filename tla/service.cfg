SPECIFICATION Spec
CONSTANTS
    loop0 = loop0
    Devs = {loop0, loop1}
    Loops = {loop0, loop1}
    NoDev = NoDev
    Paths <- MCPaths
    Image <- MCImage
    LoName <- MCLoName
    FullPath <- MCFullPath
    Mnts = {m1, m2}
    OddCalls = {"no_memory", "old", "systemd", "vanish"}
    MaxCount = 2
    MaxLoads = 2
    ReqMajor = FALSE
    Sha256 = TRUE
INVARIANTS
    TypeOK
    CountMatches
    NothingLeft
    Layered
PROPERTIES
    OnlyAsRequested
    LoaderReturns
CHECK_DEADLOCK FALSE
