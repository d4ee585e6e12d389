SPECIFICATION Spec
CONSTANTS
    loop0 = loop0
    Devs = {sda, sdb}
    Loops = {}
    NoDev = NoDev
    Paths <- MCPaths
    Image <- MCImage
    LoName <- MCLoName
    FullPath <- MCFullPath
    Mnts = {m1, m2}
    OddCalls = {"old"}
    MaxCount = 2
    MaxLoads = 1
    ReqMajor = FALSE
    Sha256 = FALSE
PROPERTIES
    OldMountCounted
CHECK_DEADLOCK FALSE
