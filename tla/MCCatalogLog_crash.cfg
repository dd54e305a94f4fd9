SPECIFICATION Spec
CONSTANTS
    n1 = n1
    n2 = n2
    r1 = r1
    r2 = r2
    NoRoot = NoRoot
    Blocks = {n1, n2}
    Roots = {r1, r2}
    Leafless = {}
    Tree <- MCTree
    MaxSeq = 2
    Retain = 0
    QueueCap = 0
    MaxCrashes = 1
    DiskFaults = {"lost", "index", "damage", "mount"}
    UnlinkMayFail = FALSE
INVARIANTS TypeOK DurableCatalog ReadableCatalog JournalAwaitsShip
PROPERTY ForgeRootFollowsRoot
CHECK_DEADLOCK FALSE
