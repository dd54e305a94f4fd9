SPECIFICATION LiveSpec
CONSTANTS
    n1 = n1
    n2 = n2
    r1 = r1
    r2 = r2
    NoRoot = NoRoot
    Blocks = {n1}
    Roots = {r1}
    Leafless = {}
    Tree <- MCOneTree
    MaxSeq = 2
    Retain = 0
    QueueCap = 1
    MaxCrashes = 0
    DiskFaults = {"lost", "index", "damage", "mount"}
    UnlinkMayFail = FALSE
PROPERTY JournalDrains
CHECK_DEADLOCK FALSE
