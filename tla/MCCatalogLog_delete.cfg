SPECIFICATION Spec
CONSTANTS
    n1 = n1
    n2 = n2
    r1 = r1
    r2 = r2
    NoRoot = NoRoot
    Blocks = {n1}
    Roots = {r1}
    Leafless = {r1}
    Tree <- MCOneTree
    MaxSeq = 2
    Retain = 0
    QueueCap = 1
    MaxCrashes = 2
    DiskFaults = {"lost", "index", "mount"}
    UnlinkMayFail = FALSE
INVARIANTS CarsRecorded CarsReleased DurableCatalog
CHECK_DEADLOCK FALSE
