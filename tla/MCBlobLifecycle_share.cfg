SPECIFICATION Spec
CONSTANTS
    s1 = s1
    k1 = k1
    k2 = k2
    None = None
    Spaces = {s1}
    Digests = {d1}
    Keys = {k1, k2}
    SpaceOf <- MCOneSpace
    Writers = {w1, w2}
    Releasers = {r1}
    FailSteps = {"check", "defer", "start", "locate", "intent", "remove", "unlocate", "local", "unlink", "forget", "last"}
    DropAccepted = FALSE
SYMMETRY MCSymmetry
INVARIANTS TypeOK ClaimedStored UploadFindsFile
