\* Part uploads, completions, aborts and sweeps of one upload, two at a time.
CONSTANTS
    Sessions = {u1}
    Numbers = {n1, n2}
    Digests = {d1, d2}
    Requests = {r1, r2}
    Releasers = {e1}
    Tasks = {t1}
    MaxRequests = 3
    Outlive = TRUE
    None = None
SPECIFICATION Spec
SYMMETRY Symmetry
INVARIANTS
    TypeOK
    ClaimsHeld
PROPERTIES
    ImplementsSessions
CHECK_DEADLOCK FALSE
