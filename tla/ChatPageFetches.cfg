SPECIFICATION Spec
CONSTANTS
    Messages = {m1, m2}
    Sessions = {s1, s2}
    None = None
    RateLimit = 1
    RateWindow = 2
    MaxTime = 2
    MaxOpens = 3
    MaxDeletes = 1
    MaxLost = 1
    m1 = m1
    m2 = m2
    s1 = s1
    s2 = s2
SYMMETRY Symmetry
INVARIANTS
    TypeOK
    BubblesInTheirSession
    LockedWhileWaiting
    RefusedExactlyOverLimit
CHECK_DEADLOCK FALSE
