SPECIFICATION Spec
CONSTANTS
    Requests = {r1, r2}
    Sessions = {s1, s2}
    None = None
    Calls <- MCCalls
    MaxVisits = 2
    MaxLost = 1
    r1 = r1
    r2 = r2
    s1 = s1
    s2 = s2
SYMMETRY Symmetry
CHECK_DEADLOCK FALSE
INVARIANTS
    TypeOK
    EachCallShownOnce
    LiveInTheirSession
    LoadingEnds
