SPECIFICATION SessionSpec
CONSTANTS
    Requests = {r1, r2}
    Sessions = {s1}
    None = None
    Calls <- MCCalls
    r1 = r1
    r2 = r2
    s1 = s1
CHECK_DEADLOCK FALSE
INVARIANTS
    EveryCallRecorded
