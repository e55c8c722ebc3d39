SPECIFICATION ToolCallSpec
CONSTANTS
    Jobs = {c1, c2}
    Pods = {p1}
    NoPod = NoPod
    Workers = {w1, w2}
    NoWorker = NoWorker
    SlowTools = FALSE
    ServerFails = TRUE
    MaxFaults = 2
    MaxCrashes = 1
    c1 = c1
    c2 = c2
    p1 = p1
    w1 = w1
    w2 = w2
SYMMETRY Symmetry
CHECK_DEADLOCK FALSE
INVARIANTS
    TypeOK
    ReleasesOwnPod
    CommandsExclusive
