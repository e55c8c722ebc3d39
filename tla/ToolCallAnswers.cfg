SPECIFICATION FairToolCallSpec
CONSTANTS
    Jobs = {c1, c2}
    Pods = {p1}
    NoPod = NoPod
    Workers = {w1}
    NoWorker = NoWorker
    SlowTools = TRUE
    ServerFails = FALSE
    MaxFaults = 1
    MaxCrashes = 0
    c1 = c1
    c2 = c2
    p1 = p1
    w1 = w1
CHECK_DEADLOCK FALSE
PROPERTIES
    EveryPodReturned
    EveryCallAnswered
