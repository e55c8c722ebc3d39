SPECIFICATION FairSpec
CONSTANTS
    NumPods = 1
    Workers = {w1}
    Servers = {}
    Jobs = {j1, j2, j3}
    NoJob = NoJob
    NoProc = NoProc
    UnconditionalPut = FALSE
    SlowJobs = FALSE
    MaxSweeps = 1
    MaxFaults = 0
    MaxCrashes = 0
    w1 = w1
    j1 = j1
    j2 = j2
    j3 = j3
PROPERTIES
    EveryWaiterAnswered
