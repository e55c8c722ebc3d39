SPECIFICATION FairSpec
CONSTANTS
    NumPods = 1
    Workers = {w1}
    Servers = {}
    Jobs = {j1, j2}
    NoJob = NoJob
    NoProc = NoProc
    UnconditionalPut = TRUE
    SlowJobs = FALSE
    MaxSweeps = 2
    MaxFaults = 1
    MaxCrashes = 1
    w1 = w1
    j1 = j1
    j2 = j2
INVARIANTS
    Exclusive
PROPERTIES
    AbandonedLeaseRecovered
    LeakedReservationRecovered
    ImplementsPodPool
