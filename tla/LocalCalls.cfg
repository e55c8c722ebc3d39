SPECIFICATION FairSpec
CONSTANTS
    Inputs <- MCInputs
    Pairs <- MCPairs
    FactorialMax = 4
    FibonacciMax = 5
    Tools = {"math_compute", "fs_write"}
    Window = 1
    MaxCalls = 3
    MaxTime = 2
    MaxRestarts = 1
CHECK_DEADLOCK FALSE
INVARIANTS
    TypeOK
    GcdIsGreatest
    PrimeHasNoDivisor
    CountsAsDefined
    SamplesAreRecentRows
    PercentilesAreNearestRank
PROPERTIES
    EveryComputationEnds
