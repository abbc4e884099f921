\* The deployed layout under fairness, one database error, one crash.
SPECIFICATION FairSpec
CONSTANTS
    Role = "worker"
    Handlers = {h1}
    MaxJobs = 2
    MaxRuns = 1
    FaultPoints <- LoopFault
    MaxFaults = 1
    MaxCrashes = 1
    SlowRuns = FALSE
PROPERTIES
    EveryJobSettles
