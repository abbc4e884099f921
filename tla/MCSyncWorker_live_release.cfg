\* The deployed layout, no error and no crash.
SPECIFICATION Spec
CONSTANTS
    Role = "worker"
    Handlers = {h1}
    MaxJobs = 2
    MaxRuns = 2
    FaultPoints <- NoFault
    MaxFaults = 0
    MaxCrashes = 0
    SlowRuns = FALSE
INVARIANTS
    HeldRowsRun
