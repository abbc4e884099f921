\* The deployed layout: web container, worker container, its second loop.
SPECIFICATION Spec
CONSTANTS
    Role = "worker"
    Handlers = {h1}
    MaxJobs = 2
    MaxRuns = 2
    FaultPoints <- AnyFault
    MaxFaults = 1
    MaxCrashes = 1
    SlowRuns = FALSE
INVARIANTS
    OneSync
    OneHolder
    DoneMeansClosed
