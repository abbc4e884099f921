\* One process serves and executes; two database errors of any kind but the
\* two that leak the lock or hide a busy queue, one crash.
SPECIFICATION Spec
CONSTANTS
    Role = "all"
    Handlers = {h1}
    MaxJobs = 2
    MaxRuns = 3
    FaultPoints <- NoLeakFault
    MaxFaults = 2
    MaxCrashes = 1
    SlowRuns = FALSE
INVARIANTS
    TypeOK
    HeldRowsRun
    NeverRefused
    OneScheduled
PROPERTIES
    VerdictsStay
    ImplementsLedger
