\* Every component of planning at its full bounds, one at a time.
SPECIFICATION PlanningSpec
CONSTANTS
    MaxEdits = 4
    MaxMergeFaults = 2
    MaxStaff = 2
    MaxReps = 2
    MaxDealFaults = 1
    Months = 2
    Stations = {0, 1}
    Amounts = {0, 25}
    Totals = {0, 9, 100}
    Weights <- SomeWeights
    MaxLines = 2
    Unit = 12
    Batch = 2
    DeadTail = 2
    MaxBatches = 9
    Powers = {1, 2, 4, 8, 16}
    FirstTop = 7
    MaxCreated = 1
    MaxDeleted = 1
INVARIANTS
    PlanningTypeOK
    YanksBounded
    OneDeal
    NeverOverbooked
    NothingLost
    CompleteMeansAll
PROPERTIES
    NewerWins
    ArchiveJustified
    PeriodsHeld
    DealsFollow
