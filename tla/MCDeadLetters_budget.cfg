\* One client to be created, every actor, two operator actions, an error or a crash.
SPECIFICATION Spec
CONSTANTS
    Records = {1}
    Creates = {1}
    Cap = 1
    MaxBudget = 3
    MaxRows = 2
    OperatorMay <- AnyAction
    MaxOps = 2
    MaxFaults = 1
INVARIANTS
    TypeOK
    NeverBilledTwice
    CyclesAreBilled
    FreezesEscalated
PROPERTIES
    ResolvedStays
