\* Two records behind a cap of one, fair passes and syncs, one fault.
SPECIFICATION FairSpec
CONSTANTS
    Records = {1, 2}
    Creates = {1}
    Cap = 1
    MaxBudget = 2
    MaxRows = 2
    OperatorMay <- NoAction
    MaxOps = 0
    MaxFaults = 1
PROPERTIES
    EveryRowRests
