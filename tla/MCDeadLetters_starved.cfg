\* One record; the scheduler's passes under fairness alone.
SPECIFICATION FairSpec
CONSTANTS
    Records = {1}
    Creates = {}
    Cap = 1
    MaxBudget = 2
    MaxRows = 1
    OperatorMay <- NoAction
    MaxOps = 0
    MaxFaults = 0
PROPERTIES
    EveryOpenRowRetried
