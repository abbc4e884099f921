\* Every component of the intake at its full bounds, one at a time.
SPECIFICATION AllSpec
CONSTANTS
    NClients = 2
    NCompanies = 2
    Likenesses <- FewShared
    RuleLists <- SomeRules
    MaxDecisions = 1
    MaxMatchFaults = 1
    Subjects = {"r1", "r2"}
    Bodies = {"a", "blank"}
    Nameless = {"blank"}
    SubjectOf <- BodysSubject
    MaxChanges = 2
    MaxResends = 1
    MaxIntakeFaults = 1
    EnvFlag = "plan"
    MaxToggles = 2
    MaxRequests = 2
    MaxPlanFaults = 1
    ClientCount = 3
    ContractCount = 2
    Labels = {"x", "y"}
    Reps = {"r"}
    TeamOf <- TwoTeams
    OwnerOf <- RepsOwner
    PrimaryTeam <- RepsTeam
    TeamOwner <- TeamsOwner
    Nil = Nil
    MaxFacts = 3
INVARIANTS
    AllTypeOK
    FirstRuleDecides
    
    ResendsAreHarmless
    FamiliesHold
PROPERTIES
    SyncRespectsPeople
    ChangesArrive
    SwitchArrives
\* Every sync waits for people once the bounds are spent; a catalog with its
\* teams assigned is final.
CHECK_DEADLOCK FALSE
