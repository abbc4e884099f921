\* What the tests feed the planner: a lead, any four faults, two rearmings.
SPECIFICATION FairSpec
CONSTANTS
    l1 = l1
    l2 = l2
    Leads = {l1}
    NoLead = NoLead
    MaxClients = 8
    Fetched <- AllFetched
    FaultKinds <- AnyFault
    MaxFaults = 4
    MaxRearms = 2
INVARIANTS
    TypeOK
    GateHolds
    OneClientPerApproval
    NoTwinOfListed
    CreationsPaid
PROPERTIES
    ApprovedServed
