\* What the client pulls, no fault, under fairness.
SPECIFICATION FairSpec
CONSTANTS
    l1 = l1
    l2 = l2
    Leads = {l1}
    NoLead = NoLead
    MaxClients = 2
    Fetched <- NoneFetched
    FaultKinds <- NoFault
    MaxFaults = 0
    MaxRearms = 0
PROPERTIES
    ApprovedServed
