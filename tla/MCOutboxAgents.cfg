\* Agents with names of their own.
CONSTANTS
    r1 = r1
    t1 = t1
    t2 = t2
    a1 = a1
    a2 = a2
    ag1 = ag1
    ag2 = ag2
    c1 = c1
    c2 = c2
    Operator = operator
    System = system
    Unknown = unknown
    None = None
    Idle = Idle
    Lease = 1
    PendingTtl = 2
    ConfirmTtl = 1
    MaxTime = 2
    MaxDeaths = 1
    SweepScheduled = FALSE
    Requests <- MCRequests
    Actionable <- MCRequests
    Tokens <- MCTokens
    Ids <- MCIds
    Agents <- MCAgents
    Clients <- MCClients
    NameOf <- DistinctNames
SPECIFICATION FairAgentsSpec
INVARIANTS
    AgentsTypeOK
    ReportedByClaimant
    LeaseHonoured
PROPERTIES
    PendingTaken
