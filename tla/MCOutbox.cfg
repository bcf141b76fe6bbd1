\* The outbox service contract, sweep included.
CONSTANTS
    r1 = r1
    bad = bad
    t1 = t1
    t2 = t2
    a1 = a1
    a2 = a2
    ag1 = ag1
    Operator = operator
    System = system
    Unknown = unknown
    None = None
    Lease = 1
    PendingTtl = 2
    ConfirmTtl = 1
    MaxTime = 2
    SweepScheduled = TRUE
    Requests <- MCRequests
    Actionable <- MCActionable
    Tokens <- MCTokens
    Ids <- MCIds
    Agents <- MCAgents
SPECIFICATION FairSpec
INVARIANTS
    TypeOK
    ConsentBacked
    HistoryCoherent
    ClaimsAccounted
PROPERTIES
    AppendOnly
    ImplementsDispatch
    LapsedReturns
