\* An interval of three units, backed off to five, the ceiling; one of everything else.
CONSTANTS
    jira = jira
    other = other
    Interval = 3
    TickTime = 1
    RunTime = 1
    Outage = 1
    MaxDoublings = 1
    MaxBackoff = 5
    Everything = Everything
    Idle = Idle
    Never = Never
    Conns <- MCConns
    Bound <- MCBound
    Asked <- Both
SPECIFICATION Spec
INVARIANTS
    SchedulerTypeOK
    HealthyStaysFresh
    TriedAgain
PROPERTIES
    NotAskedTwice
