\* A connection removed while a run is under way.
CONSTANTS
    jira = jira
    other = other
    la = la
    lb = lb
    x = x
    y = y
    s1 = s1
    s2 = s2
    None = None
    Everything = Everything
    MaxPages = 2
    StaleAfter = 1
    MaxTime = 2
    MaxEdits = 2
    Conns <- OneConn
    Bound <- MCBound
    Labels <- OneLabel
    Accounts <- MCAccounts
    Slots <- MCSlots
SPECIFICATION Spec
INVARIANTS
    OperatorDecides
