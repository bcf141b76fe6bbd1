\* Two connections in one lane, two runs at a time.
CONSTANTS
    jira = jira
    other = other
    la = la
    lb = lb
    x = x
    y = y
    s1 = s1
    s2 = s2
    None = None
    Everything = Everything
    MaxPages = 1
    StaleAfter = 0
    MaxTime = 2
    MaxEdits = 2
    Conns <- TwoConns
    Bound <- BothBound
    Labels <- MCLabels
    Accounts <- OneAccount
    Slots <- MCSlots
SPECIFICATION Spec
INVARIANTS
    FreshMeansFresh
