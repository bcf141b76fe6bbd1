\* The dialog alone, with its list refreshed under it.
CONSTANTS
    n1 = n1
    t1 = t1
    t2 = t2
    t3 = t3
    a1 = a1
    a2 = a2
    r1 = r1
    c1 = c1
    s1 = s1
    x1 = x1
    x2 = x2
    i1 = i1
    b1 = b1
    b2 = b2
    y1 = y1
    done = done
    Missing = Missing
    Void = Void
    MaxPressed = 2
    Primary = x1
    Regions <- MCRegions
    Chips <- MCChips
    Hideable <- MCHideable
    Displays <- MCDisplays
    Requested <- MCRequested
    FoundRows <- MCFoundRows
    Unreadable = Unreadable
    User = user
    None = None
    Null = Null
    Nil = Nil
    Codes <- MCCodes
    IdOf <- MCIdOf
    Accounts <- MCAccounts
    MaxSaves = 1
    Mirrors <- MCMirrors
    Projects <- MCTracked
    Statuses <- MCStatuses
    Https <- MCHttps
    MaxRevision = 3
    MaxWrites = 2
    Parts = {"notes"}
    Called <- MCCalled
    Ids <- MCIds
    Texts <- MCTexts
    Agents <- MCAgents
SPECIFICATION DeskSpec
SYMMETRY Alike
PROPERTIES
    OperatorOverwritesSeen
CHECK_DEADLOCK FALSE
