\* One session, two intervals and four instants; two launchers on five hosts; three
\* processes; two projects; three issues in pages of two.
CONSTANTS
    Parts = {"sessions", "updates", "prompts", "history", "launcher", "stores", "handshake", "jira"}
    k1 = k1
    k2 = k2
    t1 = t1
    a1 = a1
    me = me
    other = other
    p = p
    q = q
    l1 = l1
    l2 = l2
    j1 = j1
    j2 = j2
    d1 = d1
    d2 = d2
    d3 = d3
    User = user
    Nothing = Nothing
    SessionKeys <- MCSessionKeys
    Agents <- MCAgents
    OwnerOf <- MCOwnerOf
    Focusable <- MCTickets
    Ids = {1, 2, 3}
    Retention = 1
    PromptRetention = 1
    LastInstant = 1
    None = None
    Null = Null
    Nobody = Nobody
    NoTicket = NoTicket
    Absent = Absent
    Jira = Jira
    Hub = Hub
    Tuned = Tuned
    Usual = Usual
    Odd = Odd
    Unreadable = Unreadable
    Keys <- MCKeys
    Launchers <- MCLaunchers
    Hosts <- MCHosts
    MaxWear = 1
    Projects <- MCProjects
    Sessions <- MCKeys
    Processes <- MCProcesses
    TicketKeys <- MCTickets
    Additions <- MCAdditions
    Revisions <- MCRevisions
    MaxNotes = 2
    MaxRevision = 3
    MaxLives = 2
    Tickets <- MCTickets
    Intervals <- MCIntervals
    Accounts <- MCAccounts
    Operators <- MCOperators
    Multiplier = 1
    Threshold = 2
    MaxTime = 3
    Sites <- MCSites
    Answers <- MCAnswers
    PageSize = 2
    Limit = 2
    Batch = 2
    Nil = Nil
SPECIFICATION ConsoleFair
INVARIANTS
    ConsoleTypeOK
    BallIsWithTheLiving
    GoodMeansWell
    NewestKept
    OnlyCheckedRuns
    AppIsFound
    PullRequestsAreTheirs
    TicketsTellTheSite
PROPERTIES
    LateBeatsDoNotDrag
    NothingLostUnseen
    PanelCatchesUp
    UpgradesAreSound
    ServedWhenUp
CHECK_DEADLOCK FALSE
