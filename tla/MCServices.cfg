CONSTANTS
    t1 = t1
    t2 = t2
    \* NotificationSchedule
    Poller = {t1, t2}
    User = {u}
    Job = {"daily", "move"}
    DueAt <- MCDueAt
    Severity <- MCSeverity
    Day = 3
    UtcOffset = 1
    QuietStart = 2
    QuietEnd = 1
    MaxClock = 2
    \* RankingHistory
    Worker = {t1, t2}
    Signature = {s1}
    Keep = 1
    Window = 1
    MaxRuns = 3
    MaxTime = 1
    None = None
    \* Favorites
    Tab = {t1, t2}
    Symbol = {a}
    Absent = Absent
    \* WatchlistGroups
    Editor = {t1, t2}
    Placeable = {a}
    GroupId = {g1, g2, g3}
    Name = {n1, n2}
    MaxGroups = 2
    Unplaced = Unplaced
    \* MaintenanceJob
    Driver = {t1, t2}
    Interval = 2
    Cooldown = 1
    MaxDay = 2
    \* AssistantWorkflow
    Flow <- MCFlow
    Confirmable = {"update_research", "create_decision_report", "download_decision_report"}
    Offerable = {"update_research", "create_decision_report"}
    \* AssistantWarmup
    Thread = {t1, t2}
    MaxAttempts = 2
    \* NewsRefresh
    Refresher = {t1, t2}
    MaxRetry = 1
    \* PortfolioRebalance
    Asset = {a, b}
    Quotes = {1, 2}
    W = 4
    Grain = 3
    MaxUnits = 4
    MaxCash = 2

SPECIFICATION Spec
SYMMETRY Interchangeable
CHECK_DEADLOCK FALSE

INVARIANTS
    ServicesTypeOK
    AtMostOnce
    RunLogTrue
    IndexedReadable
    FilesAgree
    FavoritesKept
    GroupsConsistent
    StateIsTrue
    SessionMatchesSteps
    NewsKept
    ProposalMeetsTargets
PROPERTIES
    Serialized
    ImportsOnlyWhenDue
