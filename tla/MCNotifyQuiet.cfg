CONSTANTS
    Poller = {p}
    User = {u}
    Job = {"daily"}
    DueAt <- MCDueAt
    Severity <- MCSeverity
    Day = 3
    UtcOffset = 1
    QuietStart = 2
    QuietEnd = 1
    MaxClock = 4
SPECIFICATION NotifySpec
PROPERTY QuietRespected
