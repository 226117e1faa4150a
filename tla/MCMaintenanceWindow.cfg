SPECIFICATION FairSpec
CONSTANTS
    browser = browser
    ranking = ranking
    recovery = recovery
    lan = lan
    None = None
    Session = {browser}
    Operation = {ranking}
    Pid = {1, 2}
    Launcher = {recovery, lan}
    Resilient = {recovery}
    ScansOpsDir = FALSE
    MaxMishaps = 1
INVARIANTS TypeOK BusyIsMarked OneServer
PROPERTIES InterruptsOnlyLate LeavesOnlyOnRequest ComesBack
