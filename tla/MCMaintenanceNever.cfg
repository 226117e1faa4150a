SPECIFICATION FairSpec
CONSTANTS
    browser = browser
    ranking = ranking
    recovery = recovery
    lan = lan
    None = None
    Session = {browser}
    Operation = {ranking}
    Pid = {1, 2}
    Launcher = {recovery, lan}
    Resilient = {recovery}
    ScansOpsDir = TRUE
    MaxMishaps = 0
PROPERTY RestartsWhenIdle
