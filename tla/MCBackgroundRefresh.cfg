SPECIFICATION FairSpec
CONSTANTS
    Symbol = {1, 2, 3}
    Score <- Scores
    Request <- Watched
    StartupMax = 2
    Steps <- Plan
    RecurringMax = 3
    SessionCap = 9
    TargetMax = 2
    HintLimit = 2
INVARIANTS
    TypeOK
    CapRespected
    StopsOnlyWhenDone
PROPERTIES
    CycleEnds
