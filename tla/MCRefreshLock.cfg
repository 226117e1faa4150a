SPECIFICATION FairSpec
CONSTANTS
    cycle = cycle
    preflight = preflight
    Runner = {cycle, preflight}
    MaxMishaps = 2
INVARIANTS
    TypeOK
    QueueTornOnlyByOverlap
PROPERTIES
    KeepsRefreshing
