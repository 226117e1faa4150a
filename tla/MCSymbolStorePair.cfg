CONSTANTS
    full = full
    bare = bare
    background = background
    ui = ui
    None = None
    Symbol = {full, bare}
    Promotable = {full}
    Worker = {background, ui}
    Preflight = {ui}
    MaxItems = 1
    FreshAge = 0
    MaxTime = 1
SPECIFICATION Spec
CONSTRAINT BareRow
INVARIANTS TypeOK KnownNotMissing
PROPERTY KnownNeverLost
