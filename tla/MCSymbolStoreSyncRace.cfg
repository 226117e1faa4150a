CONSTANTS
    full = full
    bare = bare
    background = background
    ui = ui
    None = None
    Symbol = {full}
    Promotable = {full}
    Worker = {background, ui}
    Preflight = {ui}
    MaxItems = 1
    FreshAge = 1
    MaxTime = 1
SPECIFICATION Spec
PROPERTY SyncRemovesOnlyProcessed
