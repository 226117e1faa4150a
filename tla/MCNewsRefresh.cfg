CONSTANTS
    worker = worker
    page = page
    Refresher = {worker, page}
    MaxRetry = 1
SPECIFICATION NewsSpec
INVARIANT SnapshotWhole
