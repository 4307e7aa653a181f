SPECIFICATION UsedSpec
CONSTANTS
    c1 = c1
    c2 = c2
    star = star
    folder = folder
    account = account
    Calls = {c1, c2}
    Items = {star}
    Folders = {}
    Profile = account
    Views <- OneView
    MaxQueued = 2
    Faults = {"outage"}
    MaxChanges = 3
    MaxRestarts = 0
INVARIANTS
    TypeOK
    OneFlusher
    WithinCap
    EveryLossIsAdmitted
PROPERTIES
    ImplementsOutbox
    FlushEnds
    QueueDrains
    CacheConverges
