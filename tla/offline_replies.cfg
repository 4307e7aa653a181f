SPECIFICATION Spec
CONSTANTS
    c1 = c1
    c2 = c2
    star = star
    folder = folder
    account = account
    Calls = {c1}
    Items = {star}
    Folders = {star}
    Profile = account
    Views <- OneView
    MaxQueued = 2
    Faults = {"outage", "lostreply", "error", "gone", "cancel", "torn", "close", "rewrite"}
    MaxChanges = 3
    MaxRestarts = 1
INVARIANTS
    Durable
    OfflineWritesWin
