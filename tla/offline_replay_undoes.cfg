SPECIFICATION Spec
CONSTANTS
    c1 = c1
    c2 = c2
    star = star
    folder = folder
    account = account
    Calls = {c1}
    Items = {star}
    Folders = {}
    Profile = account
    Views <- OneView
    MaxQueued = 2
    Faults = {"outage"}
    MaxChanges = 2
    MaxRestarts = 0
PROPERTIES
    ReplayNeverUndoes
