SPECIFICATION Spec
CONSTANTS
    old = old
    new = new
    undated = undated
    Scrapers = {agg, tui}
    Aggregator = agg
    Articles = {old, new, undated}
    Published <- DatesOf
    Editions <- ThinEditions
    Unstamped = {}
    Shared = {}
    Savable = {old}
    Homes = 1
    Temporary = {}
    Occupied = {}
    Retention = 1
    Keep = 1
    Policies <- OtherPolicies
    MaxTime = 3
    MaxFaults = 1
INVARIANTS
    NothingMissed
PROPERTIES
    PrunedStaysOut
