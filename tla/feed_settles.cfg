SPECIFICATION FairSpec
CONSTANTS
    old = old
    new = new
    undated = undated
    Scrapers = {agg, tui}
    Aggregator = agg
    Articles = {old, new}
    Published <- DatesOf
    Editions <- TwoEditions
    Unstamped = {}
    Shared = {new}
    Savable = {}
    Homes = 2
    Temporary = {}
    Occupied = {}
    Retention = 1
    Keep = 1
    Policies = {}
    MaxTime = 2
    MaxFaults = 1
INVARIANTS
    TypeOK
PROPERTIES
    NewsArrives
    HealthHeals
    FollowsMoves
