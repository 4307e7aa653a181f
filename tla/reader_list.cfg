SPECIFICATION MCSpec
CONSTANTS
    Feeds = {f1}
    AnyFeed = AnyFeed
    Words = {"go"}
    Orders = {"desc", "asc"}
    MaxPages = 2
    MaxKeys = 3
    MaxAtOnce = 3
INVARIANTS
    TypeOK
    FlagsAreBacked
    ListIsTheOneAskedFor
PROPERTIES
    EverySpinnerStops
CHECK_DEADLOCK FALSE
