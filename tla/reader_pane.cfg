SPECIFICATION MCSpec
CONSTANTS
    Feeds = {1, 2, 3}
    Folders = {1, 2}
    Root = 0
    AnyFeed = 0
    NameOf <- MCNameOf
    CategoryOf <- MCCategoryOf
    MaxKeys = 3
    MaxAtOnce = 3
INVARIANTS
    PaneAgrees
    FilterIsInThePane
    QuestionOutlivesLoads
CHECK_DEADLOCK FALSE
