SPECIFICATION CacheSpec
CONSTANTS
    Feeds = {1, 2}
    AllPosts = {1, 2, 3}
    FeedOf <- FeedOfPosts
    TimeOf <- TimeOfPosts
    NameOf <- NameOfFeeds
    TextsOf <- TextsOfPosts
    Collated <- InCollation
    Lowered <- InLowerCase
    Folders = {none, news}
    NoFolder = none
    MaxPosts = 3
    MaxEvents = 3
    Lists = {{1, 2, 3}, {1, 3}}
    Pages <- OnePage
    Asked <- AskedQueries
INVARIANTS
    SameAnswers
    ResendingChangesNothing
PROPERTIES
    SyncAgrees
    ChangesForeseen
CHECK_DEADLOCK FALSE
