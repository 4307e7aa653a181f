SPECIFICATION Spec
CONSTANTS
    p1 = p1
    alice = alice
    bob = bob
    Users = {alice, bob}
    Server = server
    Calls = {c1, c2}
    Feeds = {1}
    AllPosts = {p1}
    FeedOf <- FeedOfPosts
    TimeOf <- TimeOfPosts
    NameOf <- NameOfFeeds
    TextsOf <- TextsOfPosts
    Collated <- InOrderOfFeeds
    Lowered <- InOrderOfFeeds
    Folders = {none, news}
    NoFolder = none
SYMMETRY Symmetry
INVARIANTS
    TypeOK
    AddedIsFollowed
PROPERTIES
    ImplementsShelves
CHECK_DEADLOCK FALSE
