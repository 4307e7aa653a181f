SPECIFICATION MCSpec
CONSTANTS
    Posts = {p1, p2}
    NoPost = NoPost
    MaxKeys = 3
    MaxAtOnce = 3
SYMMETRY PostSymmetry
INVARIANTS
    MarksAgree
    CountAgrees
    FullTextIsOfTheOpenPost
CHECK_DEADLOCK FALSE
