CONSTANTS
    f1 = f1
    f2 = f2
    f3 = f3
    Feeds = {f1, f2, f3}
    Slow = {f3}
    Posts <- SharedPost
    Limit = 1
    Rendered = FALSE
    CallsMayFail = TRUE
SPECIFICATION FairSpec
INVARIANTS
    TypeOK
    NoPostTwice
    ButtonTellsTruth
PROPERTIES
    EveryFeedLoaded
    TrimForgetsOlder
CHECK_DEADLOCK FALSE
