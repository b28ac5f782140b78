CONSTANTS
    f1 = f1
    f2 = f2
    f3 = f3
    Feeds = {f1, f2}
    Slow = {}
    Posts <- TwoPosts
    Limit = 0
    Rendered = TRUE
    CallsMayFail = FALSE
SPECIFICATION Spec
PROPERTY TrimForgetsOlder
CHECK_DEADLOCK FALSE
