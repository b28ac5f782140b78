CONSTANTS
    r1 = r1
    r2 = r2
    Requests = {r1}
    Posts <- TwoArticles
    Period = 2
    MaxTime = 3
    StepsMayFail = TRUE
    Chronological = TRUE
SPECIFICATION Spec
INVARIANT NothingLost
