CONSTANTS
    r1 = r1
    r2 = r2
    Requests = {r1, r2}
    Posts <- TwoArticles
    Period = 2
    MaxTime = 2
    StepsMayFail = FALSE
    Chronological = TRUE
SPECIFICATION Spec
PROPERTY NotRefreshedSoon
