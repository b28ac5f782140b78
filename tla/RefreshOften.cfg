CONSTANTS
    r1 = r1
    r2 = r2
    Requests = {r1, r2}
    Posts <- DatedAndUndated
    Period = 2
    MaxTime = 2
    StepsMayFail = TRUE
    Chronological = FALSE
SPECIFICATION FairSpec
INVARIANT TypeOK
PROPERTIES
    OkMeansWritten
    SoonOnlyIfOverlapped
    EveryRequestAnswered
