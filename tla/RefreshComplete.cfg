CONSTANTS
    r1 = r1
    r2 = r2
    Requests = {r1, r2}
    Posts <- ThreeTexts
    Period = 2
    MaxTime = 2
    StepsMayFail = FALSE
    Chronological = TRUE
SPECIFICATION Spec
SYMMETRY RequestSymmetry
INVARIANT NothingLost
