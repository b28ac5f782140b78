CONSTANTS
    r1 = r1
    r2 = r2
    u1 = u1
    u2 = u2
    Requests = {r1, r2}
    Users = {u1, u2}
    NoRow = NoRow
    Keep = 2
    Lifetime = 1
    MaxIds = 3
    MaxTime = 1
SPECIFICATION Spec
SYMMETRY RequestSymmetry
INVARIANTS
    TypeOK
    KeptAtMost
    NoUndueRefusal
PROPERTY HonouredOnceUnlessRaced
