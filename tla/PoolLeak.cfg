CONSTANTS
    t1 = t1
    t2 = t2
    t3 = t3
    t4 = t4
    c1 = c1
    c2 = c2
    c3 = c3
    c4 = c4
    Calls = {t1, t2, t3}
    ResetCalls = {t1}
    SignupCalls = {t2}
    Conns = {c1, c2, c3, c4}
    NoConn = NoConn
    Limit = 2
    MaxStatements = 2
    MaxLosses = 2
SPECIFICATION Spec
INVARIANT ReturnedWhenDone
