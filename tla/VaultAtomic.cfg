SPECIFICATION FairSpec
CONSTANTS
    Proc = {p1, p2}
    Key = {k1, k2}
    Id = {i1}
    Scope = {s1, s2}
    Kind = {d1}
    Value = {v1}
    EmptyValue = EmptyValue
    TTL = {0, 1}
    MaxTime = 1
    NoKey = NoKey
    BadKey = BadKey
    NoRec = NoRec
    NoProc = NoProc
    ClockStepsBack = TRUE
PROPERTIES Linearizable KeyNeverReplaced LockReleased
