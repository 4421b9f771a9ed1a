SPECIFICATION Spec
CONSTANTS
    Proc = {p1, p2}
    Key = {k1}
    Id = {i1, i2}
    Scope = {s1, s2}
    Kind = {d1, d2}
    Value = {v1}
    EmptyValue = EmptyValue
    TTL = {0, 1}
    MaxTime = 2
    NoKey = NoKey
    BadKey = BadKey
    NoRec = NoRec
    NoProc = NoProc
    ClockStepsBack = FALSE
SYMMETRY Symmetry
INVARIANT SnapshotInv
PROPERTIES OnlyJustifiedChanges AckMeansDurable NoEarlyExpiry OnlyAuthorizedReplies
