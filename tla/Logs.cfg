CONSTANTS
    Proc = {p1, p2}
    NoProc = NoProc
    Retained = 2
    MaxBytes = 4
    LineLen = {2, 3, 5}
    Logs = {TRUE, FALSE}
    MaxSerial = 4
SYMMETRY Symmetry
SPECIFICATION Spec
INVARIANTS OrderInv NoHoles Bounded ReadComplete
