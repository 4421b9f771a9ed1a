CONSTANTS
    Proc = {p1, p2}
    NoProc = NoProc
    Retained = 2
    MaxBytes = 8
    LineLen = {3}
    Logs = {FALSE}
    MaxSerial = 2
SYMMETRY Symmetry
SPECIFICATION Spec
INVARIANT OwnLine
