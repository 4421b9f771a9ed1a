CONSTANTS
    Child = Child
    Kin = {k1}
    Timeouts = {TRUE, FALSE}
    Escapes = {TRUE, FALSE}
    KillFailures = {TRUE, FALSE}
    Capacity = 2
    MaxSent = 2
SPECIFICATION FairSpec
INVARIANTS CompleteCapture ChildReaped NoSurvivors
PROPERTY Returns
