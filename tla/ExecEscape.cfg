CONSTANTS
    Child = Child
    Kin = {k1}
    Timeouts = {TRUE}
    Escapes = {TRUE}
    KillFailures = {FALSE}
    Capacity = 1
    MaxSent = 2
SPECIFICATION FairSpec
PROPERTY TimeoutReturns
