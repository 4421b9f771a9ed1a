CONSTANT Faults = {"restart", "orphan"}
SPECIFICATION FairSpec
INVARIANTS CleanExit InterruptReported
PROPERTY InterruptEnds
