CONSTANT Faults = {"restart"}
SPECIFICATION Spec
INVARIANT InterruptedIsClean
