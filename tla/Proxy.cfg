SPECIFICATION FairSpec
CONSTANTS
    Exch = {x1, x2}
    Upstream <- MCUpstream
    Requests <- MCRequests
    Responses <- MCResponses
    Frames <- MCFrames
    MaxReplacements = 2
    MaxFrames = 2
    None = None
INVARIANTS NothingRawCrosses RecordedOnce TraceTruthful LoopStops
PROPERTIES ImplementsTrace Drains
