SPECIFICATION FairSpec
CONSTANTS
    Proc = {1, 2, 3}
    Scenarios <- MCScenarios
    DefaultAllowed <- MCDefaultAllowed
    Providers <- MCProviders
    Responses <- MCResponses
    Conn = {c1, c2}
    Hosts <- MCHosts
    OutputLimit = 4194304
    CutMargin = 512
    MaxDepth = 2
    MaxFiles = 2
    MaxFileBytes = 4
    MaxTotalBytes = 5
    MaxLines = 7
    MaxHunkLines = 1
    LineMarks <- MCLineMarks
    Messages <- MCMessages
    MaxMessages = 2
INVARIANTS NothingWhole RefsBacked EgressJustified CleanMeansClean SuccessRecorded
PROPERTIES NeverClobbers CommandsEnd
