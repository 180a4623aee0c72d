SPECIFICATION UserSpec
CONSTANTS
    Wanted <- Repertoire
    MaxFaults = 1
    MaxCalls = 2
    CommandRetries = 2
    SioRetries = 2
    Signals = TRUE
    MaxFrames = 2
    MaxChars = 4
    MaxQueue = 3
    DataLen = 2
    CmdRawLength = 3
    ReadLen = 3
    CmdBufLength = 6
INVARIANTS
    HandedWhole
PROPERTIES
    Transaction
    MasterReturns
    RepliesNotCut
    HeardAtLast
CHECK_DEADLOCK FALSE
