SPECIFICATION FairSpec
CONSTANTS
    Wanted <- Repertoire
    MaxFaults = 1
    MaxCalls = 2
    CommandRetries = 2
    SioRetries = 2
    BytePause = TRUE
    Signals = TRUE
INVARIANTS
    WritesLimited
PROPERTIES
    Transaction
    DataIsOurs
    RatesAgree
    MasterReturns
CHECK_DEADLOCK FALSE
