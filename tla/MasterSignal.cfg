SPECIFICATION Spec
CONSTANTS
    Wanted <- ShortRequests
    MaxFaults = 1
    MaxCalls = 2
    CommandRetries = 2
    SioRetries = 2
    BytePause = FALSE
    Signals = TRUE
INVARIANTS
    CommandLineAtRest
CHECK_DEADLOCK FALSE
