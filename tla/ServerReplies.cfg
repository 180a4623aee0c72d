SPECIFICATION Spec
CONSTANTS
    MaxFrames = 2
    MaxChars = 5
    Bursts <- CommandBursts
    DataLen = 2
    IobufLength = 6
    FifoLen = 2
    Ops = {"get", "ack_xf", "data_xf", "error"}
    RiseInterrupts = FALSE
    BytePause = TRUE
    Autobaud = FALSE
    StoreReorder = FALSE
INVARIANTS
    OneEpoch
    WaitingIsNewer
PROPERTIES
    DrainedOnSuccess
