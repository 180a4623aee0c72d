SPECIFICATION FairSpec
CONSTANTS
    MaxFrames = 1
    MaxChars = 5
    Bursts <- CommandBursts
    DataLen = 2
    IobufLength = 6
    FifoLen = 2
    Ops = {"get", "ack", "data", "recv", "autobaud_off"}
    RiseInterrupts = FALSE
    BytePause = FALSE
    Autobaud = TRUE
    StoreReorder = FALSE
INVARIANTS
    NoLostWakeup
PROPERTIES
    SendReturns
    FrameFetched
    DataFetched
