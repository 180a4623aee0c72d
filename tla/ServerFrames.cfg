SPECIFICATION Spec
CONSTANTS
    MaxFrames = 2
    MaxChars = 5
    Bursts <- VerdictBursts
    DataLen = 1
    IobufLength = 4
    FifoLen = 2
    Ops = {"get", "poll", "mode", "print"}
    RiseInterrupts = TRUE
    BytePause = FALSE
    Autobaud = TRUE
    StoreReorder = FALSE
INVARIANTS
    ValidIntact
