SPECIFICATION Spec
CONSTANTS
    MaxFrames = 3
    MaxChars = 5
    Bursts <- CommandBursts
    DataLen = 2
    IobufLength = 6
    FifoLen = 2
    Ops = {"get", "data"}
    RiseInterrupts = FALSE
    BytePause = TRUE
    Autobaud = TRUE
    StoreReorder = FALSE
INVARIANTS
    LcrRestored
