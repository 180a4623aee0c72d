SPECIFICATION DevicesSpec
CONSTANTS
    Probes <- MCProbes
    Values = {1}
    Blocks <- MCBlocks
    Presets <- MCPresets
    Rotation = 5
    SpinUp = 2
    MotorOff = 1
    SeekForward = 2
    SeekBackward = 1
    Settling = 1
    SectorTime = 1
    Retry = 5
    Layout <- MCLayout
    TrackSkew = 2
    AtpTracks = 2
    AtpDisks <- MCDisks
    AtpValues = {1}
    Watched = {1, 3, 6}
    TapeFiles <- MCTapeFiles
    MaxTransfer = 2
    Skip = 2
    NewPart = 5
    StandardRate = 19200
    DefaultTapeRate = 600
    PrintLines <- MCPrintLines
    Says <- MCSays
    PipeSize = 4
    ReadbufSize = 4
    BufferLength = 3
    MaxPrints = 2
    ImageLengths = {128, 256, 512, 8192}
    SectorCounts <- MCCounts
INVARIANTS
    Promised
    ConfigFresh
    AtpNearest
    AtpPromised
    TapeSound
    RepliesLogged
    GeometrySound
PROPERTIES
    RateLeft
    TapeEnds
    PrinterLetsGo
CHECK_DEADLOCK FALSE
