SPECIFICATION DataSpec
CONSTANTS
    MaxReceived = 8
    Bytes = {0, 1, 127, 128, 255}
    Sectors <- MCSectors
    Contents = {0, 1}
    Zero = 0
    MaxFaults = 1
    MaxRetries = 1
    Geometries <- MCGeometries
    FileSizes = {1, 400}
    MaxEntries = 3
    Slots = {0, 6, 7}
    Names = {"A", "B"}
    Listings <- MCListings
    NoName = NoName
    MaxWrites = 2
    Full = 6
    PassLimit = 12
    Devices = {"drive", "printer"}
    PrinterId = "printer"
    Errors = {19}
    EINVAL = 22
    Ports = {"ttyS0", "ttyS1"}
    Params <- MCParams
    Fates <- MCFates
    ImageSizes = {3, 6}
    ImageSectors <- MCImageSectors
    Base = 2
    IobufLength = 6
    FifoLen = 2
    Chars = {0, 255}
    Blocks <- MCBlocks
    Frames <- MCFrames
    Lengths = {3, 4}
INVARIANTS
    VerdictTrue
    CopyIsTrue
    DiskSound
    Mirrored
    CodecsKeepData
    PortsReturned
PROPERTIES
    HostKept
    RingsAreQueues
    Served
CHECK_DEADLOCK FALSE
