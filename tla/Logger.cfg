CONSTANTS
    NumLines = 5
    BothLines = 3
    MaxLen = 3
    BufSize = 3
    MaxBuffers = 3
    Null = Null
    NumChunks = 4
    ChunkLen = 2
    RotateSize = 3
    FlushInterval = 0
    CheckTime = 1
    PeriodSecs = 2
    Ticks = 2
    MaxTime = 4
SPECIFICATION LoggerSpec
INVARIANTS InOrder NoSilentLoss SparesSuffice PrefixOnDisk BytesCoverFile ServicedInTime RoundsReachDisk
PROPERTIES EventuallyWritten StopReturns
CHECK_DEADLOCK FALSE
