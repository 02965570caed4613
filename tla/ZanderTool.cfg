CONSTANTS
    First = 4
    Limit = 10
    Flights <- RingFlights
    ListBase = 2
    FakeLimit = 8
    FileSize = 6
    Devices = {"logger", "fakezander"}
    Downloads = 2
    MaxLost = 1
    Chunks = 2
    RawInputs <- SomeRaw
    Programs = 3
    Versions = 2
SPECIFICATION ToolSpec
   
PROPERTY DownloadsEnd
CHECK_DEADLOCK FALSE
