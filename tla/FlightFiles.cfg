CONSTANTS
    Files <- AllFiles
    Room = 8
    ZanFiles <- AllZan
    Sixty = 5
    HoursADay = 2
    OnTheStack <- Leftovers
SPECIFICATION FlightSpec
INVARIANTS ChunksDoNotMatter LinesAreWhole  AssertionHolds FlightIsTold
CHECK_DEADLOCK FALSE
