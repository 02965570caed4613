CONSTANTS
    Lengths <- RoundFlights
    Base = 3
    MaxBlocks = 2
    MaxFlights = 4
    MaxTries = 1
    MaxDownloads = 2
    Garbage <- SomeRanges
    Faults = {"lose", "damage", "cut", "late", "disk full"}
    MaxFaults = 1
SPECIFICATION Spec
INVARIANTS  SectionsCoverRange CleanLineNeverFails
CHECK_DEADLOCK FALSE
