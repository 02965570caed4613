CONSTANTS
    Lengths <- TwoFlights
    Base = 3
    MaxBlocks = 2
    Versions = {1, 2}
    Default = 0
    Chunks = 2
    AptBlocks = 1
    Incomplete = {1}
    Ranges <- SomeRanges
    MaxTries = 1
    MaxCommands = 2
    Commands = {"raw", "basic", "flight", "raw_mem", "download",
                "read_tp_tsk", "write_tp_tsk", "write_apt", "write", "read"}
    Faults = {"lose", "damage", "cut", "late", "kill", "disk full"}
    MaxFaults = 1
    MaxRestarts = 1
SPECIFICATION Spec
INVARIANTS ReadIsLastWrite AptIsWhole MemoryIsTheRange
PROPERTIES FilesAreRegisters EveryCommandEnds
CHECK_DEADLOCK FALSE
