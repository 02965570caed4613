CONSTANTS
    Found <- AnyFile
    MaxFaults = 2
    MaxTries = 2
SPECIFICATION Spec
INVARIANTS SectionsInOrder CleanDownload
PROPERTY RunEnds
CHECK_DEADLOCK FALSE
