CONSTANTS
    Found <- AnyFile
    MaxFaults = 1
    MaxTries = 2
SPECIFICATION Spec
INVARIANT EraseAfterSuccess
CHECK_DEADLOCK FALSE
