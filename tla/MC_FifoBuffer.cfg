CONSTANTS
    Byte = {0, 1}
    Size = 5
SPECIFICATION FifoSpec
INVARIANTS AssertionsHold ReadPointerStable
PROPERTY RefinesByteQueue
