CONSTANTS
    Programs = {"fwd", "lxn-fwd"}
    MaxSessions = 2
    MaxBytes = 3
    Chunk = 2
    MaxTries = 1
SPECIFICATION Spec
INVARIANTS DeviceGetsWhatWasWritten SessionsHearTheAnswers
PROPERTY BothSidesAreServed
CHECK_DEADLOCK FALSE
