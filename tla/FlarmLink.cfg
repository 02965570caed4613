CONSTANTS
    MaxRequests = 2
    Payloads <- SomePayloads
    Chatter <- SomeChatter
    MaxTries = 4
    MaxLost = 2
    FrameCap = 3
SPECIFICATION Spec
INVARIANTS PayloadIntact WholeFrameReturned WaitingForFlarm
PROPERTY PingEnds
CHECK_DEADLOCK FALSE
