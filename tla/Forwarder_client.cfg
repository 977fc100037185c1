\* The forwarder of a client: nxproxy and an SSL connection with something in its buffer.
SPECIFICATION LiveSpec
CONSTANTS
    SSL = {2}
    BufferSize = 2
    ChunkSize = 1
    Preload <- Answered
    MaxBytes = 3
    Window = 1
    Faults = {"reset", "renegotiate"}
INVARIANTS
    BufferBounded
    BackComplete
PROPERTIES
    BackTold
    ForwarderEnds
    AllArrives
CHECK_DEADLOCK FALSE
