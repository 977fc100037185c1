\* Two plain sockets and nothing that goes wrong.
SPECIFICATION Spec
CONSTANTS
    SSL = {}
    BufferSize = 3
    ChunkSize = 1
    Preload <- NoPreload
    MaxBytes = 3
    Window = 1
    Faults = {}
INVARIANTS
    ForthComplete
CHECK_DEADLOCK FALSE
